---------------------------- MODULE MCUrlAdmission ----------------------------
EXTENDS UrlAdmission

\* The neighbours of an address; the parts of an address are below Base.
Base(address) == IF Len(address) = 4 THEN 256 ELSE 65536

After(address) ==
  LET carry == {i \in DOMAIN address: address[i] < Base(address) - 1}
      at    == CHOOSE i \in carry: \A j \in carry: j <= i
  IN  IF carry = {} THEN address
      ELSE [i \in DOMAIN address |-> IF i < at THEN address[i]
                                     ELSE IF i = at THEN address[i] + 1 ELSE 0]

Before(address) ==
  LET borrow == {i \in DOMAIN address: address[i] > 0}
      at     == CHOOSE i \in borrow: \A j \in borrow: j <= i
  IN  IF borrow = {} THEN address
      ELSE [i \in DOMAIN address |-> IF i < at THEN address[i]
                                     ELSE IF i = at THEN address[i] - 1 ELSE Base(address) - 1]

Edges == UNION {{Before(r[1]), r[1], r[2], After(r[2])}: r \in SpecialRanges}

Public4 == <<8, 8, 8, 8>>
Public6 == <<\h2606, \h4700, \h4700, 0, 0, 0, 0, \h1111>>
Listed4 == <<1, 1, 1, 1>>
Listed6 == <<\h2606, \h4700, \h4700, 0, 0, 0, 0, \h1001>>
Private == <<10, 0, 0, 1>>

Some == {Public4, Public6, Listed4, Listed6, Private}

MCAnswers ==
  {<<>>} \cup {<<a>>: a \in Some \cup Edges} \cup {<<a, b>>: a, b \in Some}
         \cup {<<a, b, Public4>>: a, b \in {Public4, Private}}

MCGlobalRules == [names |-> {<<"example", "com">>}, addresses |-> {Listed4}]
MCWorkspaceRules == [names |-> {<<"internal", "">>}, addresses |-> {Listed6}]

Named(labels) == [kind |-> "name", labels |-> labels]
Literal(address) == [kind |-> "ip", address |-> address]
NoHost == [kind |-> "none"]

\* Names up to three labels, absolute or not, some blacklisted, some malformed, some
\* as long as a name may be (a.example.com., example.other) or longer (internal.other).
MCLabelBytes ==
  [l \in {"example", "com", "internal", "other", "a", "", "-"} |->
     CASE l = "example" -> 7 [] l = "com" -> 3 [] l = "internal" -> 8 [] l = "other" -> 5
       [] l = "" -> 0 [] OTHER -> 1]

Labels == {"example", "com", "internal", "other", "", "-"}
MCHosts == {Named(<<a>>): a \in Labels \ {""}} \cup {Named(<<a, b>>): a, b \in Labels}
           \cup {Named(<<"a", "example", b>>): b \in Labels}
           \cup {Named(<<"example", "com", "">>), Named(<<"a", "example", "com", "">>),
              Named(<<"example", "com", "", "">>)}
           \cup {Literal(a): a \in Some \cup Edges} \cup {NoHost}

Plain(host) == [host |-> host, path |-> <<"x">>]
Pathed(path) == [host |-> Literal(Public4), path |-> path]

PathTokens == {"&", "amp;", "lt;", "gt;", "|", "tab"}
Some3 == {Plain(Named(<<"a">>)), Plain(Named(<<"com">>)), Plain(Literal(Private)), Pathed(<<"tab">>)}

Fitting ==
  {<<Plain(host)>>: host \in MCHosts}
    \cup {<<Pathed(path)>>: path \in UNION {[1..n -> PathTokens]: n \in 0..4}}
    \cup {<<a, b>>: a, b \in Some3} \cup {<<a, b, c>>: a, b, c \in Some3}

MCMessages ==
  {[captures |-> captures, fits |-> TRUE]: captures \in Fitting}
    \cup {[captures |-> <<Plain(Named(<<"a">>))>>, fits |-> FALSE]}
===============================================================================
