----------------------------- MODULE UrlAdmission -----------------------------
(***************************************************************************)
(* One message on its way through the worker: the matches of url_regex are *)
(* decoded and validated (harvest.rs), each URL is checked against the     *)
(* blacklists and the public-address policy (url_filter.rs), and what      *)
(* passes becomes a row (db_util.rs); the receipt tells the sender how it  *)
(* went.  The resolver and the database answer, fail or stay silent, and   *)
(* the drain deadline may drop the work at any point.                      *)
(*                                                                         *)
(* A capture is [host, path]: its path is a sequence of Tokens, each as    *)
(* long as Bytes says, and only the path counts towards MAX_URL_BYTES.  A  *)
(* name is the sequence of its labels, each as long as LabelBytes says;    *)
(* the empty label after a trailing dot makes it absolute.  An IPv4        *)
(* address is its 4 bytes, an IPv6 address its 8 words.                    *)
(*                                                                         *)
(* A statement whose answer the worker did not wait for may still commit,  *)
(* behind the rows of later URLs.                                          *)
(***************************************************************************)
EXTENDS Integers, SequencesExt, FiniteSetsExt

CONSTANTS
  Messages,              \* the messages, [captures |-> ..., fits |-> ...]
  Answers,               \* what the resolver may answer: sequences of addresses
  LabelBytes,            \* the labels of names, and the bytes of each
  MalformedLabels,       \* labels dns_name refuses, the empty one among them
  GlobalRules,           \* url_blacklist of the bot: [names, addresses]
  WorkspaceRules,        \* url_blacklist of the workspace
  MAX_URL_BYTES,
  MAX_URLS_PER_MESSAGE,
  MAX_NAME_BYTES,        \* of dns_name: 253
  MAX_DNS_ADDRESSES

ASSUME LimitsAssumption ==
  /\ MAX_URL_BYTES \in Nat \ {0}
  /\ MAX_URLS_PER_MESSAGE \in Nat \ {0}
  /\ MAX_NAME_BYTES \in Nat \ {0}
  /\ MAX_DNS_ADDRESSES \in Nat \ {0}

ASSUME LabelsAssumption ==
  /\ LabelBytes \in [DOMAIN LabelBytes -> Nat]
  /\ "" \in DOMAIN LabelBytes /\ LabelBytes[""] = 0
  /\ "" \in MalformedLabels

VARIABLES
  message,               \* the message, as the backend hands it over
  dryRun,                \* QueuedMessage.dry_run
  phase,                 \* where the worker is
  urls, next,            \* the extracted URLs and the one being handled
  failed,                \* handle_msg's flag: some insert failed
  rows,                  \* the rows of the url table, as they were committed
  pending,               \* positions in admitted whose statement may still commit
  receipt,               \* what the sender is told
  admitted, verdict      \* history: URLs the policy let through, last verdict

vars ==
  <<message, dryRun, phase, urls, next, failed, rows, pending, receipt, admitted, verdict>>

Nothing == [host |-> <<>>, path |-> <<>>]
NoVerdict == [url |-> Nothing, asked |-> FALSE, resolved |-> <<>>, admitted |-> FALSE]

-------------------------------------------------------------------------------
(* harvest.rs: from captures to URLs *)

Bytes == [t \in {"&", "amp;", "lt;", "gt;", "<", ">", "%3C", "%3E", "x", "tab"} |->
            CASE t = "amp;" -> 4 [] t \in {"lt;", "gt;", "%3C", "%3E"} -> 3 [] OTHER -> 1]

Tokens == DOMAIN Bytes \cup {"|"}

Addresses == [1..4 -> 0..255] \cup [1..8 -> 0..65535]

\* Url's host, if it found one: never the empty string.
IsHost(host) ==
  \/ host.kind = "none"
  \/ host.kind = "ip" /\ host.address \in Addresses
  \/ host.kind = "name" /\ host.labels \in Seq(DOMAIN LabelBytes) \ {<<>>, <<"">>}

ASSUME MessagesAssumption ==
  \A m \in Messages:
    /\ m.captures \in Seq(Range(m.captures))
    /\ \A capture \in Range(m.captures): IsHost(capture.host) /\ capture.path \in Seq(Tokens)

ASSUME AnswersAssumption == Answers \subseteq Seq(Addresses)

Size(path) ==
  LET size[i \in 0..Len(path)] == IF i = 0 THEN 0 ELSE size[i - 1] + Bytes[path[i]]
  IN  size[Len(path)]

\* The text up to Slack's link label.
Unlabelled(path) ==
  LET bar == SelectInSeq(path, LAMBDA t: t = "|")
  IN  IF bar = 0 THEN path ELSE SubSeq(path, 1, bar - 1)

\* One pass from left to right: no character is read twice.
Pass(path, char) ==
  LET text[i \in 0..Len(path)] ==
        IF i = 0 THEN <<>>
        ELSE IF i > 1 /\ path[i - 1] = "&" /\ path[i] \in DOMAIN char
             THEN Append(Front(text[i - 1]), char[path[i]])
             ELSE Append(text[i - 1], path[i])
  IN  text[Len(path)]

\* str::replace of one entity.
Replaced(path, entity, character) == Pass(path, [e \in {entity} |-> character])

\* Mutant of Decoded: &amp; goes first and its result is decoded again.
DecodedAmpFirst(path) ==
  Replaced(Replaced(Replaced(path, "amp;", "&"), "lt;", "<"), "gt;", ">")

Decoded(path) == Replaced(Replaced(Replaced(path, "lt;", "<"), "gt;", ">"), "amp;", "&")

\* What Url makes of a path: angle brackets are percent-encoded.
Serialized(path) ==
  [i \in DOMAIN path |-> IF path[i] = "<" THEN "%3C" ELSE IF path[i] = ">" THEN "%3E" ELSE path[i]]

\* Mutant of UrlOf: the length is not checked again after normalization.
UrlOfUnchecked(capture) ==
  LET value == Decoded(Unlabelled(capture.path))
  IN  IF Size(value) > MAX_URL_BYTES \/ capture.host.kind = "none" \/ "tab" \in Range(value)
      THEN <<>>
      ELSE <<[host |-> capture.host, path |-> Serialized(value)]>>

\* The URLs of one capture: one, or none when it is oversized or invalid.
UrlOf(capture) ==
  LET value == Decoded(Unlabelled(capture.path))
      url   == Serialized(value)
  IN  IF \/ Size(value) > MAX_URL_BYTES
         \/ capture.host.kind = "none"
         \/ "tab" \in Range(value)
         \/ Size(url) > MAX_URL_BYTES
      THEN <<>>
      ELSE <<[host |-> capture.host, path |-> url]>>

\* Matches that yield no URL count towards the limit too.
ExtractUrls(captures) ==
  LET seen == SubSeq(captures, 1, Min({Len(captures), MAX_URLS_PER_MESSAGE}))
  IN  FlattenSeq([i \in DOMAIN seen |-> UrlOf(seen[i])])

\* A constant, which TLC evaluates once and not in every ENABLED.
Extracted == [m \in Messages |-> ExtractUrls(m.captures)]

-------------------------------------------------------------------------------
(* url_filter.rs: the admission policy *)

\* The labels and the dots between them.
NameBytes(name) ==
  LET bytes[i \in 0..Len(name)] == IF i = 0 THEN 0 ELSE bytes[i - 1] + LabelBytes[name[i]] + 1
  IN  bytes[Len(name)] - 1

\* Mutant of DnsName: the length of the name is not checked.
DnsNameAnyLength(labels) ==
  LET name == IF Len(labels) > 1 /\ Last(labels) = "" THEN Front(labels) ELSE labels
  IN  IF Range(name) \cap MalformedLabels = {} THEN Append(name, "") ELSE <<>>

\* dns_name: the absolute form of a name, or <<>> when it is malformed or too long.
DnsName(labels) ==
  LET name == IF Len(labels) > 1 /\ Last(labels) = "" THEN Front(labels) ELSE labels
  IN  IF NameBytes(name) <= MAX_NAME_BYTES /\ Range(name) \cap MalformedLabels = {}
      THEN Append(name, "") ELSE <<>>

\* A list with a malformed rule does not compile.
ASSUME RulesAssumption ==
  \A rule \in GlobalRules.names \cup WorkspaceRules.names:
    rule \in Seq(DOMAIN LabelBytes) \ {<<>>} /\ DnsName(rule) # <<>>

\* Mutant of Filter: the global list is not included.
FilterOfWorkspace ==
  [domains   |-> {DnsName(rule): rule \in WorkspaceRules.names},
   addresses |-> WorkspaceRules.addresses]

\* compile of both lists, and include of the global one.
Filter ==
  [domains   |-> {DnsName(rule): rule \in WorkspaceRules.names \cup GlobalRules.names},
   addresses |-> WorkspaceRules.addresses \cup GlobalRules.addresses]

\* Mutant of BlocksDomain: a listed domain does not cover its subdomains.
BlocksExactly(name) == name \in Filter.domains

\* The name and each shorter suffix, cut at a dot, that is not empty.
BlocksDomain(name) == \E i \in 1..Len(name) - 1: SubSeq(name, i, Len(name)) \in Filter.domains

\* n & (MAX << (width - bits)), on the parts of an address, each of Part bits.
Masked(address, part, bits) ==
  [i \in DOMAIN address |->
     LET left == bits - part * (i - 1)
         kept == IF left < 0 THEN 0 ELSE IF left > part THEN part ELSE left
         low  == 2 ^ (part - kept)
     IN  (address[i] \div low) * low]

Blocked4 ==
  {<<<<0, 0, 0, 0>>, 8>>, <<<<10, 0, 0, 0>>, 8>>, <<<<100, 64, 0, 0>>, 10>>,
   <<<<127, 0, 0, 0>>, 8>>, <<<<169, 254, 0, 0>>, 16>>, <<<<172, 16, 0, 0>>, 12>>,
   <<<<192, 0, 0, 0>>, 24>>, <<<<192, 0, 2, 0>>, 24>>, <<<<192, 88, 99, 0>>, 24>>,
   <<<<192, 168, 0, 0>>, 16>>, <<<<198, 18, 0, 0>>, 15>>, <<<<198, 51, 100, 0>>, 24>>,
   <<<<203, 0, 113, 0>>, 24>>, <<<<224, 0, 0, 0>>, 4>>, <<<<240, 0, 0, 0>>, 4>>}

Word6(a, b) == <<a, b, 0, 0, 0, 0, 0, 0>>

Blocked6 ==
  {<<Word6(\h2001, 0), 23>>, <<Word6(\h2001, \h0db8), 32>>,
   <<Word6(\h2002, 0), 16>>, <<Word6(\h3fff, 0), 20>>}

PublicV4(address) == \A block \in Blocked4: Masked(address, 8, block[2]) # block[1]

PublicV6(address) ==
  /\ Masked(address, 16, 3) = Word6(\h2000, 0)
  /\ \A block \in Blocked6: Masked(address, 16, block[2]) # block[1]

IsPublicAddress(address) == IF Len(address) = 4 THEN PublicV4(address) ELSE PublicV6(address)

Admits(addresses) ==
  /\ Len(addresses) \in 1..MAX_DNS_ADDRESSES
  /\ \A i \in DOMAIN addresses: addresses[i] \notin Filter.addresses
  /\ \A i \in DOMAIN addresses: IsPublicAddress(addresses[i])

-------------------------------------------------------------------------------
(* slackbot.rs: the worker *)

Init ==
  /\ message \in Messages
  /\ dryRun \in BOOLEAN
  /\ phase = "arrived"
  /\ urls = <<>> /\ next = 1
  /\ failed = FALSE
  /\ rows = <<>> /\ pending = {}
  /\ receipt = "none"
  /\ admitted = <<>> /\ verdict = NoVerdict

Done(answer) == phase' = "done" /\ receipt' = answer

\* prepare_message: an oversized or malformed message is dropped.
Refuse ==
  /\ phase = "arrived" /\ ~message.fits
  /\ Done("refused")
  /\ UNCHANGED <<message, dryRun, urls, next, failed, rows, pending, admitted, verdict>>

Queue ==
  /\ phase = "arrived" /\ message.fits
  /\ phase' = "queued"
  /\ UNCHANGED <<message, dryRun, urls, next, failed, rows, pending, receipt, admitted, verdict>>

\* The message waited for longer than QUEUE_AGE.
Expire ==
  /\ phase = "queued"
  /\ Done("failed")
  /\ UNCHANGED <<message, dryRun, urls, next, failed, rows, pending, admitted, verdict>>

\* The look-ups of sender and channel end within LOOKUP_TIMEOUT, whatever they find.
Extract ==
  /\ phase = "queued"
  /\ urls' = Extracted[message]
  /\ phase' = "checking"
  /\ UNCHANGED <<message, dryRun, next, failed, rows, pending, receipt, admitted, verdict>>

Url == urls[next]

Judged(asked, resolved, ok) ==
  verdict' = [url |-> Url, asked |-> asked, resolved |-> resolved, admitted |-> ok]

\* Exclusion skips the URL and is no failure.
Excluded(asked, resolved) ==
  /\ Judged(asked, resolved, FALSE)
  /\ next' = next + 1 /\ phase' = "checking"
  /\ UNCHANGED <<message, dryRun, urls, failed, rows, pending, receipt, admitted>>

\* Mutant of Admitted: a dry run is noticed in the log only.
AdmittedAlways(resolved) ==
  /\ Judged(TRUE, resolved, TRUE)
  /\ admitted' = Append(admitted, Url)
  /\ phase' = "inserting"
  /\ UNCHANGED <<message, dryRun, urls, next, failed, rows, pending, receipt>>

Admitted(resolved) ==
  /\ Judged(TRUE, resolved, TRUE)
  /\ admitted' = Append(admitted, Url)
  /\ IF dryRun THEN next' = next + 1 /\ phase' = "checking"
     ELSE phase' = "inserting" /\ UNCHANGED next
  /\ UNCHANGED <<message, dryRun, urls, failed, rows, pending, receipt>>

Resolved(addresses) == IF Admits(addresses) THEN Admitted(addresses) ELSE Excluded(TRUE, addresses)

Checking == phase = "checking" /\ next <= Len(urls)

CheckLiteral ==
  /\ Checking /\ Url.host.kind = "ip"
  /\ Resolved(<<Url.host.address>>)

\* A malformed or blacklisted name is excluded before the resolver is asked.
CheckName ==
  /\ Checking /\ Url.host.kind = "name"
  /\ LET name == DnsName(Url.host.labels)
     IN  IF name = <<>> \/ BlocksDomain(name) THEN Excluded(FALSE, <<>>)
         ELSE /\ phase' = "resolving"
              /\ UNCHANGED <<message, dryRun, urls, next, failed, rows, pending, receipt, admitted, verdict>>

DnsAnswers == phase = "resolving" /\ \E addresses \in Answers: Resolved(addresses)

DnsFails == phase = "resolving" /\ Excluded(TRUE, <<>>)

\* Mutant of DnsTimesOut: the look-up has no deadline.
DnsUnbounded == FALSE

\* DNS_TIMEOUT.
DnsTimesOut == phase = "resolving" /\ Excluded(TRUE, <<>>)

\* db_add_url refuses a URL longer than the column.  It refuses attributions that
\* are too long as well: log_text and prepare_message never make one.
FitsColumn == Size(Url.path) <= MAX_URL_BYTES

AddRow == FitsColumn /\ rows' = Append(rows, Url)

NextUrl == next' = next + 1 /\ phase' = "checking"

\* Mutant of InsertSucceeds: a success clears the failure of an earlier URL.
InsertForgets ==
  /\ phase = "inserting"
  /\ AddRow /\ NextUrl
  /\ failed' = FALSE
  /\ UNCHANGED <<message, dryRun, urls, pending, receipt, admitted, verdict>>

InsertSucceeds ==
  /\ phase = "inserting"
  /\ AddRow /\ NextUrl
  /\ UNCHANGED <<message, dryRun, urls, failed, pending, receipt, admitted, verdict>>

\* Nobody waits for the statement any more: it was never sent, or failed, or will
\* commit, unless the code refused it.
Abandoned ==
  \/ UNCHANGED pending
  \/ FitsColumn /\ pending' = pending \cup {Len(admitted)}

\* The insert fails; when only the answer was lost the row may be there.
InsertFails ==
  /\ phase = "inserting"
  /\ Abandoned /\ NextUrl
  /\ failed' = TRUE
  /\ UNCHANGED <<message, dryRun, urls, rows, receipt, admitted, verdict>>

\* DB_JOB_TIMEOUT drops the future of the insert.
InsertTimesOut == InsertFails

\* The database commits an abandoned statement, at any time.
LateRow(n) ==
  /\ rows' = Append(rows, admitted[n])
  /\ pending' = pending \ {n}
  /\ UNCHANGED <<message, dryRun, phase, urls, next, failed, receipt, admitted, verdict>>

Finish ==
  /\ phase = "checking" /\ next > Len(urls)
  /\ Done(IF failed THEN "failed" ELSE "ok")
  /\ UNCHANGED <<message, dryRun, urls, next, failed, rows, pending, admitted, verdict>>

\* DRAIN_TIMEOUT drops the worker's future, and the sender of the receipt with it.
Cancel ==
  /\ phase \in {"queued", "checking", "resolving", "inserting"}
  /\ Done("dropped")
  /\ IF phase = "inserting" THEN Abandoned ELSE UNCHANGED pending
  /\ UNCHANGED <<message, dryRun, urls, next, failed, rows, admitted, verdict>>

Worker == Refuse \/ Queue \/ Extract \/ CheckLiteral \/ CheckName \/ Finish

Next ==
  \/ Worker \/ Expire \/ Cancel
  \/ DnsAnswers \/ DnsFails \/ DnsTimesOut
  \/ InsertSucceeds \/ InsertFails \/ InsertTimesOut
  \/ \E n \in pending: LateRow(n)

Spec == Init /\ [][Next]_vars

\* The worker runs and its deadlines fire; resolver and database promise nothing.
FairSpec == Spec /\ WF_vars(Worker) /\ WF_vars(DnsTimesOut) /\ WF_vars(InsertTimesOut)

-------------------------------------------------------------------------------
(* References the code is compared with *)

\* All entities in a single pass.
DecodedOnce(path) ==
  Pass(path, [e \in {"amp;", "lt;", "gt;"} |->
                IF e = "amp;" THEN "&" ELSE IF e = "lt;" THEN "<" ELSE ">"])

WellFormed(url) ==
  /\ url.host.kind # "none"
  /\ "tab" \notin Range(url.path)
  /\ Size(url.path) <= MAX_URL_BYTES

\* Lexicographic order of two addresses of one family.
AtMost(a, b) ==
  a = b \/ \E i \in DOMAIN a: a[i] < b[i] /\ \A j \in 1..i - 1: a[j] = b[j]

Last6(a, b) == <<a, b, \hffff, \hffff, \hffff, \hffff, \hffff, \hffff>>

\* The ranges README.md excludes, first and last address of each.
SpecialRanges ==
  {<<<<0, 0, 0, 0>>, <<0, 255, 255, 255>>>>,               \* this network
   <<<<10, 0, 0, 0>>, <<10, 255, 255, 255>>>>,             \* private
   <<<<172, 16, 0, 0>>, <<172, 31, 255, 255>>>>,
   <<<<192, 168, 0, 0>>, <<192, 168, 255, 255>>>>,
   <<<<127, 0, 0, 0>>, <<127, 255, 255, 255>>>>,           \* loopback
   <<<<169, 254, 0, 0>>, <<169, 254, 255, 255>>>>,         \* link-local
   <<<<100, 64, 0, 0>>, <<100, 127, 255, 255>>>>,          \* shared/CGNAT
   <<<<192, 0, 2, 0>>, <<192, 0, 2, 255>>>>,               \* documentation
   <<<<198, 51, 100, 0>>, <<198, 51, 100, 255>>>>,
   <<<<203, 0, 113, 0>>, <<203, 0, 113, 255>>>>,
   <<<<192, 0, 0, 0>>, <<192, 0, 0, 255>>>>,               \* protocol assignments
   <<<<192, 88, 99, 0>>, <<192, 88, 99, 255>>>>,           \* 6to4 relays
   <<<<198, 18, 0, 0>>, <<198, 19, 255, 255>>>>,           \* benchmarking
   <<<<224, 0, 0, 0>>, <<255, 255, 255, 255>>>>,           \* multicast, reserved
   <<Word6(0, 0), Last6(\h1fff, \hffff)>>,                 \* outside 2000::/3
   <<Word6(\h4000, 0), Last6(\hffff, \hffff)>>,
   <<Word6(\h2001, 0), Last6(\h2001, \h01ff)>>,            \* Teredo and its kin
   <<Word6(\h2001, \h0db8), Last6(\h2001, \h0db8)>>,       \* documentation
   <<Word6(\h2002, 0), Last6(\h2002, \hffff)>>,            \* 6to4
   <<Word6(\h3fff, 0), Last6(\h3fff, \h0fff)>>}            \* documentation

Special(address) ==
  \E range \in SpecialRanges:
    Len(range[1]) = Len(address) /\ AtMost(range[1], address) /\ AtMost(address, range[2])

\* A name or a rule without its final dot, and read from the right.
Unrooted(labels) == IF Last(labels) = "" THEN Front(labels) ELSE labels
FromRight(labels) == Reverse(Unrooted(labels))

\* What README.md says of the policy, in its own terms.
AcceptableName(labels) ==
  /\ NameBytes(Unrooted(labels)) <= MAX_NAME_BYTES
  /\ Range(FromRight(labels)) \cap MalformedLabels = {}
  /\ \A rule \in GlobalRules.names \cup WorkspaceRules.names:
       ~IsPrefix(FromRight(rule), FromRight(labels))

AcceptableHost(host) == host.kind = "name" => AcceptableName(host.labels)

AcceptableAddress(address) ==
  ~Special(address) /\ address \notin GlobalRules.addresses \cup WorkspaceRules.addresses

AcceptableAnswer(addresses) ==
  /\ addresses # <<>> /\ Len(addresses) <= MAX_DNS_ADDRESSES
  /\ \A address \in Range(addresses): AcceptableAddress(address)

-------------------------------------------------------------------------------
(* Properties *)

\* part is made of elements of the first n of whole, in their order.
Within(part, whole, n) ==
  \E at \in [DOMAIN part -> 1..n]:
    /\ \A i \in DOMAIN part: part[i] = whole[at[i]]
    /\ \A i, j \in DOMAIN part: i < j => at[i] < at[j]

\* part is made of elements of whole at positions in S, each taken once.
Stand(part, whole, S) ==
  \E at \in [DOMAIN part -> S]:
    /\ \A i \in DOMAIN part: part[i] = whole[at[i]]
    /\ \A i, j \in DOMAIN part: i # j => at[i] # at[j]

\* The URLs handled are those of the first MAX_URLS_PER_MESSAGE matches,
\* invalid ones counted, each stripped of its label and decoded exactly once
\* (extract_urls: three replacements in a row, &amp; last, do what one pass does).
ExtractsOnce ==
  phase \in {"checking", "resolving", "inserting"} =>
    LET seen == {i \in DOMAIN message.captures: i <= MAX_URLS_PER_MESSAGE}
        Url1(i) == [host |-> message.captures[i].host,
                    path |-> Serialized(DecodedOnce(Unlabelled(message.captures[i].path)))]
    IN  urls = FlattenSeq([i \in seen |-> IF WellFormed(Url1(i)) THEN <<Url1(i)>> ELSE <<>>])

\* The policy excludes what it promises to exclude and nothing else: the suffix
\* walk, the masks and the merged lists agree with names compared label by label
\* and with ranges of addresses, at the edges of every range and for every mix
\* of answers, and the resolver is asked for every name that is not excluded
\* (check_with_resolver, blocks_domain, public_v4, public_v6).
PolicyExact ==
  verdict # NoVerdict =>
    /\ verdict.asked <=> AcceptableHost(verdict.url.host)
    /\ verdict.admitted <=> verdict.asked /\ AcceptableAnswer(verdict.resolved)

\* Every row stands for an admitted URL, none for two, in whatever order the
\* statements commit; the admitted URLs are URLs of the message in the order of
\* the text; and a dry run leaves no row, however the checks and inserts of the
\* others end and however late the database is (handle_msg).
OnlyAdmitted ==
  /\ dryRun => rows = <<>>
  /\ Stand(rows, admitted, DOMAIN admitted)
  /\ Within(admitted, urls, Len(urls))

\* A message reported as handled has the row of every admitted URL, whatever
\* failed or timed out in between: recovery never asks for it again.
ReceiptHonest == receipt = "ok" /\ ~dryRun => rows = admitted

\* No URL reaches the database that its length check refuses: such a message
\* would fail again each time recovery fetches it.
NeverPoisonous == phase = "inserting" => FitsColumn

\* A message is answered however long the resolver and the database are silent.
Ends == phase = "arrived" ~> phase = "done"

-------------------------------------------------------------------------------
(* The inductive invariant of UrlAdmissionProofs *)

Hosts == UNION {{capture.host: capture \in Range(m.captures)}: m \in Messages}
Links == [host: Hosts, path: Seq(Tokens)]

TypeOK ==
  /\ message \in Messages /\ dryRun \in BOOLEAN
  /\ phase \in {"arrived", "queued", "checking", "resolving", "inserting", "done"}
  /\ urls \in Seq(Links) /\ next \in 1..Len(urls) + 1
  /\ failed \in BOOLEAN
  /\ rows \in Seq(Links) /\ admitted \in Seq(Links)
  /\ pending \in SUBSET (1..Len(admitted))
  /\ receipt \in {"none", "refused", "failed", "ok", "dropped"}

\* Before the URLs are extracted there is nothing to show for the message.
Untouched == phase \in {"arrived", "queued"} => urls = <<>> /\ admitted = <<>> /\ rows = <<>>

\* The URL being handled passed the checks made so far.
Current ==
  /\ phase \in {"resolving", "inserting"} => next <= Len(urls)
  /\ phase = "resolving" => Url.host.kind = "name" /\ AcceptableHost(Url.host)
  /\ phase = "inserting" => ~dryRun /\ admitted # <<>> /\ Last(admitted) = Url

\* Positions in admitted whose row may be there: those whose statement is neither
\* under way nor abandoned.
Settled ==
  (1..Len(admitted)) \ (pending \cup IF phase = "inserting" THEN {Len(admitted)} ELSE {})

\* Only URLs already handled are admitted, and only settled ones have rows.
InOrder ==
  /\ dryRun => rows = <<>> /\ pending = {}
  /\ phase \in {"checking", "resolving"} => Within(admitted, urls, next - 1)
  /\ phase = "inserting" => Within(admitted, urls, next) /\ Len(admitted) \notin pending
  /\ Within(admitted, urls, Len(urls))
  /\ Stand(rows, admitted, Settled)

\* As long as no insert failed nothing admitted lacks its row, or may get another.
Complete ==
  /\ ~failed /\ phase # "done" => pending = {}
  /\ ~failed /\ ~dryRun /\ phase # "done" =>
       rows = IF phase = "inserting" THEN Front(admitted) ELSE admitted
  /\ phase # "done" => receipt = "none"
  /\ receipt = "ok" => pending = {}
  /\ ReceiptHonest

Inv ==
  TypeOK /\ Untouched /\ Current /\ InOrder /\ Complete /\ ExtractsOnce /\ PolicyExact

===============================================================================
