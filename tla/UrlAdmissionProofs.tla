-------------------------- MODULE UrlAdmissionProofs --------------------------
(***************************************************************************)
(* Proofs about UrlAdmission, for every message, resolver and list of      *)
(* rules.  Decoding, names and addresses are first compared with their     *)
(* references (DecodedExact, NamesExact, AddressesExact); the steps of the *)
(* worker then preserve Inv because each of them judges as the references  *)
(* do.                                                                     *)
(***************************************************************************)
EXTENDS UrlAdmission, WellFoundedInduction, TLAPS

-------------------------------------------------------------------------------
(* Induction, as a statement about sets *)

Below == {p \in Nat \X Nat: p[1] < p[2]}

LEMMA BelowWellFounded == IsWellFoundedOn(Below, Nat)
<1>1. Below = OpToRel(<, Nat)
  BY DEF Below, OpToRel
<1> QED BY <1>1, NatLessThanWellFounded

LEMMA Least ==
  ASSUME NEW S \in SUBSET Nat, S # {}
  PROVE  \E x \in S: \A y \in S: x <= y
<1>1. \E x \in S: \A y \in S: ~(<<y, x>> \in Below)
  BY BelowWellFounded, WFMin
<1>2. PICK x \in S: \A y \in S: ~(<<y, x>> \in Below)
  BY <1>1
<1>3. ASSUME NEW y \in S PROVE x <= y
  <2>1. ~(<<y, x>> \in Below) /\ y \in Nat /\ x \in Nat
    BY <1>2
  <2> QED BY <2>1 DEF Below
<1> QED BY <1>3

LEMMA Induction ==
  ASSUME NEW S, 0 \in S, \A n \in Nat: n \in S => n + 1 \in S
  PROVE  Nat \subseteq S
<1> SUFFICES ASSUME Nat \ S # {} PROVE FALSE
  OBVIOUS
<1>1. PICK x \in Nat \ S: \A y \in Nat \ S: x <= y
  BY Least
<1>2. x - 1 \in Nat /\ x - 1 \notin Nat \ S
  BY <1>1
<1> QED BY <1>1, <1>2

\* A function that is computed from its value one below exists.
Computed(S, n, base, step) ==
  \E f \in [0..n -> S]: f[0] = base /\ \A i \in 1..n: f[i] = step[i][f[i - 1]]

LEMMA Recursion ==
  ASSUME NEW S, NEW n \in Nat, NEW base \in S, NEW step \in [1..n -> [S -> S]]
  PROVE  Computed(S, n, base, step)
<1> DEFINE Upto(k, f) == f[0] = base /\ \A i \in 1..k: f[i] = step[i][f[i - 1]]
           T == {k \in Nat: k <= n => \E f \in [0..k -> S]: Upto(k, f)}
<1>1. 0 \in T
  <2>1. [i \in 0..0 |-> base] \in [0..0 -> S] /\ Upto(0, [i \in 0..0 |-> base])
    OBVIOUS
  <2> QED BY <2>1
<1>2. ASSUME NEW k \in Nat, k \in T PROVE k + 1 \in T
  <2> SUFFICES ASSUME k + 1 <= n PROVE \E f \in [0..k + 1 -> S]: Upto(k + 1, f)
    OBVIOUS
  <2>1. PICK g \in [0..k -> S]: Upto(k, g)
    BY <1>2
  <2> DEFINE f == [i \in 0..k + 1 |-> IF i <= k THEN g[i] ELSE step[k + 1][g[k]]]
  <2>2. k + 1 \in 1..n /\ g[k] \in S /\ step[k + 1][g[k]] \in S
    OBVIOUS
  <2>3. f \in [0..k + 1 -> S]
    BY <2>2
  <2>4. f[0] = base
    BY <2>1
  <2>5. ASSUME NEW i \in 1..k + 1 PROVE f[i] = step[i][f[i - 1]]
    <3>1. CASE i = k + 1
      <4>1. f[i - 1] = g[k] /\ f[i] = step[k + 1][g[k]]
        BY <3>1
      <4> QED BY <4>1, <3>1
    <3>2. CASE i \in 1..k
      <4>1. f[i] = g[i] /\ f[i - 1] = g[i - 1]
        BY <3>2
      <4> QED BY <4>1, <3>2, <2>1
    <3> QED BY <3>1, <3>2
  <2> QED BY <2>3, <2>4, <2>5
<1> HIDE DEF T
<1>3. Nat \subseteq T
  BY <1>1, <1>2, Induction
<1>4. n \in T
  BY <1>3
<1> QED BY <1>4 DEF T, Computed

-------------------------------------------------------------------------------
(* Passes over a path *)

Stepwise(P, E, char, path) ==
  \E f \in [0..Len(path) -> Seq(P)]:
    /\ f[0] = <<>>
    /\ \A i \in 1..Len(path):
         f[i] = IF i > 1 /\ path[i - 1] = "&" /\ path[i] \in E
                THEN Append(Front(f[i - 1]), char[path[i]])
                ELSE Append(f[i - 1], path[i])
    /\ Pass(path, char) = f[Len(path)]

LEMMA PassSteps ==
  ASSUME NEW P, NEW E, NEW char \in [E -> P], NEW path \in Seq(P)
  PROVE  Stepwise(P, E, char, path)
<1> DEFINE Longer(i, s) == IF i > 1 /\ path[i - 1] = "&" /\ path[i] \in DOMAIN char
                           THEN Append(Front(s), char[path[i]])
                           ELSE Append(s, path[i])
           n == Len(path)
           Texts == Seq(P)
           step == [i \in 1..n |-> [s \in Texts |-> Longer(i, s)]]
           Is(f) == f = [i \in 0..n |-> IF i = 0 THEN <<>> ELSE Longer(i, f[i - 1])]
<1>1. ASSUME NEW i \in 1..n, NEW s \in Texts PROVE Longer(i, s) \in Texts
  BY DEF Front
<1>2. <<>> \in Texts /\ n \in Nat
  OBVIOUS
<1>3. (CHOOSE h: Is(h))[n] = Pass(path, char)
  BY DEF Pass
<1> HIDE DEF Longer, Texts
<1>4. step \in [1..n -> [Texts -> Texts]]
  BY <1>1
<1>5. \E f \in [0..n -> Texts]: Is(f)
  <2>1. PICK f \in [0..n -> Texts]: f[0] = <<>> /\ \A i \in 1..n: f[i] = step[i][f[i - 1]]
    <3> DEFINE base == <<>>
    <3>1. base \in Texts
      BY <1>2
    <3> HIDE DEF step, n, base
    <3>2. Computed(Texts, n, base, step)
      BY <3>1, <1>2, <1>4, Recursion
    <3> QED BY <3>2 DEF base, Computed
  <2>2. ASSUME NEW i \in 1..n PROVE f[i] = Longer(i, f[i - 1])
    <3>1. f[i - 1] \in Texts /\ f[i] = step[i][f[i - 1]]
      BY <2>1, SMTT(40)
    <3> QED BY <3>1
  <2> QED BY <2>1, <2>2
<1>6. PICK g: g = (CHOOSE h: Is(h)) /\ Is(g)
  BY <1>5
<1>7. g[0] = <<>> /\ (\A i \in 1..n: g[i] = Longer(i, g[i - 1])) /\ DOMAIN g = 0..n
  <2> HIDE DEF n
  <2> QED BY <1>2, <1>6, SMTT(40)
<1>8. \A i \in 0..n: g[i] \in Texts
  <2> DEFINE T == {k \in Nat: k <= n => g[k] \in Texts}
  <2>1. 0 \in T
    BY <1>2, <1>7
  <2>2. ASSUME NEW k \in Nat, k \in T PROVE k + 1 \in T
    <3>1. ASSUME k + 1 <= n PROVE g[k + 1] \in Texts
      <4>1. k + 1 \in 1..n /\ g[k] \in Texts /\ (k + 1) - 1 = k
        BY <2>2, <3>1
      <4> QED BY <4>1, <1>1, <1>7
    <3> QED BY <3>1
  <2> HIDE DEF T
  <2>3. Nat \subseteq T
    BY <2>1, <2>2, Induction
  <2> QED BY <2>3 DEF T
<1>9. g \in [0..n -> Texts] /\ Pass(path, char) = g[n]
  BY <1>3, <1>6, <1>7, <1>8
<1>10. \A i \in 1..n: g[i] = IF i > 1 /\ path[i - 1] = "&" /\ path[i] \in E
                            THEN Append(Front(g[i - 1]), char[path[i]])
                            ELSE Append(g[i - 1], path[i])
  BY <1>7 DEF Longer
<1> QED BY <1>7, <1>9, <1>10 DEF Texts, Stepwise

LEMMA PassEmpty ==
  ASSUME NEW P, NEW E, NEW char \in [E -> P]
  PROVE  Pass(<<>>, char) = <<>>
<1>1. <<>> \in Seq(P) /\ Len(<<>>) = 0
  OBVIOUS
<1>2. Stepwise(P, E, char, <<>>)
  BY <1>1, PassSteps
<1> QED BY <1>1, <1>2 DEF Stepwise

LEMMA PassTyped ==
  ASSUME NEW P, NEW E, NEW char \in [E -> P], NEW path \in Seq(P)
  PROVE  Pass(path, char) \in Seq(P)
<1>1. Len(path) \in 0..Len(path)
  OBVIOUS
<1>2. Stepwise(P, E, char, path)
  BY PassSteps
<1> QED BY <1>1, <1>2 DEF Stepwise

LEMMA PassAppend ==
  ASSUME NEW P, NEW E, NEW char \in [E -> P], NEW path \in Seq(P), NEW t \in P
  PROVE  Pass(Append(path, t), char) =
           IF path # <<>> /\ Last(path) = "&" /\ t \in E
           THEN Append(Front(Pass(path, char)), char[t])
           ELSE Append(Pass(path, char), t)
<1> DEFINE longer == Append(path, t)
           n == Len(path)
<1>1. /\ longer \in Seq(P) /\ Len(longer) = n + 1 /\ n \in Nat
      /\ longer[n + 1] = t /\ \A i \in 1..n: longer[i] = path[i]
      /\ path # <<>> <=> n > 0
  OBVIOUS
<1>2. PICK f \in [0..n -> Seq(P)]:
        /\ f[0] = <<>>
        /\ \A i \in 1..n:
             f[i] = IF i > 1 /\ path[i - 1] = "&" /\ path[i] \in E
                    THEN Append(Front(f[i - 1]), char[path[i]])
                    ELSE Append(f[i - 1], path[i])
        /\ Pass(path, char) = f[n]
  <2>1. Stepwise(P, E, char, path)
    BY PassSteps
  <2> QED BY <2>1 DEF Stepwise
<1> HIDE DEF longer
<1>3. PICK g \in [0..Len(longer) -> Seq(P)]:
        /\ g[0] = <<>>
        /\ \A i \in 1..Len(longer):
             g[i] = IF i > 1 /\ longer[i - 1] = "&" /\ longer[i] \in E
                    THEN Append(Front(g[i - 1]), char[longer[i]])
                    ELSE Append(g[i - 1], longer[i])
        /\ Pass(longer, char) = g[Len(longer)]
  <2>1. Stepwise(P, E, char, longer)
    BY <1>1, PassSteps
  <2> QED BY <2>1 DEF Stepwise
<1> HIDE DEF n
<1>4. f[n] = g[n]
  <2> DEFINE T == {k \in Nat: k <= n => f[k] = g[k]}
  <2>1. 0 \in T
    BY <1>2, <1>3
  <2>2. ASSUME NEW k \in Nat, k \in T PROVE k + 1 \in T
    <3> SUFFICES ASSUME k + 1 <= n PROVE f[k + 1] = g[k + 1]
      OBVIOUS
    <3>1. /\ k + 1 \in 1..n /\ k + 1 \in 1..Len(longer) /\ (k + 1) - 1 = k /\ f[k] = g[k]
          /\ longer[k + 1] = path[k + 1]
      BY <1>1, <2>2
    <3>2. k + 1 > 1 => longer[k] = path[k]
      BY <1>1, <3>1
    <3> QED BY <1>2, <1>3, <3>1, <3>2
  <2> HIDE DEF T
  <2>3. Nat \subseteq T
    BY <2>1, <2>2, Induction
  <2> QED BY <2>3, <1>1 DEF T
<1>5. n + 1 \in 1..Len(longer) /\ (n + 1) - 1 = n /\ (n + 1 > 1 <=> path # <<>>)
  BY <1>1
<1>6. path # <<>> => longer[n] = Last(path)
  BY <1>1 DEF Last, n
<1>7. Pass(longer, char) = g[n + 1] /\ Pass(path, char) = g[n]
  BY <1>1, <1>2, <1>3, <1>4
<1> QED BY <1>1, <1>3, <1>5, <1>6, <1>7 DEF longer

-------------------------------------------------------------------------------
(* Three replacements are one pass *)

Plain == DOMAIN Bytes
Entities == {"amp;", "lt;", "gt;"}
CharOf == [e \in Entities |-> IF e = "amp;" THEN "&" ELSE IF e = "lt;" THEN "<" ELSE ">"]

LEMMA PlainTokens ==
  /\ "&" \in Plain /\ "amp;" \in Plain /\ "lt;" \in Plain /\ "gt;" \in Plain
  /\ "<" \in Plain /\ ">" \in Plain /\ "%3C" \in Plain /\ "%3E" \in Plain
  /\ CharOf \in [Entities -> Plain]
  /\ CharOf["amp;"] = "&" /\ CharOf["lt;"] = "<" /\ CharOf["gt;"] = ">"
  BY DEF Plain, Bytes, CharOf, Entities

\* The path does not end where an entity may begin.
Closed(path) == path = <<>> \/ Last(path) # "&"

LEMMA AppendFacts ==
  ASSUME NEW P, NEW path \in Seq(P), NEW t \in P
  PROVE  /\ Append(path, t) \in Seq(P) /\ Append(path, t) # <<>>
         /\ Last(Append(path, t)) = t /\ Front(Append(path, t)) = path
         /\ Len(Append(path, t)) = Len(path) + 1
  BY DEF Last, Front

LEMMA ReplacedTyped ==
  ASSUME NEW entity \in Plain, NEW character \in Plain, NEW path \in Seq(Plain)
  PROVE  Replaced(path, entity, character) \in Seq(Plain)
<1>1. [e \in {entity} |-> character] \in [{entity} -> Plain]
  OBVIOUS
<1> QED BY <1>1, PassTyped DEF Replaced

LEMMA ReplacedKeeps ==
  ASSUME NEW entity \in Plain, NEW character \in Plain, NEW path \in Seq(Plain), NEW t \in Plain,
         t # entity \/ Closed(path)
  PROVE  Replaced(Append(path, t), entity, character) = Append(Replaced(path, entity, character), t)
<1> DEFINE char == [e \in {entity} |-> character]
<1>1. char \in [{entity} -> Plain] /\ char[entity] = character
  OBVIOUS
<1>2. Pass(Append(path, t), char) =
         IF path # <<>> /\ Last(path) = "&" /\ t \in {entity}
         THEN Append(Front(Pass(path, char)), char[t])
         ELSE Append(Pass(path, char), t)
  BY <1>1, PassAppend
<1> QED BY <1>1, <1>2 DEF Closed, Replaced

LEMMA ReplacedTakes ==
  ASSUME NEW entity \in Plain \ {"&"}, NEW character \in Plain, NEW path \in Seq(Plain)
  PROVE  Replaced(Append(Append(path, "&"), entity), entity, character) =
           Append(Replaced(path, entity, character), character)
<1> DEFINE char == [e \in {entity} |-> character]
           q == Append(path, "&")
<1>1. char \in [{entity} -> Plain] /\ char[entity] = character /\ "&" \in Plain
  BY PlainTokens
<1>2. q \in Seq(Plain) /\ q # <<>> /\ Last(q) = "&"
  BY <1>1, AppendFacts
<1>3. Pass(q, char) = Append(Pass(path, char), "&") /\ Pass(path, char) \in Seq(Plain)
  <2>1. Replaced(q, entity, character) = Append(Replaced(path, entity, character), "&")
    BY <1>1, ReplacedKeeps
  <2> QED BY <2>1, ReplacedTyped DEF Replaced
<1>4. Front(Pass(q, char)) = Pass(path, char)
  BY <1>1, <1>3, AppendFacts
<1> HIDE DEF q
<1>5. Pass(Append(q, entity), char) =
         IF q # <<>> /\ Last(q) = "&" /\ entity \in {entity}
         THEN Append(Front(Pass(q, char)), char[entity])
         ELSE Append(Pass(q, char), entity)
  BY <1>1, <1>2, PassAppend
<1> QED BY <1>1, <1>2, <1>4, <1>5 DEF Replaced, q

LEMMA ReplacedCloses ==
  ASSUME NEW entity \in Plain, NEW character \in Plain \ {"&"}, NEW path \in Seq(Plain), Closed(path)
  PROVE  Closed(Replaced(path, entity, character))
<1>1. CASE path = <<>>
  <2>1. [e \in {entity} |-> character] \in [{entity} -> Plain]
    OBVIOUS
  <2> QED BY <1>1, <2>1, PassEmpty DEF Closed, Replaced
<1>2. CASE path # <<>>
  <2> DEFINE front == Front(path)
             t == Last(path)
  <2>1. front \in Seq(Plain) /\ t \in Plain /\ path = Append(front, t) /\ t # "&"
    BY <1>2 DEF Front, Last, Closed
  <2> HIDE DEF front, t
  <2>2. Replaced(front, entity, character) \in Seq(Plain)
    BY <2>1, ReplacedTyped
  <2>3. CASE ~Closed(front) /\ t = entity
    <3> DEFINE q == Front(front)
    <3>1. front = Append(q, "&") /\ q \in Seq(Plain)
      BY <2>1, <2>3 DEF Closed, Front, Last
    <3> HIDE DEF q
    <3>2. Replaced(path, entity, character) = Append(Replaced(q, entity, character), character)
      BY <2>1, <2>3, <3>1, ReplacedTakes
    <3> QED BY <3>1, <3>2, ReplacedTyped, AppendFacts DEF Closed
  <2>4. CASE t # entity \/ Closed(front)
    <3>1. Replaced(path, entity, character) = Append(Replaced(front, entity, character), t)
      BY <2>1, <2>4, ReplacedKeeps
    <3> QED BY <2>1, <2>2, <3>1, AppendFacts DEF Closed
  <2> QED BY <2>3, <2>4
<1> QED BY <1>1, <1>2

\* A token that completes no entity is kept.
LEMMA DecodedKeeps ==
  ASSUME NEW path \in Seq(Plain), NEW t \in Plain, t \notin Entities \/ Closed(path)
  PROVE  Decoded(Append(path, t)) = Append(Decoded(path), t)
<1> DEFINE L == "lt;"
           G == "gt;"
           A == "amp;"
           l == "<"
           g == ">"
           a == "&"
           lt == Replaced(path, L, l)
           gt == Replaced(lt, G, g)
<1>1. /\ L \in Plain /\ G \in Plain /\ A \in Plain /\ a \in Plain
      /\ l \in Plain \ {"&"} /\ g \in Plain \ {"&"}
      /\ t \in {L, G, A} => Closed(path)
  BY PlainTokens DEF Entities
<1>2. Decoded(path) = Replaced(gt, A, a)
  BY DEF Decoded
<1>3. Decoded(Append(path, t)) = Replaced(Replaced(Replaced(Append(path, t), L, l), G, g), A, a)
  BY DEF Decoded
<1> HIDE DEF L, G, A, l, g, a
<1>4. lt \in Seq(Plain) /\ (Closed(path) => Closed(lt))
  BY <1>1, ReplacedTyped, ReplacedCloses
<1>5. Replaced(Append(path, t), L, l) = Append(lt, t)
  BY <1>1, ReplacedKeeps
<1> HIDE DEF lt
<1>6. gt \in Seq(Plain) /\ (Closed(path) => Closed(gt))
  BY <1>1, <1>4, ReplacedTyped, ReplacedCloses
<1>7. Replaced(Append(lt, t), G, g) = Append(gt, t)
  BY <1>1, <1>4, ReplacedKeeps
<1> HIDE DEF gt
<1>8. Replaced(Append(gt, t), A, a) = Append(Replaced(gt, A, a), t)
  BY <1>1, <1>6, ReplacedKeeps
<1> QED BY <1>2, <1>3, <1>5, <1>7, <1>8

\* An entity becomes its character, once.
LEMMA DecodedTakes ==
  ASSUME NEW path \in Seq(Plain), NEW e \in Entities
  PROVE  Decoded(Append(Append(path, "&"), e)) = Append(Decoded(path), CharOf[e])
<1> DEFINE L == "lt;"
           G == "gt;"
           A == "amp;"
           l == "<"
           g == ">"
           a == "&"
           lt == Replaced(path, L, l)
           gt == Replaced(lt, G, g)
           amp == Replaced(gt, A, a)
           Ended(p, t) == Append(Append(p, "&"), t)
<1>1. /\ L \in Plain \ {"&"} /\ G \in Plain \ {"&"} /\ A \in Plain \ {"&"} /\ a \in Plain
      /\ l \in Plain /\ g \in Plain
      /\ L # G /\ L # A /\ G # A /\ l # G /\ l # A /\ g # A
      /\ CharOf[L] = l /\ CharOf[G] = g /\ CharOf[A] = a
      /\ e = L \/ e = G \/ e = A
  BY PlainTokens DEF Entities
<1>2. Decoded(path) = amp
  BY DEF Decoded
<1>3. Decoded(Ended(path, e)) = Replaced(Replaced(Replaced(Ended(path, e), L, l), G, g), A, a)
  BY DEF Decoded
<1>4. "&" \in Plain
  BY PlainTokens
<1> HIDE DEF L, G, A, l, g, a
<1>5. lt \in Seq(Plain)
  BY <1>1, ReplacedTyped
<1> HIDE DEF lt
<1>6. gt \in Seq(Plain)
  BY <1>1, <1>5, ReplacedTyped
<1>7. ASSUME NEW p \in Seq(Plain), NEW entity \in Plain \ {"&"}, NEW character \in Plain,
             NEW t \in Plain \ {entity}
      PROVE  Replaced(Ended(p, t), entity, character) = Ended(Replaced(p, entity, character), t)
  <2>1. Append(p, "&") \in Seq(Plain)
    BY <1>4, AppendFacts
  <2>2. Replaced(Append(p, "&"), entity, character) = Append(Replaced(p, entity, character), "&")
    <3> DEFINE b == "&"
    <3>1. b # entity /\ b \in Plain /\ entity \in Plain
      BY <1>4
    <3> HIDE DEF b
    <3>2. Replaced(Append(p, b), entity, character) = Append(Replaced(p, entity, character), b)
      BY <3>1, ReplacedKeeps
    <3> QED BY <3>2 DEF b
  <2>3. \A q \in Seq(Plain): Replaced(Append(q, t), entity, character) = Append(Replaced(q, entity, character), t)
    BY ReplacedKeeps
  <2> QED BY <2>1, <2>2, <2>3
<1>8. ASSUME NEW p \in Seq(Plain), NEW entity \in Plain \ {"&"}, NEW character \in Plain
      PROVE  Replaced(Ended(p, entity), entity, character) = Append(Replaced(p, entity, character), character)
  BY ReplacedTakes
<1> HIDE DEF gt, amp, Ended
<1>9. CASE e = L
  <2>1. Replaced(Ended(path, L), L, l) = Append(lt, l)
    BY <1>1, <1>8 DEF lt
  <2>2. Replaced(Append(lt, l), G, g) = Append(gt, l)
    BY <1>1, <1>5, ReplacedKeeps DEF gt
  <2>3. Replaced(Append(gt, l), A, a) = Append(amp, l)
    BY <1>1, <1>6, ReplacedKeeps DEF amp
  <2>4. Decoded(Ended(path, e)) = Append(amp, CharOf[e])
    BY <1>1, <1>3, <1>9, <2>1, <2>2, <2>3
  <2> QED BY <1>2, <2>4 DEF Ended
<1>10. CASE e = G
  <2>1. Replaced(Ended(path, G), L, l) = Ended(lt, G)
    BY <1>1, <1>7 DEF lt
  <2>2. Replaced(Ended(lt, G), G, g) = Append(gt, g)
    BY <1>1, <1>5, <1>8 DEF gt
  <2>3. Replaced(Append(gt, g), A, a) = Append(amp, g)
    BY <1>1, <1>6, ReplacedKeeps DEF amp
  <2>4. Decoded(Ended(path, e)) = Append(amp, CharOf[e])
    BY <1>1, <1>3, <1>10, <2>1, <2>2, <2>3
  <2> QED BY <1>2, <2>4 DEF Ended
<1>11. CASE e = A
  <2>1. Replaced(Ended(path, A), L, l) = Ended(lt, A)
    BY <1>1, <1>7 DEF lt
  <2>2. Replaced(Ended(lt, A), G, g) = Ended(gt, A)
    BY <1>1, <1>5, <1>7 DEF gt
  <2>3. Replaced(Ended(gt, A), A, a) = Append(amp, a)
    BY <1>1, <1>6, <1>8 DEF amp
  <2>4. Decoded(Ended(path, e)) = Append(amp, CharOf[e])
    BY <1>1, <1>3, <1>11, <2>1, <2>2, <2>3
  <2> QED BY <1>2, <2>4 DEF Ended
<1> QED BY <1>1, <1>9, <1>10, <1>11

LEMMA DecodedOncePass ==
  ASSUME NEW path
  PROVE  DecodedOnce(path) = Pass(path, CharOf)
  BY DEF DecodedOnce, CharOf, Entities

LEMMA OnceAppend ==
  ASSUME NEW path \in Seq(Plain), NEW t \in Plain
  PROVE  DecodedOnce(Append(path, t)) =
           IF ~Closed(path) /\ t \in Entities
           THEN Append(Front(DecodedOnce(path)), CharOf[t])
           ELSE Append(DecodedOnce(path), t)
<1>1. CharOf \in [Entities -> Plain]
  BY PlainTokens
<1>2. Pass(Append(path, t), CharOf) =
         IF path # <<>> /\ Last(path) = "&" /\ t \in Entities
         THEN Append(Front(Pass(path, CharOf)), CharOf[t])
         ELSE Append(Pass(path, CharOf), t)
  BY <1>1, PassAppend
<1> QED BY <1>2, DecodedOncePass DEF Closed

LEMMA OnceTyped ==
  ASSUME NEW path \in Seq(Plain)
  PROVE  DecodedOnce(path) \in Seq(Plain)
<1>1. CharOf \in [Entities -> Plain]
  BY PlainTokens
<1> QED BY <1>1, PassTyped, DecodedOncePass

LEMMA OnceTakes ==
  ASSUME NEW path \in Seq(Plain), NEW e \in Entities
  PROVE  DecodedOnce(Append(Append(path, "&"), e)) = Append(DecodedOnce(path), CharOf[e])
<1> DEFINE a == "&"
           q == Append(path, a)
<1>1. e \in Plain /\ a \in Plain /\ a \notin Entities
  BY PlainTokens DEF Entities
<1>2. q \in Seq(Plain) /\ ~Closed(q)
  BY <1>1, AppendFacts DEF Closed
<1> HIDE DEF a
<1>3. DecodedOnce(q) = Append(DecodedOnce(path), a) /\ DecodedOnce(path) \in Seq(Plain)
  BY <1>1, OnceAppend, OnceTyped
<1>4. Front(DecodedOnce(q)) = DecodedOnce(path)
  BY <1>1, <1>3, AppendFacts
<1> HIDE DEF q
<1>5. DecodedOnce(Append(q, e)) = Append(DecodedOnce(path), CharOf[e])
  BY <1>1, <1>2, <1>4, OnceAppend
<1> QED BY <1>5 DEF q, a

\* The replacements of extract_urls, &amp; last, read no character twice,
\* however long the path (extract_urls).
THEOREM DecodedExact ==
  ASSUME NEW path \in Seq(Plain)
  PROVE  Decoded(path) = DecodedOnce(path) /\ Decoded(path) \in Seq(Plain)
<1> DEFINE T == {n \in Nat: \A p \in Seq(Plain): Len(p) <= n => Decoded(p) = DecodedOnce(p)}
<1>1. Decoded(<<>>) = <<>> /\ DecodedOnce(<<>>) = <<>>
  <2>1. ASSUME NEW e \in Plain, NEW c \in Plain PROVE Replaced(<<>>, e, c) = <<>>
    <3>1. [x \in {e} |-> c] \in [{e} -> Plain]
      OBVIOUS
    <3> QED BY <3>1, PassEmpty DEF Replaced
  <2>2. Decoded(<<>>) = <<>>
    BY <2>1, PlainTokens DEF Decoded
  <2> QED BY <2>2, PlainTokens, PassEmpty, DecodedOncePass
<1>2. 0 \in T
  <2>1. \A p \in Seq(Plain): Len(p) <= 0 => p = <<>>
    OBVIOUS
  <2> QED BY <1>1, <2>1
<1>3. ASSUME NEW n \in Nat, n \in T PROVE n + 1 \in T
  <2> SUFFICES ASSUME NEW p \in Seq(Plain), Len(p) = n + 1 PROVE Decoded(p) = DecodedOnce(p)
    BY <1>3
  <2> DEFINE q == Front(p)
             t == Last(p)
  <2>1. q \in Seq(Plain) /\ t \in Plain /\ p = Append(q, t) /\ Len(q) = n
    BY DEF Front, Last
  <2> HIDE DEF q, t
  <2>2. CASE t \notin Entities \/ Closed(q)
    <3>1. Decoded(q) = DecodedOnce(q)
      BY <1>3, <2>1
    <3>2. Decoded(p) = Append(Decoded(q), t)
      BY <2>1, <2>2, DecodedKeeps
    <3>3. DecodedOnce(p) = Append(DecodedOnce(q), t)
      BY <2>1, <2>2, OnceAppend
    <3> QED BY <3>1, <3>2, <3>3
  <2>3. CASE t \in Entities /\ ~Closed(q)
    <3> DEFINE r == Front(q)
    <3>1. r \in Seq(Plain) /\ q = Append(r, "&") /\ Len(r) <= n
      BY <2>1, <2>3 DEF Front, Last, Closed
    <3> HIDE DEF r
    <3>2. Decoded(r) = DecodedOnce(r)
      BY <1>3, <3>1
    <3>3. Decoded(p) = Append(Decoded(r), CharOf[t])
      BY <2>1, <2>3, <3>1, DecodedTakes
    <3>4. DecodedOnce(p) = Append(DecodedOnce(r), CharOf[t])
      BY <2>1, <2>3, <3>1, OnceTakes
    <3> QED BY <3>2, <3>3, <3>4
  <2> QED BY <2>2, <2>3
<1> HIDE DEF T
<1>4. Nat \subseteq T
  BY <1>2, <1>3, Induction
<1>5. Decoded(path) = DecodedOnce(path)
  BY <1>4 DEF T
<1> QED BY <1>5, OnceTyped

-------------------------------------------------------------------------------
(* Sizes, labels and links *)

LEMMA PlainBytes ==
  ASSUME NEW t \in Plain
  PROVE  Bytes[t] \in Nat
  BY DEF Plain, Bytes

SizedBy(path) ==
  \E f \in [0..Len(path) -> Nat]:
    /\ f[0] = 0
    /\ \A i \in 1..Len(path): f[i] = f[i - 1] + Bytes[path[i]]
    /\ Size(path) = f[Len(path)]

LEMMA SizeSteps ==
  ASSUME NEW path \in Seq(Plain)
  PROVE  SizedBy(path)
<1> DEFINE n == Len(path)
           base == 0
           step == [i \in 1..n |-> [k \in Nat |-> k + Bytes[path[i]]]]
           Is(f) == f = [i \in 0..n |-> IF i = 0 THEN 0 ELSE f[i - 1] + Bytes[path[i]]]
<1>1. n \in Nat /\ base \in Nat /\ \A i \in 1..n: Bytes[path[i]] \in Nat
  BY PlainBytes
<1>2. step \in [1..n -> [Nat -> Nat]]
  BY <1>1
<1>3. (CHOOSE f: Is(f))[n] = Size(path)
  BY DEF Size
<1>4. \E f: Is(f)
  <2> HIDE DEF step, n, base
  <2>1. Computed(Nat, n, base, step)
    BY <1>1, <1>2, Recursion
  <2>2. PICK f \in [0..n -> Nat]: f[0] = base /\ \A i \in 1..n: f[i] = step[i][f[i - 1]]
    BY <2>1 DEF Computed
  <2>3. ASSUME NEW i \in 1..n PROVE f[i] = f[i - 1] + Bytes[path[i]]
    <3>1. f[i - 1] \in Nat /\ f[i] = step[i][f[i - 1]]
      BY <1>1, <2>2
    <3> QED BY <3>1 DEF step
  <2>4. Is(f)
    BY <1>1, <2>2, <2>3 DEF base
  <2> QED BY <2>4
<1>5. PICK g: g = (CHOOSE f: Is(f)) /\ Is(g)
  BY <1>4
<1>6. g[0] = 0 /\ (\A i \in 1..n: g[i] = g[i - 1] + Bytes[path[i]]) /\ g = [i \in 0..n |-> g[i]]
  <2> HIDE DEF n
  <2>1. g = [i \in 0..n |-> IF i = 0 THEN 0 ELSE g[i - 1] + Bytes[path[i]]]
    BY <1>5
  <2>2. 0 \in 0..n /\ \A i \in 1..n: i \in 0..n /\ i # 0
    BY <1>1
  <2> QED BY <2>1, <2>2
<1>7. \A i \in 0..n: g[i] \in Nat
  <2> HIDE DEF n
  <2> DEFINE T == {k \in Nat: k <= n => g[k] \in Nat}
  <2>1. 0 \in T
    BY <1>6
  <2>2. ASSUME NEW k \in Nat, k \in T PROVE k + 1 \in T
    <3> SUFFICES ASSUME k + 1 <= n PROVE g[k + 1] \in Nat
      OBVIOUS
    <3>1. k + 1 \in 1..n /\ g[k] \in Nat /\ (k + 1) - 1 = k
      BY <1>1, <2>2
    <3>2. g[k + 1] = g[k] + Bytes[path[k + 1]] /\ Bytes[path[k + 1]] \in Nat
      BY <1>1, <1>6, <3>1
    <3> QED BY <3>1, <3>2
  <2> HIDE DEF T
  <2>3. Nat \subseteq T
    BY <2>1, <2>2, Induction
  <2> QED BY <2>3 DEF T
<1>8. g \in [0..n -> Nat] /\ Size(path) = g[n]
  BY <1>3, <1>5, <1>6, <1>7
<1> QED BY <1>6, <1>8 DEF SizedBy

\* Percent-encoding never makes a path shorter, nor hides a control character.
LEMMA SerializedFacts ==
  ASSUME NEW path \in Seq(Plain)
  PROVE  /\ Serialized(path) \in Seq(Plain)
         /\ Size(path) <= Size(Serialized(path))
         /\ Size(path) \in Nat /\ Size(Serialized(path)) \in Nat
         /\ "tab" \in Range(Serialized(path)) <=> "tab" \in Range(path)
<1> DEFINE n == Len(path)
           q == Serialized(path)
<1>1. q \in Seq(Plain) /\ Len(q) = n /\ DOMAIN q = DOMAIN path
  <2> DEFINE Coded(t) == IF t = "<" THEN "%3C" ELSE IF t = ">" THEN "%3E" ELSE t
  <2>1. \A t \in Plain: Coded(t) \in Plain
    BY PlainTokens
  <2>2. q = [i \in DOMAIN path |-> Coded(path[i])]
    BY DEF Serialized
  <2> HIDE DEF Coded
  <2> QED BY <2>1, <2>2
<1>2. ASSUME NEW i \in 1..n
      PROVE  /\ q[i] = path[i] \/ (path[i] \in {"<", ">"} /\ q[i] \in {"%3C", "%3E"})
             /\ Bytes[path[i]] \in Nat /\ Bytes[q[i]] \in Nat /\ Bytes[path[i]] <= Bytes[q[i]]
  <2>1. q[i] = IF path[i] = "<" THEN "%3C" ELSE IF path[i] = ">" THEN "%3E" ELSE path[i]
    BY DEF Serialized
  <2>2. path[i] \in Plain
    OBVIOUS
  <2>3. Bytes["<"] = 1 /\ Bytes[">"] = 1 /\ Bytes["%3C"] = 3 /\ Bytes["%3E"] = 3
    BY DEF Bytes
  <2>4. CASE path[i] = "<"
    BY <2>1, <2>3, <2>4
  <2>5. CASE path[i] = ">"
    BY <2>1, <2>3, <2>5
  <2>6. CASE path[i] # "<" /\ path[i] # ">"
    <3>1. q[i] = path[i]
      BY <2>1, <2>6
    <3>2. Bytes[path[i]] \in Nat
      BY <2>2, PlainBytes
    <3>3. Bytes[q[i]] = Bytes[path[i]]
      BY <3>1
    <3>4. Bytes[q[i]] \in Nat /\ Bytes[path[i]] <= Bytes[q[i]]
      BY <3>2, <3>3
    <3> QED BY <3>1, <3>2, <3>4
  <2> QED BY <2>4, <2>5, <2>6
<1>3. "tab" \in Range(q) <=> "tab" \in Range(path)
  <2>1. \A i \in 1..n: q[i] = "tab" <=> path[i] = "tab"
    BY <1>2
  <2> HIDE DEF q
  <2>2. DOMAIN path = 1..n /\ DOMAIN q = 1..n
    BY <1>1
  <2> QED BY <2>1, <2>2 DEF Range
<1>4. PICK f \in [0..n -> Nat]:
        f[0] = 0 /\ (\A i \in 1..n: f[i] = f[i - 1] + Bytes[path[i]]) /\ Size(path) = f[n]
  BY SizeSteps DEF SizedBy
<1> HIDE DEF q
<1>5. PICK g \in [0..n -> Nat]:
        g[0] = 0 /\ (\A i \in 1..n: g[i] = g[i - 1] + Bytes[q[i]]) /\ Size(q) = g[n]
  <2>1. SizedBy(q)
    BY <1>1, SizeSteps
  <2> QED BY <1>1, <2>1 DEF SizedBy
<1>6. n \in Nat
  OBVIOUS
<1> HIDE DEF n
<1>7. f[n] <= g[n]
  <2> DEFINE T == {k \in Nat: k <= n => f[k] <= g[k]}
  <2>1. 0 \in T
    BY <1>4, <1>5
  <2>2. ASSUME NEW k \in Nat, k \in T PROVE k + 1 \in T
    <3> SUFFICES ASSUME k + 1 <= n PROVE f[k + 1] <= g[k + 1]
      OBVIOUS
    <3>1. k + 1 \in 1..n /\ k \in 0..n /\ (k + 1) - 1 = k /\ f[k] <= g[k]
      BY <1>6, <2>2
    <3>2. f[k + 1] = f[k] + Bytes[path[k + 1]] /\ g[k + 1] = g[k] + Bytes[q[k + 1]]
      BY <1>4, <1>5, <3>1
    <3>3. f[k] \in Nat /\ g[k] \in Nat
      BY <3>1
    <3> QED BY <1>2, <3>1, <3>2, <3>3
  <2> HIDE DEF T
  <2>3. Nat \subseteq T
    BY <2>1, <2>2, Induction
  <2> QED BY <1>6, <2>3 DEF T
<1> QED BY <1>1, <1>3, <1>4, <1>5, <1>6, <1>7 DEF q

LEMMA MinFacts ==
  ASSUME NEW S \in SUBSET Nat, S # {}
  PROVE  Min(S) \in S /\ \A x \in S: Min(S) <= x
  BY Least DEF Min

\* No bar is left of a path: every token has its length.
LEMMA UnlabelledPlain ==
  ASSUME NEW path \in Seq(Tokens)
  PROVE  Unlabelled(path) \in Seq(Plain)
<1> DEFINE I == {i \in 1..Len(path): path[i] = "|"}
<1>1. Tokens = Plain \cup {"|"} /\ I \in SUBSET Nat
  BY DEF Tokens, Plain
<1>2. SelectInSeq(path, LAMBDA t: t = "|") = IF I # {} THEN Min(I) ELSE 0
  BY DEF SelectInSeq
<1>3. CASE I = {}
  <2>1. Unlabelled(path) = path
    BY <1>2, <1>3 DEF Unlabelled
  <2>2. \A i \in 1..Len(path): path[i] \in Plain
    BY <1>1, <1>3
  <2> QED BY <2>1, <2>2
<1>4. CASE I # {}
  <2> DEFINE m == Min(I)
  <2>1. m \in I /\ \A i \in I: m <= i
    BY <1>1, <1>4, MinFacts
  <2>2. Unlabelled(path) = SubSeq(path, 1, m - 1)
    <3>1. SelectInSeq(path, LAMBDA t: t = "|") = m
      BY <1>2, <1>4
    <3> HIDE DEF m
    <3> QED BY <1>1, <2>1, <3>1 DEF Unlabelled
  <2> HIDE DEF m
  <2>3. \A i \in 1..m - 1: path[i] \in Plain
    BY <1>1, <2>1
  <2> QED BY <2>1, <2>2, <2>3
<1> QED BY <1>3, <1>4

LEMMA FlattenTyped ==
  ASSUME NEW W, NEW seqs \in Seq(Seq(W))
  PROVE  FlattenSeq(seqs) \in Seq(W)
<1>1. CASE Len(seqs) = 0
  <2>1. seqs = <<>>
    BY <1>1
  <2> QED BY <1>1, <2>1 DEF FlattenSeq
<1>2. CASE Len(seqs) # 0
  <2> DEFINE n == Len(seqs)
             base == <<>>
             Whole == Seq(W)
             step == [i \in 1..n |-> [v \in Whole |-> v \o seqs[i]]]
             Is(f) == f = [i \in 1..n |-> IF i = 1 THEN seqs[i] ELSE f[i - 1] \o seqs[i]]
  <2>1. /\ n \in Nat \ {0} /\ base \in Whole
        /\ \A i \in 1..n: seqs[i] \in Whole
        /\ \A v \in Whole: base \o v = v
        /\ \A v, w \in Whole: v \o w \in Whole
    BY <1>2
  <2>2. (CHOOSE f: Is(f))[n] = FlattenSeq(seqs)
    BY <1>2 DEF FlattenSeq
  <2> HIDE DEF Whole, n, base
  <2>3. step \in [1..n -> [Whole -> Whole]]
    BY <2>1
  <2>4. \E f: Is(f)
    <3> HIDE DEF step
    <3>1. Computed(Whole, n, base, step)
      BY <2>1, <2>3, Recursion
    <3>2. PICK f \in [0..n -> Whole]: f[0] = base /\ \A i \in 1..n: f[i] = step[i][f[i - 1]]
      BY <3>1 DEF Computed
    <3>3. ASSUME NEW i \in 1..n PROVE f[i] = f[i - 1] \o seqs[i]
      <4>1. f[i - 1] \in Whole /\ f[i] = step[i][f[i - 1]]
        BY <2>1, <3>2
      <4> QED BY <4>1 DEF step
    <3>4. f[1] = seqs[1]
      <4>1. 1 \in 1..n /\ 1 - 1 = 0
        BY <2>1
      <4>2. f[1] = base \o seqs[1]
        BY <3>2, <3>3, <4>1
      <4> QED BY <2>1, <4>1, <4>2
    <3> DEFINE g == [i \in 1..n |-> f[i]]
    <3>5. \A i \in 1..n: g[i] = IF i = 1 THEN seqs[i] ELSE g[i - 1] \o seqs[i]
      <4>1. \A i \in 1..n: i = 1 \/ (i - 1 \in 1..n /\ g[i - 1] = f[i - 1])
        BY <2>1
      <4> QED BY <3>3, <3>4, <4>1
    <3>6. Is(g)
      BY <3>5
    <3> QED BY <3>6
  <2>5. PICK g: g = (CHOOSE f: Is(f)) /\ Is(g)
    BY <2>4
  <2>6. \A i \in 1..n: g[i] = IF i = 1 THEN seqs[i] ELSE g[i - 1] \o seqs[i]
    <3>1. g = [i \in 1..n |-> IF i = 1 THEN seqs[i] ELSE g[i - 1] \o seqs[i]]
      BY <2>5
    <3> QED BY <3>1
  <2>7. g[n] \in Whole
    <3> DEFINE T == {k \in Nat: k = 0 \/ (k <= n => g[k] \in Whole)}
    <3>1. 0 \in T
      OBVIOUS
    <3>2. ASSUME NEW k \in Nat, k \in T PROVE k + 1 \in T
      <4> SUFFICES ASSUME k + 1 <= n PROVE g[k + 1] \in Whole
        OBVIOUS
      <4>1. k + 1 \in 1..n /\ (k + 1) - 1 = k /\ (k + 1 = 1 <=> k = 0)
        BY <2>1
      <4>2. CASE k = 0
        <5>1. g[k + 1] = seqs[k + 1]
          BY <2>6, <4>1, <4>2
        <5> QED BY <2>1, <4>1, <5>1
      <4>3. CASE k # 0
        <5>1. g[k] \in Whole
          BY <2>1, <3>2, <4>3
        <5>2. g[k + 1] = g[k] \o seqs[k + 1]
          BY <2>6, <4>1, <4>3
        <5> QED BY <2>1, <4>1, <5>1, <5>2
      <4> QED BY <4>2, <4>3
    <3> HIDE DEF T
    <3>3. Nat \subseteq T
      BY <3>1, <3>2, Induction
    <3> QED BY <2>1, <3>3 DEF T
  <2> QED BY <2>2, <2>5, <2>7 DEF Whole
<1> QED BY <1>1, <1>2

\* The link a capture stands for.
LinkOf(capture) ==
  [host |-> capture.host, path |-> Serialized(DecodedOnce(Unlabelled(capture.path)))]

LEMMA UrlOfExact ==
  ASSUME NEW capture, capture.path \in Seq(Tokens)
  PROVE  /\ UrlOf(capture) = IF WellFormed(LinkOf(capture)) THEN <<LinkOf(capture)>> ELSE <<>>
         /\ LinkOf(capture).path \in Seq(Plain)
<1> DEFINE text == Unlabelled(capture.path)
           value == Decoded(text)
           coded == Serialized(value)
<1>1. text \in Seq(Plain)
  BY UnlabelledPlain
<1>2. value = DecodedOnce(text) /\ value \in Seq(Plain)
  <2> HIDE DEF text
  <2> QED BY <1>1, DecodedExact
<1>3. LinkOf(capture) = [host |-> capture.host, path |-> coded]
  BY <1>2 DEF LinkOf
<1>4. UrlOf(capture) =
        IF \/ Size(value) > MAX_URL_BYTES \/ capture.host.kind = "none"
           \/ "tab" \in Range(value) \/ Size(coded) > MAX_URL_BYTES
        THEN <<>>
        ELSE <<[host |-> capture.host, path |-> coded]>>
  BY DEF UrlOf
<1> HIDE DEF value
<1>5. /\ coded \in Seq(Plain)
      /\ Size(value) <= Size(coded) /\ Size(value) \in Nat /\ Size(coded) \in Nat
      /\ "tab" \in Range(coded) <=> "tab" \in Range(value)
  BY <1>2, SerializedFacts
<1> HIDE DEF coded
<1>6. LinkOf(capture).host = capture.host /\ LinkOf(capture).path = coded
  BY <1>3
<1>7. MAX_URL_BYTES \in Nat
  BY LimitsAssumption
<1>8. WellFormed(LinkOf(capture)) <=>
        capture.host.kind # "none" /\ "tab" \notin Range(coded) /\ Size(coded) <= MAX_URL_BYTES
  BY <1>6 DEF WellFormed
<1>9. CASE WellFormed(LinkOf(capture))
  <2>1. UrlOf(capture) = <<[host |-> capture.host, path |-> coded]>>
    BY <1>4, <1>5, <1>7, <1>8, <1>9
  <2> QED BY <1>3, <1>5, <1>6, <1>9, <2>1
<1>10. CASE ~WellFormed(LinkOf(capture))
  <2>1. UrlOf(capture) = <<>>
    BY <1>4, <1>5, <1>7, <1>8, <1>10
  <2> QED BY <1>5, <1>6, <1>10, <2>1
<1> QED BY <1>9, <1>10

\* The links a message stands for: what ExtractsOnce says.
Expected(captures) ==
  LET seen == {i \in DOMAIN captures: i <= MAX_URLS_PER_MESSAGE}
  IN  FlattenSeq([i \in seen |-> IF WellFormed(LinkOf(captures[i])) THEN <<LinkOf(captures[i])>> ELSE <<>>])

LEMMA ExtractsOnceExpected == ExtractsOnce <=> (phase \in {"checking", "resolving", "inserting"} => urls = Expected(message.captures))
  BY DEF ExtractsOnce, Expected, LinkOf

Storable == {link \in Links: Size(link.path) <= MAX_URL_BYTES}

\* The URLs of a message are those of its first matches, and fit the table.
LEMMA ExtractedExact ==
  ASSUME NEW m \in Messages
  PROVE  Extracted[m] = Expected(m.captures) /\ Extracted[m] \in Seq(Storable)
<1> DEFINE captures == m.captures
           n == Min({Len(captures), MAX_URLS_PER_MESSAGE})
           seen == SubSeq(captures, 1, n)
           S == {i \in DOMAIN captures: i <= MAX_URLS_PER_MESSAGE}
           Want(i) == IF WellFormed(LinkOf(captures[i])) THEN <<LinkOf(captures[i])>> ELSE <<>>
<1>1. /\ captures \in Seq(Range(captures))
      /\ \A i \in 1..Len(captures): captures[i].path \in Seq(Tokens) /\ captures[i].host \in Hosts
  <2>1. captures \in Seq(Range(captures))
        /\ \A capture \in Range(captures): capture.path \in Seq(Tokens)
    BY MessagesAssumption
  <2>2. \A capture \in Range(captures): capture.host \in Hosts
    BY DEF Hosts
  <2> HIDE DEF captures
  <2>3. \A i \in 1..Len(captures): captures[i] \in Range(captures)
    BY <2>1
  <2> QED BY <2>1, <2>2, <2>3
<1>2. Extracted[m] = FlattenSeq([i \in DOMAIN seen |-> UrlOf(seen[i])])
  BY DEF Extracted, ExtractUrls
<1>3. Expected(captures) = FlattenSeq([i \in S |-> Want(i)])
  BY DEF Expected
<1> HIDE DEF captures
<1>4. n \in Nat /\ n <= Len(captures) /\ n <= MAX_URLS_PER_MESSAGE
      /\ (n = Len(captures) \/ n = MAX_URLS_PER_MESSAGE)
  <2>1. Len(captures) \in Nat /\ MAX_URLS_PER_MESSAGE \in Nat
    BY <1>1, LimitsAssumption
  <2> QED BY <2>1, MinFacts
<1> HIDE DEF n
<1>5. DOMAIN captures = 1..Len(captures) /\ Len(captures) \in Nat
  BY <1>1
<1>6. S = 1..n
  <2>1. MAX_URLS_PER_MESSAGE \in Nat
    BY LimitsAssumption
  <2> DEFINE len == Len(captures)
  <2>2. len \in Nat /\ DOMAIN captures = 1..len
    BY <1>5
  <2>3. n \in Nat /\ n <= len /\ n <= MAX_URLS_PER_MESSAGE /\ (n = len \/ n = MAX_URLS_PER_MESSAGE)
    BY <1>4
  <2> HIDE DEF len
  <2>4. ASSUME NEW i \in Nat PROVE i <= len /\ i <= MAX_URLS_PER_MESSAGE <=> i <= n
    BY <2>1, <2>2, <2>3
  <2>5. S = {i \in 1..len: i <= MAX_URLS_PER_MESSAGE}
    BY <2>2
  <2> QED BY <2>1, <2>2, <2>3, <2>4, <2>5
<1>7. DOMAIN seen = 1..n /\ Len(seen) = n /\ \A i \in 1..n: seen[i] = captures[i]
  BY <1>1, <1>4
<1> HIDE DEF seen, S
<1>8. ASSUME NEW i \in 1..n
      PROVE  UrlOf(seen[i]) = Want(i) /\ Want(i) \in Seq(Storable)
  <2>1. captures[i].path \in Seq(Tokens) /\ captures[i].host \in Hosts
    BY <1>1, <1>4
  <2>2. UrlOf(seen[i]) = Want(i) /\ LinkOf(captures[i]).path \in Seq(Plain)
    BY <1>7, <2>1, UrlOfExact
  <2>3. WellFormed(LinkOf(captures[i])) => LinkOf(captures[i]) \in Storable
    <3>1. Plain \subseteq Tokens
      BY DEF Plain, Tokens
    <3>2. LinkOf(captures[i]).path \in Seq(Tokens)
      BY <2>2, <3>1
    <3>3. LinkOf(captures[i]) = [host |-> captures[i].host, path |-> LinkOf(captures[i]).path]
      BY DEF LinkOf
    <3>4. LinkOf(captures[i]) \in Links
      BY <2>1, <3>2, <3>3 DEF Links
    <3> QED BY <3>4 DEF WellFormed, Storable
  <2> QED BY <2>2, <2>3
<1> HIDE DEF Want
<1>9. [i \in DOMAIN seen |-> UrlOf(seen[i])] = [i \in S |-> Want(i)]
  BY <1>6, <1>7, <1>8
<1>10. [i \in S |-> Want(i)] \in Seq(Seq(Storable))
  BY <1>4, <1>6, <1>8
<1> QED BY <1>2, <1>3, <1>9, <1>10, FlattenTyped DEF captures

-------------------------------------------------------------------------------
(* Names *)

Suffix(rule, name) ==
  /\ Len(rule) <= Len(name)
  /\ \A j \in 1..Len(rule): name[Len(name) - Len(rule) + j] = rule[j]

LEMMA SameSequence ==
  ASSUME NEW D, NEW s \in Seq(D), NEW t \in Seq(D), Len(s) = Len(t), \A i \in 1..Len(s): s[i] = t[i]
  PROVE  s = t
  OBVIOUS

LEMMA PrefixSuffix ==
  ASSUME NEW D, NEW rule \in Seq(D), NEW name \in Seq(D)
  PROVE  IsPrefix(Reverse(rule), Reverse(name)) <=> Suffix(rule, name)
<1> DEFINE k == Len(rule)
           n == Len(name)
           r == Reverse(rule)
           m == Reverse(name)
<1>1. k \in Nat /\ n \in Nat
  OBVIOUS
<1>2. /\ r \in Seq(D) /\ Len(r) = k /\ \A j \in 1..k: r[j] = rule[k - j + 1]
      /\ m \in Seq(D) /\ Len(m) = n /\ \A j \in 1..n: m[j] = name[n - j + 1]
  BY DEF Reverse
<1>3. IsPrefix(r, m) <=> k <= n /\ SubSeq(r, 1, k) = SubSeq(m, 1, k)
  BY <1>2 DEF IsPrefix
<1> HIDE DEF r, m
<1>4. SubSeq(r, 1, k) = r
  BY <1>2
<1>5. k <= n => (r = SubSeq(m, 1, k) <=> \A j \in 1..k: r[j] = m[j])
  <2> SUFFICES ASSUME k <= n PROVE r = SubSeq(m, 1, k) <=> \A j \in 1..k: r[j] = m[j]
    OBVIOUS
  <2>1. SubSeq(m, 1, k) \in Seq(D) /\ Len(SubSeq(m, 1, k)) = k /\ \A j \in 1..k: SubSeq(m, 1, k)[j] = m[j]
    BY <1>1, <1>2
  <2> QED BY <1>2, <2>1
<1> HIDE DEF k, n
<1>6. k <= n => ((\A j \in 1..k: r[j] = m[j]) <=> \A j \in 1..k: name[n - k + j] = rule[j])
  <2> SUFFICES ASSUME k <= n
               PROVE  (\A j \in 1..k: r[j] = m[j]) <=> \A j \in 1..k: name[n - k + j] = rule[j]
    OBVIOUS
  <2>1. ASSUME NEW j \in 1..k
        PROVE  /\ k - j + 1 \in 1..k /\ k - (k - j + 1) + 1 = j
               /\ n - k + (k - j + 1) = n - j + 1
               /\ n - (k - j + 1) + 1 = n - k + j
               /\ r[j] = rule[k - j + 1] /\ m[j] = name[n - j + 1]
    BY <1>1, <1>2
  <2>2. ASSUME \A j \in 1..k: r[j] = m[j], NEW j \in 1..k PROVE name[n - k + j] = rule[j]
    <3>1. r[k - j + 1] = m[k - j + 1]
      BY <2>1, <2>2
    <3>2. r[k - j + 1] = rule[k - (k - j + 1) + 1] /\ m[k - j + 1] = name[n - (k - j + 1) + 1]
      BY <2>1
    <3> QED BY <2>1, <3>1, <3>2
  <2>3. ASSUME \A j \in 1..k: name[n - k + j] = rule[j], NEW j \in 1..k PROVE r[j] = m[j]
    <3>1. name[n - k + (k - j + 1)] = rule[k - j + 1]
      BY <2>1, <2>3
    <3> QED BY <2>1, <3>1
  <2> QED BY <2>2, <2>3
<1> QED BY <1>3, <1>4, <1>5, <1>6 DEF r, m, k, n, Suffix

LEMMA CutSuffix ==
  ASSUME NEW D, NEW dot \in D, NEW rule \in Seq(D) \ {<<>>}, NEW name \in Seq(D)
  PROVE  (\E i \in 1..Len(name): SubSeq(Append(name, dot), i, Len(name) + 1) = Append(rule, dot))
           <=> Suffix(rule, name)
<1> DEFINE k == Len(rule)
           n == Len(name)
           long == Append(name, dot)
           want == Append(rule, dot)
<1>1. k \in Nat \ {0} /\ n \in Nat
  OBVIOUS
<1>2. /\ long \in Seq(D) /\ Len(long) = n + 1 /\ long[n + 1] = dot /\ \A j \in 1..n: long[j] = name[j]
      /\ want \in Seq(D) /\ Len(want) = k + 1 /\ want[k + 1] = dot /\ \A j \in 1..k: want[j] = rule[j]
  OBVIOUS
<1> HIDE DEF long, want
<1>3. ASSUME NEW i \in 1..n
      PROVE  LET cut == SubSeq(long, i, n + 1)
             IN  cut \in Seq(D) /\ Len(cut) = n + 2 - i /\ \A j \in 1..n + 2 - i: cut[j] = long[i + j - 1]
  BY <1>1, <1>2
<1>4. ASSUME NEW i \in 1..n, SubSeq(long, i, n + 1) = want PROVE Suffix(rule, name)
  <2> DEFINE cut == SubSeq(long, i, n + 1)
  <2>1. Len(cut) = n + 2 - i /\ \A j \in 1..n + 2 - i: cut[j] = long[i + j - 1]
    BY <1>3
  <2>2. k + 1 = n + 2 - i
    BY <1>2, <1>4, <2>1
  <2> HIDE DEF k, n
  <2>3. k <= n /\ n - k + 1 = i
    BY <1>1, <2>2
  <2>4. ASSUME NEW j \in 1..k PROVE name[n - k + j] = rule[j]
    <3>1. j \in 1..n + 2 - i /\ i + j - 1 = n - k + j /\ n - k + j \in 1..n
      BY <1>1, <2>2, <2>3
    <3>2. cut[j] = want[j]
      BY <1>4
    <3>3. cut[j] = long[n - k + j]
      BY <2>1, <3>1
    <3> QED BY <1>2, <3>1, <3>2, <3>3
  <2> QED BY <2>3, <2>4 DEF Suffix, k, n
<1>5. ASSUME Suffix(rule, name) PROVE \E i \in 1..n: SubSeq(long, i, n + 1) = want
  <2> DEFINE i == n - k + 1
             cut == SubSeq(long, i, n + 1)
  <2>1. k <= n /\ \A j \in 1..k: name[n - k + j] = rule[j]
    BY <1>5 DEF Suffix
  <2>2. i \in 1..n /\ n + 2 - i = k + 1
    <3> HIDE DEF k, n
    <3> QED BY <1>1, <2>1
  <2>3. cut \in Seq(D) /\ Len(cut) = k + 1 /\ \A j \in 1..k + 1: cut[j] = long[i + j - 1]
    <3> HIDE DEF i
    <3> QED BY <1>3, <2>2
  <2>4. ASSUME NEW j \in 1..k + 1 PROVE cut[j] = want[j]
    <3>1. cut[j] = long[n - k + j]
      <4>1. i + j - 1 = n - k + j
        BY <1>1
      <4> QED BY <2>3, <4>1
    <3> HIDE DEF k, n
    <3>2. CASE j = k + 1
      BY <1>1, <1>2, <3>1, <3>2
    <3>3. CASE j \in 1..k
      <4>1. n - k + j \in 1..n
        BY <1>1, <2>1, <3>3
      <4> QED BY <1>2, <2>1, <3>1, <3>3, <4>1
    <3> QED BY <1>1, <3>2, <3>3
  <2> HIDE DEF cut
  <2>5. cut = want
    BY <1>2, <2>3, <2>4, SameSequence
  <2> QED BY <2>2, <2>5 DEF cut
<1> QED BY <1>4, <1>5 DEF long, want

LEMMA ReverseFacts ==
  ASSUME NEW D, NEW s \in Seq(D)
  PROVE  Range(Reverse(s)) = Range(s)
<1> DEFINE n == Len(s)
           t == Reverse(s)
<1>1. n \in Nat /\ DOMAIN s = 1..n /\ DOMAIN t = 1..n /\ \A i \in 1..n: t[i] = s[n - i + 1]
  BY DEF Reverse
<1> HIDE DEF n, t
<1>2. ASSUME NEW i \in 1..n PROVE n - i + 1 \in 1..n /\ s[i] = t[n - i + 1]
  <2>1. n - i + 1 \in 1..n /\ n - (n - i + 1) + 1 = i
    BY <1>1
  <2> QED BY <1>1, <2>1
<1>3. Range(t) \subseteq Range(s)
  BY <1>1, <1>2 DEF Range
<1>4. Range(s) \subseteq Range(t)
  BY <1>1, <1>2 DEF Range
<1> QED BY <1>3, <1>4 DEF t

Without(labels, dot) == IF Last(labels) = dot THEN Front(labels) ELSE labels
Stripped(labels) == Without(labels, "")

LEMMA WithoutFacts ==
  ASSUME NEW D, NEW dot \in D, NEW labels \in Seq(D) \ {<<>>, <<dot>>}
  PROVE  /\ Without(labels, dot) \in Seq(D) \ {<<>>}
         /\ Without(labels, dot) = IF Len(labels) > 1 /\ Last(labels) = dot THEN Front(labels) ELSE labels
<1>1. Last(labels) = dot => Len(labels) > 1
  <2> SUFFICES ASSUME Last(labels) = dot, Len(labels) = 1 PROVE FALSE
    OBVIOUS
  <2>1. labels = <<labels[1]>>
    OBVIOUS
  <2> QED BY <2>1 DEF Last
<1>2. CASE Last(labels) = dot
  <2>1. Front(labels) \in Seq(D) /\ Len(Front(labels)) = Len(labels) - 1
    BY <1>1, <1>2 DEF Front
  <2> QED BY <1>1, <1>2, <2>1 DEF Without
<1>3. CASE Last(labels) # dot
  BY <1>3 DEF Without
<1> QED BY <1>2, <1>3

LEMMA SingleFacts ==
  ASSUME NEW x
  PROVE  Len(<<x>>) = 1 /\ Range(<<x>>) = {x}
  BY DEF Range

LEMMA LongerFacts ==
  ASSUME NEW D, NEW dot \in D, NEW s \in Seq(D)
  PROVE  /\ Append(s, dot) # <<>> /\ Len(Append(s, dot)) = Len(s) + 1
         /\ Len(s) \in Nat /\ Len(Append(s, dot)) - 1 = Len(s)
  OBVIOUS

Labels == DOMAIN LabelBytes

Fits(name) == NameBytes(name) <= MAX_NAME_BYTES /\ Range(name) \cap MalformedLabels = {}

LEMMA StrippedFacts ==
  ASSUME NEW labels \in Seq(Labels) \ {<<>>, <<"">>}
  PROVE  /\ Stripped(labels) \in Seq(Labels) \ {<<>>}
         /\ FromRight(labels) = Reverse(Stripped(labels))
         /\ Unrooted(labels) = Stripped(labels)
         /\ Range(FromRight(labels)) = Range(Stripped(labels))
         /\ DnsName(labels) = IF Fits(Stripped(labels)) THEN Append(Stripped(labels), "") ELSE <<>>
<1> DEFINE N == Stripped(labels)
           dot == ""
           D == Labels
<1>1. dot \in D /\ labels \in Seq(D) \ {<<>>, <<dot>>} /\ N = Without(labels, dot)
  BY LabelsAssumption DEF Stripped, Labels
<1>2. Unrooted(labels) = N /\ FromRight(labels) = Reverse(N)
  BY DEF FromRight, Unrooted, Stripped, Without
<1>3. DnsName(labels) =
        LET name == IF Len(labels) > 1 /\ Last(labels) = dot THEN Front(labels) ELSE labels
        IN  IF Fits(name) THEN Append(name, dot) ELSE <<>>
  BY DEF DnsName, Fits
<1> HIDE DEF N, dot, D
<1>4. /\ N \in Seq(D) \ {<<>>}
      /\ N = IF Len(labels) > 1 /\ Last(labels) = dot THEN Front(labels) ELSE labels
  BY <1>1, WithoutFacts, ZenonT(40)
<1>5. Range(FromRight(labels)) = Range(N)
  BY <1>2, <1>4, ReverseFacts
<1>6. DnsName(labels) = IF Fits(N) THEN Append(N, dot) ELSE <<>>
  BY <1>3, <1>4
<1> QED BY <1>2, <1>4, <1>5, <1>6 DEF N, dot, D

LEMMA RuleFacts ==
  ASSUME NEW rule \in GlobalRules.names \cup WorkspaceRules.names
  PROVE  /\ Stripped(rule) \in Seq(Labels) \ {<<>>}
         /\ FromRight(rule) = Reverse(Stripped(rule))
         /\ DnsName(rule) = Append(Stripped(rule), "")
<1> DEFINE dot == ""
<1>1. rule \in Seq(Labels) \ {<<>>} /\ DnsName(rule) # <<>>
  BY RulesAssumption DEF Labels
<1>3. DnsName(rule) =
        LET name == IF Len(rule) > 1 /\ Last(rule) = dot THEN Front(rule) ELSE rule
        IN  IF Fits(name) THEN Append(name, dot) ELSE <<>>
  BY DEF DnsName, Fits
<1>4. dot \in MalformedLabels
  BY LabelsAssumption
<1> HIDE DEF dot
<1>5. rule # <<dot>>
  <2> SUFFICES ASSUME rule = <<dot>> PROVE DnsName(rule) = <<>>
    BY <1>1
  <2>1. Len(rule) = 1 /\ Range(rule) = {dot}
    BY SingleFacts
  <2>2. ~(Len(rule) > 1) /\ ~Fits(rule)
    BY <1>4, <2>1 DEF Fits
  <2> QED BY <1>3, <2>2
<1>6. rule \in Seq(Labels) \ {<<>>, <<"">>}
  BY <1>1, <1>5 DEF dot
<1> QED BY <1>1, <1>6, StrippedFacts

\* A name is refused when it is too long or a label of it malformed, and the walk
\* over the suffixes of the others finds the rules they end with, label by label,
\* and no others (dns_name, blocks_domain).
THEOREM NamesExact ==
  ASSUME NEW labels \in Seq(Labels) \ {<<>>, <<"">>}
  PROVE  AcceptableName(labels) <=> DnsName(labels) # <<>> /\ ~BlocksDomain(DnsName(labels))
<1> DEFINE N == Stripped(labels)
           Rules == GlobalRules.names \cup WorkspaceRules.names
           dot == ""
           D == Labels
           name == Append(N, dot)
<1>0. dot \in D
  BY LabelsAssumption DEF Labels
<1>1. /\ N \in Seq(D) \ {<<>>} /\ Unrooted(labels) = N
      /\ FromRight(labels) = Reverse(N) /\ Range(FromRight(labels)) = Range(N)
      /\ DnsName(labels) = IF Fits(N) THEN name ELSE <<>>
  BY StrippedFacts
<1>2. ASSUME NEW rule \in Rules
      PROVE  /\ Stripped(rule) \in Seq(D) \ {<<>>}
             /\ FromRight(rule) = Reverse(Stripped(rule))
             /\ DnsName(rule) = Append(Stripped(rule), dot)
  BY RuleFacts
<1> HIDE DEF N, dot, D
<1>3. AcceptableName(labels) <=>
        Fits(N) /\ \A rule \in Rules: ~Suffix(Stripped(rule), N)
  <2>1. ASSUME NEW rule \in Rules
        PROVE  IsPrefix(FromRight(rule), FromRight(labels)) <=> Suffix(Stripped(rule), N)
    BY <1>1, <1>2, PrefixSuffix
  <2> QED BY <1>1, <2>1 DEF AcceptableName, Fits
<1>4. BlocksDomain(name) <=> \E rule \in Rules: Suffix(Stripped(rule), N)
  <2>1. Len(name) = Len(N) + 1 /\ Len(N) \in Nat /\ Len(name) - 1 = Len(N)
    <3>1. N \in Seq(D)
      BY <1>1
    <3> QED BY <1>0, <3>1, LongerFacts
  <2> HIDE DEF name
  <2>2. BlocksDomain(name) <=>
          \E i \in 1..Len(N): \E rule \in Rules: SubSeq(name, i, Len(N) + 1) = DnsName(rule)
    BY <2>1 DEF BlocksDomain, Filter
  <2>3. ASSUME NEW rule \in Rules
        PROVE  (\E i \in 1..Len(N): SubSeq(name, i, Len(N) + 1) = DnsName(rule)) <=> Suffix(Stripped(rule), N)
    <3>1. Stripped(rule) \in Seq(D) \ {<<>>} /\ DnsName(rule) = Append(Stripped(rule), dot)
      BY <1>2
    <3> QED BY <1>0, <1>1, <3>1, CutSuffix DEF name
  <2> QED BY <2>2, <2>3
<1>5. name # <<>>
  BY <1>0, <1>1, LongerFacts
<1> QED BY <1>1, <1>3, <1>4, <1>5

-------------------------------------------------------------------------------
(* Addresses: a block is the range between its first and its last address *)

(* The largest word, named: the literal as the end of an interval stalls the provers. *)
Word == 65535

LEMMA WordIs == Word \in Nat /\ 65534 < Word /\ Word < 65536
  BY DEF Word

(* What Masked does to one part. *)
Kept(x, part, left) ==
  LET kept == IF left < 0 THEN 0 ELSE IF left > part THEN part ELSE left
      low  == 2 ^ (part - kept)
  IN  (x \div low) * low

(* The bits cut off, of which the lower limit is 0 and the upper limit the part. *)
Cut(part, left) == part - (IF left < 0 THEN 0 ELSE IF left > part THEN part ELSE left)

Pow(n) == 2 ^ n

LEMMA Powers ==
  /\ Pow(0) = 1 /\ Pow(1) = 2 /\ Pow(4) = 16 /\ Pow(6) = 64 /\ Pow(8) = 256
  /\ Pow(9) = 512 /\ Pow(12) = 4096 /\ Pow(13) = 8192 /\ Pow(16) = 65536
  BY DEF Pow

LEMMA KeptCut ==
  ASSUME NEW x, NEW part, NEW left
  PROVE  Kept(x, part, left) = (x \div Pow(Cut(part, left))) * Pow(Cut(part, left))
  BY DEF Kept, Cut, Pow

LEMMA KeptOctet ==
  ASSUME NEW x \in 0..255, NEW left \in Int
  PROVE  /\ left >= 8 => Kept(x, 8, left) = x
         /\ left <= 0 => Kept(x, 8, left) = 0
         /\ left = 2 => Kept(x, 8, left) = (x \div 64) * 64
         /\ left = 4 => Kept(x, 8, left) = (x \div 16) * 16
         /\ left = 7 => Kept(x, 8, left) = (x \div 2) * 2
<1>1. /\ left >= 8 => Cut(8, left) = 0
      /\ left <= 0 => Cut(8, left) = 8
      /\ left = 2 => Cut(8, left) = 6
      /\ left = 4 => Cut(8, left) = 4
      /\ left = 7 => Cut(8, left) = 1
  BY DEF Cut
<1> DEFINE low == Pow(Cut(8, left))
<1>2. Kept(x, 8, left) = (x \div low) * low
  BY KeptCut
<1>3. /\ left >= 8 => low = 1
      /\ left <= 0 => low = 256
      /\ left = 2 => low = 64
      /\ left = 4 => low = 16
      /\ left = 7 => low = 2
  BY <1>1, Powers
<1> HIDE DEF low
<1>4. (x \div 1) * 1 = x /\ (x \div 256) * 256 = 0
  OBVIOUS
<1> QED BY <1>2, <1>3, <1>4

LEMMA KeptWord ==
  ASSUME NEW x \in 0..Word, NEW left \in Int
  PROVE  /\ left >= 16 => Kept(x, 16, left) = x
         /\ left <= 0 => Kept(x, 16, left) = 0
         /\ left = 3 => Kept(x, 16, left) = (x \div 8192) * 8192
         /\ left = 4 => Kept(x, 16, left) = (x \div 4096) * 4096
         /\ left = 7 => Kept(x, 16, left) = (x \div 512) * 512
<1>1. /\ left >= 16 => Cut(16, left) = 0
      /\ left <= 0 => Cut(16, left) = 16
      /\ left = 3 => Cut(16, left) = 13
      /\ left = 4 => Cut(16, left) = 12
      /\ left = 7 => Cut(16, left) = 9
  BY DEF Cut
<1> DEFINE low == Pow(Cut(16, left))
<1>2. Kept(x, 16, left) = (x \div low) * low
  BY KeptCut
<1>3. /\ left >= 16 => low = 1
      /\ left <= 0 => low = 65536
      /\ left = 3 => low = 8192
      /\ left = 4 => low = 4096
      /\ left = 7 => low = 512
  BY <1>1, Powers
<1> HIDE DEF low
<1>4. (x \div 1) * 1 = x /\ (x \div 65536) * 65536 = 0
  BY WordIs
<1> QED BY <1>2, <1>3, <1>4


(* The blocks are those of IPv4 or of IPv6: the parts of an address and their bits. *)
Family(n, part, top) ==
  \/ n = 4 /\ part = 8 /\ top = 255
  \/ n = 8 /\ part = 16 /\ top = Word

LEMMA KeptSides ==
  ASSUME NEW n, NEW part, NEW top, Family(n, part, top), NEW x \in 0..top, NEW left \in Int
  PROVE  /\ left >= part => Kept(x, part, left) = x
         /\ left <= 0 => Kept(x, part, left) = 0
<1>1. CASE n = 4 /\ part = 8 /\ top = 255
  <2>1. x \in 0..255
    BY <1>1
  <2>2. (left >= 8 => Kept(x, 8, left) = x) /\ (left <= 0 => Kept(x, 8, left) = 0)
    BY <2>1, KeptOctet
  <2> QED BY <1>1, <2>2
<1>2. CASE n = 8 /\ part = 16 /\ top = Word
  <2>1. x \in 0..Word
    BY <1>2
  <2>2. (left >= 16 => Kept(x, 16, left) = x) /\ (left <= 0 => Kept(x, 16, left) = 0)
    BY <2>1, KeptWord
  <2> QED BY <1>2, <2>2
<1> QED BY <1>1, <1>2 DEF Family

(* The first and the last address of a block, whose prefix ends in part k. *)
Edges(n, part, top, base, last, k, bits) ==
  /\ Family(n, part, top)
  /\ base \in [1..n -> 0..top] /\ last \in [1..n -> 0..top]
  /\ k \in 1..n /\ bits \in Int /\ part * (k - 1) <= bits /\ bits <= part * k
  /\ \A i \in 1..k - 1: base[i] = last[i]
  /\ base[k] <= last[k]
  /\ \A i \in k + 1..n: base[i] = 0 /\ last[i] = top
  /\ \A x \in 0..top:
       Kept(x, part, bits - part * (k - 1)) = base[k] <=> (base[k] <= x /\ x <= last[k])

(* The masked address is the base of the block: the parts before the one the
   prefix ends in are equal, and so is what is kept of that one. *)
InBlock(a, base, k, part, bits) ==
  /\ \A i \in 1..k - 1: a[i] = base[i]
  /\ Kept(a[k], part, bits - part * (k - 1)) = base[k]

LEMMA MaskedBlock ==
  ASSUME NEW n, NEW part, NEW top, NEW a \in [1..n -> 0..top],
         NEW base, NEW last, NEW k, NEW bits, Edges(n, part, top, base, last, k, bits)
  PROVE  Masked(a, part, bits) = base <=> InBlock(a, base, k, part, bits)
<1> DEFINE left(i) == bits - part * (i - 1)
           masked == [i \in 1..n |-> Kept(a[i], part, left(i))]
<1>0. /\ Family(n, part, top) /\ base \in [1..n -> 0..top]
      /\ k \in 1..n /\ bits \in Int /\ part * (k - 1) <= bits /\ bits <= part * k
      /\ \A i \in k + 1..n: base[i] = 0
  BY DEF Edges
<1>1. Masked(a, part, bits) = masked
  <2>1. DOMAIN a = 1..n
    OBVIOUS
  <2>2. Masked(a, part, bits) = [i \in DOMAIN a |-> Kept(a[i], part, left(i))]
    BY DEF Masked, Kept
  <2> QED BY <2>1, <2>2
<1>2. ASSUME NEW i \in 1..n
      PROVE  left(i) \in Int /\ (i < k => left(i) >= part) /\ (i > k => left(i) <= 0)
  <2>1. CASE n = 4 /\ part = 8 /\ top = 255
    BY <1>0, <2>1
  <2>2. CASE n = 8 /\ part = 16 /\ top = Word
    <3>1. 16 * (k - 1) <= bits /\ bits <= 16 * k /\ i \in Int /\ k \in Int /\ bits \in Int
      BY <1>0, <2>2
    <3>2. left(i) = bits - 16 * (i - 1)
      BY <2>2
    <3> HIDE DEF left
    <3> QED BY <2>2, <3>1, <3>2
  <2> QED BY <1>0, <2>1, <2>2 DEF Family
<1>3. n \in Nat /\ k \in 1..n
  BY <1>0 DEF Family
<1> HIDE DEF left
<1>4. ASSUME NEW i \in 1..n
      PROVE  /\ i < k => masked[i] = a[i]
             /\ i = k => masked[i] = Kept(a[k], part, left(k))
             /\ i > k => masked[i] = 0
  <2>1. masked[i] = Kept(a[i], part, left(i)) /\ a[i] \in 0..top
    OBVIOUS
  <2>2. left(i) \in Int /\ (i < k => left(i) >= part) /\ (i > k => left(i) <= 0)
    BY <1>2
  <2> QED BY <1>0, <2>1, <2>2, KeptSides
<1>5. masked = base <=> \A i \in 1..n: masked[i] = base[i]
  BY <1>0
<1> HIDE DEF masked
<1>6. (\A i \in 1..n: masked[i] = base[i]) <=> InBlock(a, base, k, part, bits)
  <2>1. ASSUME \A i \in 1..n: masked[i] = base[i] PROVE InBlock(a, base, k, part, bits)
    <3>1. ASSUME NEW i \in 1..k - 1 PROVE a[i] = base[i]
      <4>1. i \in 1..n /\ i < k
        BY <1>3
      <4> QED BY <4>1, <1>4, <2>1
    <3>2. Kept(a[k], part, left(k)) = base[k]
      BY <1>3, <1>4, <2>1
    <3> QED BY <3>1, <3>2 DEF InBlock, left
  <2>2. ASSUME InBlock(a, base, k, part, bits), NEW i \in 1..n PROVE masked[i] = base[i]
    <3>1. CASE i < k
      <4>1. i \in 1..k - 1
        BY <3>1, <1>3
      <4> QED BY <4>1, <3>1, <1>4, <2>2 DEF InBlock
    <3>2. CASE i = k
      BY <3>2, <1>4, <2>2 DEF InBlock, left
    <3>3. CASE i > k
      <4>1. i \in k + 1..n
        BY <3>3, <1>3
      <4> QED BY <4>1, <3>3, <1>0, <1>4
    <3> QED BY <3>1, <3>2, <3>3, <1>3
  <2> QED BY <2>1, <2>2
<1> QED BY <1>1, <1>5, <1>6

(* From here on the parts of the smaller address are all 0, or those of the
   larger one all at their top: the order is decided before. *)
Decided(a, b, k) ==
  \/ \E i \in 1..k: a[i] < b[i] /\ \A j \in 1..i - 1: a[j] = b[j]
  \/ \A j \in 1..k: a[j] = b[j]

LEMMA OrderDecided ==
  ASSUME NEW n \in Nat, NEW top \in Nat, NEW a \in [1..n -> 0..top], NEW b \in [1..n -> 0..top],
         NEW k \in 0..n, \A i \in k + 1..n: a[i] <= b[i]
  PROVE  AtMost(a, b) <=> Decided(a, b, k)
<1> DEFINE Less(i) == a[i] < b[i] /\ \A j \in 1..i - 1: a[j] = b[j]
<1>1. AtMost(a, b) <=> (a = b \/ \E i \in 1..n: Less(i))
  BY DEF AtMost
<1>2. Decided(a, b, k) <=> ((\E i \in 1..k: Less(i)) \/ \A j \in 1..k: a[j] = b[j])
  BY DEF Decided
<1>3. ASSUME AtMost(a, b) PROVE Decided(a, b, k)
  <2>1. CASE a = b
    BY <2>1, <1>2
  <2>2. CASE \E i \in 1..n: Less(i)
    <3>1. PICK i \in 1..n: Less(i)
      BY <2>2
    <3>2. CASE i <= k
      BY <3>1, <3>2, <1>2
    <3>3. CASE i > k
      <4>1. 1..k \subseteq 1..i - 1
        BY <3>3
      <4> QED BY <3>1, <4>1, <1>2
    <3> QED BY <3>2, <3>3
  <2> QED BY <2>1, <2>2, <1>1, <1>3
<1>4. ASSUME Decided(a, b, k) PROVE AtMost(a, b)
  <2>1. CASE \E i \in 1..k: Less(i)
    <3>1. PICK i \in 1..k: Less(i)
      BY <2>1
    <3>2. i \in 1..n
      OBVIOUS
    <3> QED BY <3>1, <3>2, <1>1
  <2>2. CASE \A j \in 1..k: a[j] = b[j]
    <3> DEFINE D == {i \in 1..n: a[i] # b[i]}
    <3>1. CASE D = {}
      <4>1. \A i \in 1..n: a[i] = b[i]
        BY <3>1
      <4>2. a = b
        BY <4>1
      <4> QED BY <4>2, <1>1
    <3>2. CASE D # {}
      <4>1. D \in SUBSET Nat
        OBVIOUS
      <4> HIDE DEF D
      <4>2. PICK i \in D: \A j \in D: i <= j
        BY <3>2, <4>1, Least
      <4>3. i \in 1..n /\ a[i] # b[i]
        BY <4>2 DEF D
      <4>4. i \in k + 1..n
        BY <4>3, <2>2
      <4>5. a[i] < b[i]
        <5>1. a[i] \in 0..top /\ b[i] \in 0..top /\ a[i] <= b[i]
          BY <4>3, <4>4
        <5> QED BY <5>1, <4>3
      <4>6. ASSUME NEW j \in 1..i - 1 PROVE a[j] = b[j]
        <5>1. j \in 1..n /\ ~(i <= j)
          BY <4>3
        <5>2. j \notin D
          BY <5>1, <4>2
        <5> QED BY <5>1, <5>2 DEF D
      <4> QED BY <4>3, <4>5, <4>6, <1>1
    <3> QED BY <3>1, <3>2
  <2> QED BY <2>1, <2>2, <1>2, <1>4
<1> QED BY <1>3, <1>4

(* The address is masked to the base of the block. *)
Hits(a, part, block) == Masked(a, part, block[2]) = block[1]

InRange(a, first, last) == AtMost(first, a) /\ AtMost(a, last)

BlockIsRange(a, part, base, last, bits) == Hits(a, part, <<base, bits>>) <=> InRange(a, base, last)

LEMMA BlockRange ==
  ASSUME NEW n, NEW part, NEW top, NEW a \in [1..n -> 0..top],
         NEW base, NEW last, NEW k, NEW bits, Edges(n, part, top, base, last, k, bits)
  PROVE  BlockIsRange(a, part, base, last, bits)
<1>1. /\ Family(n, part, top)
      /\ base \in [1..n -> 0..top] /\ last \in [1..n -> 0..top]
      /\ k \in 1..n /\ bits \in Int /\ part * (k - 1) <= bits /\ bits <= part * k
  BY DEF Edges
<1>2. /\ \A i \in 1..k - 1: base[i] = last[i]
      /\ base[k] <= last[k]
      /\ \A i \in k + 1..n: base[i] = 0 /\ last[i] = top
  BY DEF Edges
<1>3. n \in Nat /\ top \in Nat
  BY <1>1, WordIs DEF Family
<1>4. \A i \in 1..n: a[i] \in 0..top /\ base[i] \in 0..top /\ last[i] \in 0..top
  BY <1>1
<1>5. Masked(a, part, bits) = base <=> InBlock(a, base, k, part, bits)
  BY MaskedBlock
<1>6. InBlock(a, base, k, part, bits) <=>
        ((\A i \in 1..k - 1: a[i] = base[i]) /\ base[k] <= a[k] /\ a[k] <= last[k])
  <2>1. a[k] \in 0..top
    BY <1>1, <1>4
  <2>2. Kept(a[k], part, bits - part * (k - 1)) = base[k] <=> (base[k] <= a[k] /\ a[k] <= last[k])
    BY <2>1 DEF Edges
  <2> QED BY <2>2 DEF InBlock
<1>7. k \in 0..n
  BY <1>1
<1>8. AtMost(base, a) <=> Decided(base, a, k)
  <2>1. \A i \in k + 1..n: i \in 1..n /\ base[i] = 0
    BY <1>1, <1>2, <1>3
  <2>2. \A i \in k + 1..n: base[i] <= a[i]
    BY <2>1, <1>3, <1>4
  <2> QED BY <1>1, <1>3, <1>7, <2>2, OrderDecided
<1>9. AtMost(a, last) <=> Decided(a, last, k)
  <2>1. \A i \in k + 1..n: i \in 1..n /\ last[i] = top
    BY <1>1, <1>2, <1>3
  <2>2. \A i \in k + 1..n: a[i] <= last[i]
    BY <2>1, <1>3, <1>4
  <2> QED BY <1>1, <1>3, <1>7, <2>2, OrderDecided
<1>10. \A i \in 1..k: i \in 1..n /\ (i = k \/ i \in 1..k - 1)
  BY <1>1, <1>3
<1>11. ASSUME \A i \in 1..k - 1: a[i] = base[i], base[k] <= a[k], a[k] <= last[k]
       PROVE  Decided(base, a, k) /\ Decided(a, last, k)
  <2>1. k \in 1..k
    BY <1>1, <1>3
  <2>2. a[k] \in Int /\ base[k] \in Int /\ last[k] \in Int
    BY <1>1, <1>4
  <2>3. Decided(base, a, k)
    <3>1. CASE base[k] < a[k]
      BY <3>1, <2>1, <1>11 DEF Decided
    <3>2. CASE base[k] = a[k]
      BY <3>2, <1>10, <1>11 DEF Decided
    <3> QED BY <3>1, <3>2, <2>2, <1>11
  <2>4. Decided(a, last, k)
    <3>0. \A i \in 1..k - 1: a[i] = last[i]
      BY <1>11, <1>2
    <3>1. CASE a[k] < last[k]
      BY <3>0, <3>1, <2>1 DEF Decided
    <3>2. CASE a[k] = last[k]
      BY <3>0, <3>2, <1>10 DEF Decided
    <3> QED BY <3>1, <3>2, <2>2, <1>11
  <2> QED BY <2>3, <2>4
<1>12. ASSUME Decided(base, a, k), Decided(a, last, k)
       PROVE  (\A i \in 1..k - 1: a[i] = base[i]) /\ base[k] <= a[k] /\ a[k] <= last[k]
  <2>1. a[k] \in Int /\ base[k] \in Int /\ last[k] \in Int /\ k \in 1..k
    BY <1>1, <1>3, <1>4
  <2>2. CASE \A j \in 1..k: base[j] = a[j]
    BY <2>1, <2>2, <1>2, <1>10
  <2>3. ASSUME NEW i \in 1..k, base[i] < a[i], \A j \in 1..i - 1: base[j] = a[j]
        PROVE  (\A j \in 1..k - 1: a[j] = base[j]) /\ base[k] <= a[k] /\ a[k] <= last[k]
    <3>1. a[i] \in Int /\ base[i] \in Int /\ last[i] \in Int
      BY <1>4, <1>10
    <3>2. CASE \A j \in 1..k: a[j] = last[j]
      <4>1. i = k
        BY <2>3, <3>1, <3>2, <1>2, <1>10
      <4> QED BY <4>1, <2>1, <2>3, <3>2
    <3>3. ASSUME NEW j \in 1..k, a[j] < last[j], \A m \in 1..j - 1: a[m] = last[m]
          PROVE  i = k /\ j = k
      <4>1. a[j] \in Int /\ base[j] \in Int /\ last[j] \in Int
        BY <1>4, <1>10
      <4>2. CASE i < j
        <5>1. i \in 1..j - 1 /\ i \in 1..k - 1
          BY <4>2, <1>1, <1>3
        <5>2. a[i] = last[i] /\ base[i] = last[i]
          BY <5>1, <3>3, <1>2
        <5> QED BY <5>2, <3>1, <2>3
      <4>3. CASE j < i
        <5>1. j \in 1..i - 1 /\ j \in 1..k - 1
          BY <4>3, <1>1, <1>3
        <5>2. base[j] = a[j] /\ base[j] = last[j]
          BY <5>1, <2>3, <1>2
        <5> QED BY <5>2, <4>1, <3>3
      <4>4. CASE i = j
        <5>1. CASE i # k
          <6>1. base[i] = last[i]
            BY <5>1, <1>2, <1>10
          <6>2. base[i] < a[i] /\ a[i] < last[i]
            BY <4>4, <2>3, <3>3
          <6> QED BY <6>1, <6>2, <3>1
        <5> QED BY <5>1, <4>4
      <4> QED BY <4>2, <4>3, <4>4, <1>1, <1>3
    <3>4. ASSUME NEW j \in 1..k, a[j] < last[j], \A m \in 1..j - 1: a[m] = last[m]
          PROVE  (\A m \in 1..k - 1: a[m] = base[m]) /\ base[k] <= a[k] /\ a[k] <= last[k]
      <4>1. i = k /\ j = k
        BY <3>3, <3>4
      <4> QED BY <4>1, <2>1, <2>3, <3>4
    <3> QED BY <3>2, <3>4, <1>12 DEF Decided
  <2> QED BY <2>2, <2>3, <1>12 DEF Decided
<1>13. Hits(a, part, <<base, bits>>) <=> Masked(a, part, bits) = base
  BY DEF Hits
<1>14. InBlock(a, base, k, part, bits) <=> InRange(a, base, last)
  BY <1>6, <1>8, <1>9, <1>11, <1>12 DEF InRange
<1> QED BY <1>5, <1>13, <1>14 DEF BlockIsRange

(* When all but the first part is as small, or as large, as it can be. *)
LEMMA FirstPart ==
  ASSUME NEW n \in Nat \ {0}, NEW top \in Nat, NEW a \in [1..n -> 0..top], NEW b \in [1..n -> 0..top],
         \A i \in 2..n: a[i] <= b[i]
  PROVE  AtMost(a, b) <=> a[1] <= b[1]
<1>1. 1 \in 0..n /\ 1 \in 1..n /\ \A i \in 1 + 1..n: a[i] <= b[i]
  OBVIOUS
<1>2. AtMost(a, b) <=> Decided(a, b, 1)
  BY <1>1, OrderDecided
<1>3. a[1] \in Int /\ b[1] \in Int
  BY <1>1
<1>4. Decided(a, b, 1) <=> (a[1] < b[1] \/ a[1] = b[1])
  BY DEF Decided
<1> QED BY <1>2, <1>3, <1>4

Octets == [1..4 -> 0..255]

LEMMA OctetsBlocks ==
  ASSUME NEW a \in Octets
  PROVE  /\ BlockIsRange(a, 8, <<0, 0, 0, 0>>, <<0, 255, 255, 255>>, 8)
         /\ BlockIsRange(a, 8, <<10, 0, 0, 0>>, <<10, 255, 255, 255>>, 8)
         /\ BlockIsRange(a, 8, <<100, 64, 0, 0>>, <<100, 127, 255, 255>>, 10)
         /\ BlockIsRange(a, 8, <<127, 0, 0, 0>>, <<127, 255, 255, 255>>, 8)
         /\ BlockIsRange(a, 8, <<169, 254, 0, 0>>, <<169, 254, 255, 255>>, 16)
         /\ BlockIsRange(a, 8, <<172, 16, 0, 0>>, <<172, 31, 255, 255>>, 12)
         /\ BlockIsRange(a, 8, <<192, 0, 0, 0>>, <<192, 0, 0, 255>>, 24)
         /\ BlockIsRange(a, 8, <<192, 0, 2, 0>>, <<192, 0, 2, 255>>, 24)
         /\ BlockIsRange(a, 8, <<192, 88, 99, 0>>, <<192, 88, 99, 255>>, 24)
         /\ BlockIsRange(a, 8, <<192, 168, 0, 0>>, <<192, 168, 255, 255>>, 16)
         /\ BlockIsRange(a, 8, <<198, 18, 0, 0>>, <<198, 19, 255, 255>>, 15)
         /\ BlockIsRange(a, 8, <<198, 51, 100, 0>>, <<198, 51, 100, 255>>, 24)
         /\ BlockIsRange(a, 8, <<203, 0, 113, 0>>, <<203, 0, 113, 255>>, 24)
         /\ BlockIsRange(a, 8, <<224, 0, 0, 0>>, <<239, 255, 255, 255>>, 4)
         /\ BlockIsRange(a, 8, <<240, 0, 0, 0>>, <<255, 255, 255, 255>>, 4)
<1>1. BlockIsRange(a, 8, <<0, 0, 0, 0>>, <<0, 255, 255, 255>>, 8)
  <2> DEFINE base == <<0, 0, 0, 0>>
             last == <<0, 255, 255, 255>>
  <2>1. base \in [1..4 -> 0..255] /\ last \in [1..4 -> 0..255]
    OBVIOUS
  <2>2. base[1] = 0 /\ base[2] = 0 /\ base[3] = 0 /\ base[4] = 0
    OBVIOUS
  <2>3. last[1] = 0 /\ last[2] = 255 /\ last[3] = 255 /\ last[4] = 255
    OBVIOUS
  <2> HIDE DEF base, last
  <2>4. \A x \in 0..255: Kept(x, 8, 8) = 0 <=> (0 <= x /\ x <= 0)
    <3> TAKE x \in 0..255
    <3>1. Kept(x, 8, 8) = x
      BY KeptOctet, SMTT(40)
    <3> QED BY <3>1
  <2>5. Edges(4, 8, 255, base, last, 1, 8)
    BY <2>1, <2>2, <2>3, <2>4 DEF Edges, Family
  <2>6. BlockIsRange(a, 8, base, last, 8)
    BY <2>5, BlockRange DEF Octets
  <2> QED BY <2>6 DEF base, last
<1>2. BlockIsRange(a, 8, <<10, 0, 0, 0>>, <<10, 255, 255, 255>>, 8)
  <2> DEFINE base == <<10, 0, 0, 0>>
             last == <<10, 255, 255, 255>>
  <2>1. base \in [1..4 -> 0..255] /\ last \in [1..4 -> 0..255]
    OBVIOUS
  <2>2. base[1] = 10 /\ base[2] = 0 /\ base[3] = 0 /\ base[4] = 0
    OBVIOUS
  <2>3. last[1] = 10 /\ last[2] = 255 /\ last[3] = 255 /\ last[4] = 255
    OBVIOUS
  <2> HIDE DEF base, last
  <2>4. \A x \in 0..255: Kept(x, 8, 8) = 10 <=> (10 <= x /\ x <= 10)
    <3> TAKE x \in 0..255
    <3>1. Kept(x, 8, 8) = x
      BY KeptOctet, SMTT(40)
    <3> QED BY <3>1
  <2>5. Edges(4, 8, 255, base, last, 1, 8)
    BY <2>1, <2>2, <2>3, <2>4 DEF Edges, Family
  <2>6. BlockIsRange(a, 8, base, last, 8)
    BY <2>5, BlockRange DEF Octets
  <2> QED BY <2>6 DEF base, last
<1>3. BlockIsRange(a, 8, <<100, 64, 0, 0>>, <<100, 127, 255, 255>>, 10)
  <2> DEFINE base == <<100, 64, 0, 0>>
             last == <<100, 127, 255, 255>>
  <2>1. base \in [1..4 -> 0..255] /\ last \in [1..4 -> 0..255]
    OBVIOUS
  <2>2. base[1] = 100 /\ base[2] = 64 /\ base[3] = 0 /\ base[4] = 0
    OBVIOUS
  <2>3. last[1] = 100 /\ last[2] = 127 /\ last[3] = 255 /\ last[4] = 255
    OBVIOUS
  <2> HIDE DEF base, last
  <2>4. \A x \in 0..255: Kept(x, 8, 2) = 64 <=> (64 <= x /\ x <= 127)
    <3> TAKE x \in 0..255
    <3>1. Kept(x, 8, 2) = (x \div 64) * 64
      BY KeptOctet, SMTT(40)
    <3> QED BY <3>1
  <2>5. Edges(4, 8, 255, base, last, 2, 10)
    BY <2>1, <2>2, <2>3, <2>4 DEF Edges, Family
  <2>6. BlockIsRange(a, 8, base, last, 10)
    BY <2>5, BlockRange DEF Octets
  <2> QED BY <2>6 DEF base, last
<1>4. BlockIsRange(a, 8, <<127, 0, 0, 0>>, <<127, 255, 255, 255>>, 8)
  <2> DEFINE base == <<127, 0, 0, 0>>
             last == <<127, 255, 255, 255>>
  <2>1. base \in [1..4 -> 0..255] /\ last \in [1..4 -> 0..255]
    OBVIOUS
  <2>2. base[1] = 127 /\ base[2] = 0 /\ base[3] = 0 /\ base[4] = 0
    OBVIOUS
  <2>3. last[1] = 127 /\ last[2] = 255 /\ last[3] = 255 /\ last[4] = 255
    OBVIOUS
  <2> HIDE DEF base, last
  <2>4. \A x \in 0..255: Kept(x, 8, 8) = 127 <=> (127 <= x /\ x <= 127)
    <3> TAKE x \in 0..255
    <3>1. Kept(x, 8, 8) = x
      BY KeptOctet, SMTT(40)
    <3> QED BY <3>1
  <2>5. Edges(4, 8, 255, base, last, 1, 8)
    BY <2>1, <2>2, <2>3, <2>4 DEF Edges, Family
  <2>6. BlockIsRange(a, 8, base, last, 8)
    BY <2>5, BlockRange DEF Octets
  <2> QED BY <2>6 DEF base, last
<1>5. BlockIsRange(a, 8, <<169, 254, 0, 0>>, <<169, 254, 255, 255>>, 16)
  <2> DEFINE base == <<169, 254, 0, 0>>
             last == <<169, 254, 255, 255>>
  <2>1. base \in [1..4 -> 0..255] /\ last \in [1..4 -> 0..255]
    OBVIOUS
  <2>2. base[1] = 169 /\ base[2] = 254 /\ base[3] = 0 /\ base[4] = 0
    OBVIOUS
  <2>3. last[1] = 169 /\ last[2] = 254 /\ last[3] = 255 /\ last[4] = 255
    OBVIOUS
  <2> HIDE DEF base, last
  <2>4. \A x \in 0..255: Kept(x, 8, 8) = 254 <=> (254 <= x /\ x <= 254)
    <3> TAKE x \in 0..255
    <3>1. Kept(x, 8, 8) = x
      BY KeptOctet, SMTT(40)
    <3> QED BY <3>1
  <2>5. Edges(4, 8, 255, base, last, 2, 16)
    BY <2>1, <2>2, <2>3, <2>4 DEF Edges, Family
  <2>6. BlockIsRange(a, 8, base, last, 16)
    BY <2>5, BlockRange DEF Octets
  <2> QED BY <2>6 DEF base, last
<1>6. BlockIsRange(a, 8, <<172, 16, 0, 0>>, <<172, 31, 255, 255>>, 12)
  <2> DEFINE base == <<172, 16, 0, 0>>
             last == <<172, 31, 255, 255>>
  <2>1. base \in [1..4 -> 0..255] /\ last \in [1..4 -> 0..255]
    OBVIOUS
  <2>2. base[1] = 172 /\ base[2] = 16 /\ base[3] = 0 /\ base[4] = 0
    OBVIOUS
  <2>3. last[1] = 172 /\ last[2] = 31 /\ last[3] = 255 /\ last[4] = 255
    OBVIOUS
  <2> HIDE DEF base, last
  <2>4. \A x \in 0..255: Kept(x, 8, 4) = 16 <=> (16 <= x /\ x <= 31)
    <3> TAKE x \in 0..255
    <3>1. Kept(x, 8, 4) = (x \div 16) * 16
      BY KeptOctet, SMTT(40)
    <3> QED BY <3>1
  <2>5. Edges(4, 8, 255, base, last, 2, 12)
    BY <2>1, <2>2, <2>3, <2>4 DEF Edges, Family
  <2>6. BlockIsRange(a, 8, base, last, 12)
    BY <2>5, BlockRange DEF Octets
  <2> QED BY <2>6 DEF base, last
<1>7. BlockIsRange(a, 8, <<192, 0, 0, 0>>, <<192, 0, 0, 255>>, 24)
  <2> DEFINE base == <<192, 0, 0, 0>>
             last == <<192, 0, 0, 255>>
  <2>1. base \in [1..4 -> 0..255] /\ last \in [1..4 -> 0..255]
    OBVIOUS
  <2>2. base[1] = 192 /\ base[2] = 0 /\ base[3] = 0 /\ base[4] = 0
    OBVIOUS
  <2>3. last[1] = 192 /\ last[2] = 0 /\ last[3] = 0 /\ last[4] = 255
    OBVIOUS
  <2> HIDE DEF base, last
  <2>4. \A x \in 0..255: Kept(x, 8, 8) = 0 <=> (0 <= x /\ x <= 0)
    <3> TAKE x \in 0..255
    <3>1. Kept(x, 8, 8) = x
      BY KeptOctet, SMTT(40)
    <3> QED BY <3>1
  <2>5. Edges(4, 8, 255, base, last, 3, 24)
    BY <2>1, <2>2, <2>3, <2>4 DEF Edges, Family
  <2>6. BlockIsRange(a, 8, base, last, 24)
    BY <2>5, BlockRange DEF Octets
  <2> QED BY <2>6 DEF base, last
<1>8. BlockIsRange(a, 8, <<192, 0, 2, 0>>, <<192, 0, 2, 255>>, 24)
  <2> DEFINE base == <<192, 0, 2, 0>>
             last == <<192, 0, 2, 255>>
  <2>1. base \in [1..4 -> 0..255] /\ last \in [1..4 -> 0..255]
    OBVIOUS
  <2>2. base[1] = 192 /\ base[2] = 0 /\ base[3] = 2 /\ base[4] = 0
    OBVIOUS
  <2>3. last[1] = 192 /\ last[2] = 0 /\ last[3] = 2 /\ last[4] = 255
    OBVIOUS
  <2> HIDE DEF base, last
  <2>4. \A x \in 0..255: Kept(x, 8, 8) = 2 <=> (2 <= x /\ x <= 2)
    <3> TAKE x \in 0..255
    <3>1. Kept(x, 8, 8) = x
      BY KeptOctet, SMTT(40)
    <3> QED BY <3>1
  <2>5. Edges(4, 8, 255, base, last, 3, 24)
    BY <2>1, <2>2, <2>3, <2>4 DEF Edges, Family
  <2>6. BlockIsRange(a, 8, base, last, 24)
    BY <2>5, BlockRange DEF Octets
  <2> QED BY <2>6 DEF base, last
<1>9. BlockIsRange(a, 8, <<192, 88, 99, 0>>, <<192, 88, 99, 255>>, 24)
  <2> DEFINE base == <<192, 88, 99, 0>>
             last == <<192, 88, 99, 255>>
  <2>1. base \in [1..4 -> 0..255] /\ last \in [1..4 -> 0..255]
    OBVIOUS
  <2>2. base[1] = 192 /\ base[2] = 88 /\ base[3] = 99 /\ base[4] = 0
    OBVIOUS
  <2>3. last[1] = 192 /\ last[2] = 88 /\ last[3] = 99 /\ last[4] = 255
    OBVIOUS
  <2> HIDE DEF base, last
  <2>4. \A x \in 0..255: Kept(x, 8, 8) = 99 <=> (99 <= x /\ x <= 99)
    <3> TAKE x \in 0..255
    <3>1. Kept(x, 8, 8) = x
      BY KeptOctet, SMTT(40)
    <3> QED BY <3>1
  <2>5. Edges(4, 8, 255, base, last, 3, 24)
    BY <2>1, <2>2, <2>3, <2>4 DEF Edges, Family
  <2>6. BlockIsRange(a, 8, base, last, 24)
    BY <2>5, BlockRange DEF Octets
  <2> QED BY <2>6 DEF base, last
<1>10. BlockIsRange(a, 8, <<192, 168, 0, 0>>, <<192, 168, 255, 255>>, 16)
  <2> DEFINE base == <<192, 168, 0, 0>>
             last == <<192, 168, 255, 255>>
  <2>1. base \in [1..4 -> 0..255] /\ last \in [1..4 -> 0..255]
    OBVIOUS
  <2>2. base[1] = 192 /\ base[2] = 168 /\ base[3] = 0 /\ base[4] = 0
    OBVIOUS
  <2>3. last[1] = 192 /\ last[2] = 168 /\ last[3] = 255 /\ last[4] = 255
    OBVIOUS
  <2> HIDE DEF base, last
  <2>4. \A x \in 0..255: Kept(x, 8, 8) = 168 <=> (168 <= x /\ x <= 168)
    <3> TAKE x \in 0..255
    <3>1. Kept(x, 8, 8) = x
      BY KeptOctet, SMTT(40)
    <3> QED BY <3>1
  <2>5. Edges(4, 8, 255, base, last, 2, 16)
    BY <2>1, <2>2, <2>3, <2>4 DEF Edges, Family
  <2>6. BlockIsRange(a, 8, base, last, 16)
    BY <2>5, BlockRange DEF Octets
  <2> QED BY <2>6 DEF base, last
<1>11. BlockIsRange(a, 8, <<198, 18, 0, 0>>, <<198, 19, 255, 255>>, 15)
  <2> DEFINE base == <<198, 18, 0, 0>>
             last == <<198, 19, 255, 255>>
  <2>1. base \in [1..4 -> 0..255] /\ last \in [1..4 -> 0..255]
    OBVIOUS
  <2>2. base[1] = 198 /\ base[2] = 18 /\ base[3] = 0 /\ base[4] = 0
    OBVIOUS
  <2>3. last[1] = 198 /\ last[2] = 19 /\ last[3] = 255 /\ last[4] = 255
    OBVIOUS
  <2> HIDE DEF base, last
  <2>4. \A x \in 0..255: Kept(x, 8, 7) = 18 <=> (18 <= x /\ x <= 19)
    <3> TAKE x \in 0..255
    <3>1. Kept(x, 8, 7) = (x \div 2) * 2
      BY KeptOctet, SMTT(40)
    <3> QED BY <3>1
  <2>5. Edges(4, 8, 255, base, last, 2, 15)
    BY <2>1, <2>2, <2>3, <2>4 DEF Edges, Family
  <2>6. BlockIsRange(a, 8, base, last, 15)
    BY <2>5, BlockRange DEF Octets
  <2> QED BY <2>6 DEF base, last
<1>12. BlockIsRange(a, 8, <<198, 51, 100, 0>>, <<198, 51, 100, 255>>, 24)
  <2> DEFINE base == <<198, 51, 100, 0>>
             last == <<198, 51, 100, 255>>
  <2>1. base \in [1..4 -> 0..255] /\ last \in [1..4 -> 0..255]
    OBVIOUS
  <2>2. base[1] = 198 /\ base[2] = 51 /\ base[3] = 100 /\ base[4] = 0
    OBVIOUS
  <2>3. last[1] = 198 /\ last[2] = 51 /\ last[3] = 100 /\ last[4] = 255
    OBVIOUS
  <2> HIDE DEF base, last
  <2>4. \A x \in 0..255: Kept(x, 8, 8) = 100 <=> (100 <= x /\ x <= 100)
    <3> TAKE x \in 0..255
    <3>1. Kept(x, 8, 8) = x
      BY KeptOctet, SMTT(40)
    <3> QED BY <3>1
  <2>5. Edges(4, 8, 255, base, last, 3, 24)
    BY <2>1, <2>2, <2>3, <2>4 DEF Edges, Family
  <2>6. BlockIsRange(a, 8, base, last, 24)
    BY <2>5, BlockRange DEF Octets
  <2> QED BY <2>6 DEF base, last
<1>13. BlockIsRange(a, 8, <<203, 0, 113, 0>>, <<203, 0, 113, 255>>, 24)
  <2> DEFINE base == <<203, 0, 113, 0>>
             last == <<203, 0, 113, 255>>
  <2>1. base \in [1..4 -> 0..255] /\ last \in [1..4 -> 0..255]
    OBVIOUS
  <2>2. base[1] = 203 /\ base[2] = 0 /\ base[3] = 113 /\ base[4] = 0
    OBVIOUS
  <2>3. last[1] = 203 /\ last[2] = 0 /\ last[3] = 113 /\ last[4] = 255
    OBVIOUS
  <2> HIDE DEF base, last
  <2>4. \A x \in 0..255: Kept(x, 8, 8) = 113 <=> (113 <= x /\ x <= 113)
    <3> TAKE x \in 0..255
    <3>1. Kept(x, 8, 8) = x
      BY KeptOctet, SMTT(40)
    <3> QED BY <3>1
  <2>5. Edges(4, 8, 255, base, last, 3, 24)
    BY <2>1, <2>2, <2>3, <2>4 DEF Edges, Family
  <2>6. BlockIsRange(a, 8, base, last, 24)
    BY <2>5, BlockRange DEF Octets
  <2> QED BY <2>6 DEF base, last
<1>14. BlockIsRange(a, 8, <<224, 0, 0, 0>>, <<239, 255, 255, 255>>, 4)
  <2> DEFINE base == <<224, 0, 0, 0>>
             last == <<239, 255, 255, 255>>
  <2>1. base \in [1..4 -> 0..255] /\ last \in [1..4 -> 0..255]
    OBVIOUS
  <2>2. base[1] = 224 /\ base[2] = 0 /\ base[3] = 0 /\ base[4] = 0
    OBVIOUS
  <2>3. last[1] = 239 /\ last[2] = 255 /\ last[3] = 255 /\ last[4] = 255
    OBVIOUS
  <2> HIDE DEF base, last
  <2>4. \A x \in 0..255: Kept(x, 8, 4) = 224 <=> (224 <= x /\ x <= 239)
    <3> TAKE x \in 0..255
    <3>1. Kept(x, 8, 4) = (x \div 16) * 16
      BY KeptOctet, SMTT(40)
    <3> QED BY <3>1
  <2>5. Edges(4, 8, 255, base, last, 1, 4)
    BY <2>1, <2>2, <2>3, <2>4 DEF Edges, Family
  <2>6. BlockIsRange(a, 8, base, last, 4)
    BY <2>5, BlockRange DEF Octets
  <2> QED BY <2>6 DEF base, last
<1>15. BlockIsRange(a, 8, <<240, 0, 0, 0>>, <<255, 255, 255, 255>>, 4)
  <2> DEFINE base == <<240, 0, 0, 0>>
             last == <<255, 255, 255, 255>>
  <2>1. base \in [1..4 -> 0..255] /\ last \in [1..4 -> 0..255]
    OBVIOUS
  <2>2. base[1] = 240 /\ base[2] = 0 /\ base[3] = 0 /\ base[4] = 0
    OBVIOUS
  <2>3. last[1] = 255 /\ last[2] = 255 /\ last[3] = 255 /\ last[4] = 255
    OBVIOUS
  <2> HIDE DEF base, last
  <2>4. \A x \in 0..255: Kept(x, 8, 4) = 240 <=> (240 <= x /\ x <= 255)
    <3> TAKE x \in 0..255
    <3>1. Kept(x, 8, 4) = (x \div 16) * 16
      BY KeptOctet, SMTT(40)
    <3> QED BY <3>1
  <2>5. Edges(4, 8, 255, base, last, 1, 4)
    BY <2>1, <2>2, <2>3, <2>4 DEF Edges, Family
  <2>6. BlockIsRange(a, 8, base, last, 4)
    BY <2>5, BlockRange DEF Octets
  <2> QED BY <2>6 DEF base, last
<1> QED BY <1>1, <1>2, <1>3, <1>4, <1>5, <1>6, <1>7, <1>8, <1>9, <1>10, <1>11, <1>12, <1>13, <1>14, <1>15


Words == [1..8 -> 0..Word]

LEMMA WordsAre == Words = [1..8 -> 0..65535]
  BY DEF Word, Words

LEMMA WordTop == 0 \in 0..Word /\ Word \in 0..Word /\ \hffff = Word
<1>1. \hffff = 65535
  OBVIOUS
<1> QED BY <1>1, WordIs DEF Word

LEMMA WordEnds ==
  ASSUME NEW p \in 0..Word, NEW q \in 0..Word
  PROVE  /\ Word6(p, q) \in Words /\ Word6(p, q)[1] = p /\ Word6(p, q)[2] = q
         /\ \A i \in 3..8: Word6(p, q)[i] = 0
         /\ Last6(p, q) \in Words /\ Last6(p, q)[1] = p /\ Last6(p, q)[2] = q
         /\ \A i \in 3..8: Last6(p, q)[i] = Word
<1>1. Word6(p, q) = <<p, q, 0, 0, 0, 0, 0, 0>>
  BY DEF Word6
<1>2. Last6(p, q) = <<p, q, Word, Word, Word, Word, Word, Word>>
  BY WordTop DEF Last6
<1>3. 0 \in 0..Word /\ Word \in 0..Word
  BY WordTop
<1>4. \A i \in 3..8: i = 3 \/ i = 4 \/ i = 5 \/ i = 6 \/ i = 7 \/ i = 8
  OBVIOUS
<1>5. \A S: \A m, n, r \in S: <<m, n, r, r, r, r, r, r>> \in [1..8 -> S]
  OBVIOUS
<1>6. Word6(p, q) \in Words /\ Last6(p, q) \in Words
  BY <1>1, <1>2, <1>3, <1>5 DEF Words
<1>7. Word6(p, q)[1] = p /\ Word6(p, q)[2] = q /\ \A i \in 3..8: Word6(p, q)[i] = 0
  BY <1>1, <1>4
<1>8. Last6(p, q)[1] = p /\ Last6(p, q)[2] = q /\ \A i \in 3..8: Last6(p, q)[i] = Word
  BY <1>2, <1>4
<1> QED BY <1>6, <1>7, <1>8

LEMMA WordsBlocks ==
  ASSUME NEW a \in Words
  PROVE  /\ BlockIsRange(a, 16, Word6(8192, 0), Last6(16383, Word), 3)
         /\ BlockIsRange(a, 16, Word6(8193, 0), Last6(8193, 511), 23)
         /\ BlockIsRange(a, 16, Word6(8193, 3512), Last6(8193, 3512), 32)
         /\ BlockIsRange(a, 16, Word6(8194, 0), Last6(8194, Word), 16)
         /\ BlockIsRange(a, 16, Word6(16383, 0), Last6(16383, 4095), 20)
<1>1. BlockIsRange(a, 16, Word6(8192, 0), Last6(16383, Word), 3)
  <2> DEFINE base == Word6(8192, 0)
             last == Last6(16383, Word)
  <2>0. 8192 \in 0..Word /\ 0 \in 0..Word /\ 16383 \in 0..Word /\ Word \in 0..Word
    BY WordIs
  <2>1. base \in Words /\ base[1] = 8192 /\ base[2] = 0 /\ \A i \in 3..8: base[i] = 0
    BY <2>0, WordEnds
  <2>2. last \in Words /\ last[1] = 16383 /\ last[2] = Word /\ \A i \in 3..8: last[i] = Word
    BY <2>0, WordEnds
  <2> HIDE DEF base, last
  <2>3. \A x \in 0..Word: Kept(x, 16, 3) = 8192 <=> (8192 <= x /\ x <= 16383)
    <3> TAKE x \in 0..Word
    <3>1. Kept(x, 16, 3) = (x \div 8192) * 8192
      BY KeptWord
    <3>2. x \in Int /\ 0 <= x /\ x < 65536
      BY WordIs
    <3> QED BY <3>1, <3>2
  <2>4. \A i \in 1 + 1..8: base[i] = 0 /\ last[i] = Word
    BY <2>1, <2>2
  <2>5. Edges(8, 16, Word, base, last, 1, 3)
    BY <2>1, <2>2, <2>3, <2>4 DEF Edges, Family, Words
  <2>6. BlockIsRange(a, 16, base, last, 3)
    BY <2>5, BlockRange DEF Words
  <2> QED BY <2>6 DEF base, last
<1>2. BlockIsRange(a, 16, Word6(8193, 0), Last6(8193, 511), 23)
  <2> DEFINE base == Word6(8193, 0)
             last == Last6(8193, 511)
  <2>0. 8193 \in 0..Word /\ 0 \in 0..Word /\ 511 \in 0..Word
    BY WordIs
  <2>1. base \in Words /\ base[1] = 8193 /\ base[2] = 0 /\ \A i \in 3..8: base[i] = 0
    BY <2>0, WordEnds
  <2>2. last \in Words /\ last[1] = 8193 /\ last[2] = 511 /\ \A i \in 3..8: last[i] = Word
    BY <2>0, WordEnds
  <2> HIDE DEF base, last
  <2>3. \A x \in 0..Word: Kept(x, 16, 7) = 0 <=> (0 <= x /\ x <= 511)
    <3> TAKE x \in 0..Word
    <3>1. Kept(x, 16, 7) = (x \div 512) * 512
      BY KeptWord
    <3>2. x \in Int /\ 0 <= x /\ x < 65536
      BY WordIs
    <3> QED BY <3>1, <3>2
  <2>4. \A i \in 2 + 1..8: base[i] = 0 /\ last[i] = Word
    BY <2>1, <2>2
  <2>5. Edges(8, 16, Word, base, last, 2, 23)
    BY <2>1, <2>2, <2>3, <2>4 DEF Edges, Family, Words
  <2>6. BlockIsRange(a, 16, base, last, 23)
    BY <2>5, BlockRange DEF Words
  <2> QED BY <2>6 DEF base, last
<1>3. BlockIsRange(a, 16, Word6(8193, 3512), Last6(8193, 3512), 32)
  <2> DEFINE base == Word6(8193, 3512)
             last == Last6(8193, 3512)
  <2>0. 8193 \in 0..Word /\ 3512 \in 0..Word
    BY WordIs
  <2>1. base \in Words /\ base[1] = 8193 /\ base[2] = 3512 /\ \A i \in 3..8: base[i] = 0
    BY <2>0, WordEnds
  <2>2. last \in Words /\ last[1] = 8193 /\ last[2] = 3512 /\ \A i \in 3..8: last[i] = Word
    BY <2>0, WordEnds
  <2> HIDE DEF base, last
  <2>3. \A x \in 0..Word: Kept(x, 16, 16) = 3512 <=> (3512 <= x /\ x <= 3512)
    <3> TAKE x \in 0..Word
    <3>1. Kept(x, 16, 16) = x
      BY KeptWord
    <3>2. x \in Int /\ 0 <= x /\ x < 65536
      BY WordIs
    <3> QED BY <3>1, <3>2
  <2>4. \A i \in 2 + 1..8: base[i] = 0 /\ last[i] = Word
    BY <2>1, <2>2
  <2>5. Edges(8, 16, Word, base, last, 2, 32)
    BY <2>1, <2>2, <2>3, <2>4 DEF Edges, Family, Words
  <2>6. BlockIsRange(a, 16, base, last, 32)
    BY <2>5, BlockRange DEF Words
  <2> QED BY <2>6 DEF base, last
<1>4. BlockIsRange(a, 16, Word6(8194, 0), Last6(8194, Word), 16)
  <2> DEFINE base == Word6(8194, 0)
             last == Last6(8194, Word)
  <2>0. 8194 \in 0..Word /\ 0 \in 0..Word /\ Word \in 0..Word
    BY WordIs
  <2>1. base \in Words /\ base[1] = 8194 /\ base[2] = 0 /\ \A i \in 3..8: base[i] = 0
    BY <2>0, WordEnds
  <2>2. last \in Words /\ last[1] = 8194 /\ last[2] = Word /\ \A i \in 3..8: last[i] = Word
    BY <2>0, WordEnds
  <2> HIDE DEF base, last
  <2>3. \A x \in 0..Word: Kept(x, 16, 16) = 8194 <=> (8194 <= x /\ x <= 8194)
    <3> TAKE x \in 0..Word
    <3>1. Kept(x, 16, 16) = x
      BY KeptWord
    <3>2. x \in Int /\ 0 <= x /\ x < 65536
      BY WordIs
    <3> QED BY <3>1, <3>2
  <2>4. \A i \in 1 + 1..8: base[i] = 0 /\ last[i] = Word
    BY <2>1, <2>2
  <2>5. Edges(8, 16, Word, base, last, 1, 16)
    BY <2>1, <2>2, <2>3, <2>4 DEF Edges, Family, Words
  <2>6. BlockIsRange(a, 16, base, last, 16)
    BY <2>5, BlockRange DEF Words
  <2> QED BY <2>6 DEF base, last
<1>5. BlockIsRange(a, 16, Word6(16383, 0), Last6(16383, 4095), 20)
  <2> DEFINE base == Word6(16383, 0)
             last == Last6(16383, 4095)
  <2>0. 16383 \in 0..Word /\ 0 \in 0..Word /\ 4095 \in 0..Word
    BY WordIs
  <2>1. base \in Words /\ base[1] = 16383 /\ base[2] = 0 /\ \A i \in 3..8: base[i] = 0
    BY <2>0, WordEnds
  <2>2. last \in Words /\ last[1] = 16383 /\ last[2] = 4095 /\ \A i \in 3..8: last[i] = Word
    BY <2>0, WordEnds
  <2> HIDE DEF base, last
  <2>3. \A x \in 0..Word: Kept(x, 16, 4) = 0 <=> (0 <= x /\ x <= 4095)
    <3> TAKE x \in 0..Word
    <3>1. Kept(x, 16, 4) = (x \div 4096) * 4096
      BY KeptWord
    <3>2. x \in Int /\ 0 <= x /\ x < 65536
      BY WordIs
    <3> QED BY <3>1, <3>2
  <2>4. \A i \in 2 + 1..8: base[i] = 0 /\ last[i] = Word
    BY <2>1, <2>2
  <2>5. Edges(8, 16, Word, base, last, 2, 20)
    BY <2>1, <2>2, <2>3, <2>4 DEF Edges, Family, Words
  <2>6. BlockIsRange(a, 16, base, last, 20)
    BY <2>5, BlockRange DEF Words
  <2> QED BY <2>6 DEF base, last
<1> QED BY <1>1, <1>2, <1>3, <1>4, <1>5


(* The address is in a range of its family. *)
Falls(a, first, last) == Len(first) = Len(a) /\ InRange(a, first, last)

LEMMA Blocks4Listed ==
  ASSUME NEW a
  PROVE  PublicV4(a) <=>
           /\ ~Hits(a, 8, <<<<0, 0, 0, 0>>, 8>>)
           /\ ~Hits(a, 8, <<<<10, 0, 0, 0>>, 8>>)
           /\ ~Hits(a, 8, <<<<100, 64, 0, 0>>, 10>>)
           /\ ~Hits(a, 8, <<<<127, 0, 0, 0>>, 8>>)
           /\ ~Hits(a, 8, <<<<169, 254, 0, 0>>, 16>>)
           /\ ~Hits(a, 8, <<<<172, 16, 0, 0>>, 12>>)
           /\ ~Hits(a, 8, <<<<192, 0, 0, 0>>, 24>>)
           /\ ~Hits(a, 8, <<<<192, 0, 2, 0>>, 24>>)
           /\ ~Hits(a, 8, <<<<192, 88, 99, 0>>, 24>>)
           /\ ~Hits(a, 8, <<<<192, 168, 0, 0>>, 16>>)
           /\ ~Hits(a, 8, <<<<198, 18, 0, 0>>, 15>>)
           /\ ~Hits(a, 8, <<<<198, 51, 100, 0>>, 24>>)
           /\ ~Hits(a, 8, <<<<203, 0, 113, 0>>, 24>>)
           /\ ~Hits(a, 8, <<<<224, 0, 0, 0>>, 4>>)
           /\ ~Hits(a, 8, <<<<240, 0, 0, 0>>, 4>>)
<1>1. PublicV4(a) <=> \A block \in Blocked4: ~Hits(a, 8, block)
  BY DEF PublicV4, Hits
<1> QED BY <1>1 DEF Blocked4

LEMMA Blocks6Listed ==
  ASSUME NEW a
  PROVE  PublicV6(a) <=>
           /\ Hits(a, 16, <<Word6(8192, 0), 3>>)
           /\ ~Hits(a, 16, <<Word6(8193, 0), 23>>)
           /\ ~Hits(a, 16, <<Word6(8193, 3512), 32>>)
           /\ ~Hits(a, 16, <<Word6(8194, 0), 16>>)
           /\ ~Hits(a, 16, <<Word6(16383, 0), 20>>)
<1>1. /\ \h2000 = 8192 /\ \h2001 = 8193 /\ \h0db8 = 3512 /\ \h2002 = 8194 /\ \h3fff = 16383
  OBVIOUS
<1>2. Blocked6 = {<<Word6(8193, 0), 23>>, <<Word6(8193, 3512), 32>>,
                  <<Word6(8194, 0), 16>>, <<Word6(16383, 0), 20>>}
  BY <1>1 DEF Blocked6
<1>3. PublicV6(a) <=> Hits(a, 16, <<Word6(8192, 0), 3>>) /\ \A block \in Blocked6: ~Hits(a, 16, block)
  BY <1>1 DEF PublicV6, Hits
<1> QED BY <1>2, <1>3

LEMMA RangesListed ==
  ASSUME NEW a
  PROVE  Special(a) <=>
           \/ Falls(a, <<0, 0, 0, 0>>, <<0, 255, 255, 255>>)
           \/ Falls(a, <<10, 0, 0, 0>>, <<10, 255, 255, 255>>)
           \/ Falls(a, <<172, 16, 0, 0>>, <<172, 31, 255, 255>>)
           \/ Falls(a, <<192, 168, 0, 0>>, <<192, 168, 255, 255>>)
           \/ Falls(a, <<127, 0, 0, 0>>, <<127, 255, 255, 255>>)
           \/ Falls(a, <<169, 254, 0, 0>>, <<169, 254, 255, 255>>)
           \/ Falls(a, <<100, 64, 0, 0>>, <<100, 127, 255, 255>>)
           \/ Falls(a, <<192, 0, 2, 0>>, <<192, 0, 2, 255>>)
           \/ Falls(a, <<198, 51, 100, 0>>, <<198, 51, 100, 255>>)
           \/ Falls(a, <<203, 0, 113, 0>>, <<203, 0, 113, 255>>)
           \/ Falls(a, <<192, 0, 0, 0>>, <<192, 0, 0, 255>>)
           \/ Falls(a, <<192, 88, 99, 0>>, <<192, 88, 99, 255>>)
           \/ Falls(a, <<198, 18, 0, 0>>, <<198, 19, 255, 255>>)
           \/ Falls(a, <<224, 0, 0, 0>>, <<255, 255, 255, 255>>)
           \/ Falls(a, Word6(0, 0), Last6(8191, Word))
           \/ Falls(a, Word6(16384, 0), Last6(Word, Word))
           \/ Falls(a, Word6(8193, 0), Last6(8193, 511))
           \/ Falls(a, Word6(8193, 3512), Last6(8193, 3512))
           \/ Falls(a, Word6(8194, 0), Last6(8194, Word))
           \/ Falls(a, Word6(16383, 0), Last6(16383, 4095))
<1>1. /\ \h1fff = 8191 /\ \h4000 = 16384 /\ \h2001 = 8193 /\ \h01ff = 511 /\ \h0db8 = 3512
      /\ \h2002 = 8194 /\ \h3fff = 16383 /\ \h0fff = 4095
  OBVIOUS
<1>2. \hffff = Word
  BY WordTop
<1>3. Special(a) <=> \E range \in SpecialRanges: Falls(a, range[1], range[2])
  BY DEF Special, Falls, InRange
<1>4. SpecialRanges =
        {<<<<0, 0, 0, 0>>, <<0, 255, 255, 255>>>>,
         <<<<10, 0, 0, 0>>, <<10, 255, 255, 255>>>>,
         <<<<172, 16, 0, 0>>, <<172, 31, 255, 255>>>>,
         <<<<192, 168, 0, 0>>, <<192, 168, 255, 255>>>>,
         <<<<127, 0, 0, 0>>, <<127, 255, 255, 255>>>>,
         <<<<169, 254, 0, 0>>, <<169, 254, 255, 255>>>>,
         <<<<100, 64, 0, 0>>, <<100, 127, 255, 255>>>>,
         <<<<192, 0, 2, 0>>, <<192, 0, 2, 255>>>>,
         <<<<198, 51, 100, 0>>, <<198, 51, 100, 255>>>>,
         <<<<203, 0, 113, 0>>, <<203, 0, 113, 255>>>>,
         <<<<192, 0, 0, 0>>, <<192, 0, 0, 255>>>>,
         <<<<192, 88, 99, 0>>, <<192, 88, 99, 255>>>>,
         <<<<198, 18, 0, 0>>, <<198, 19, 255, 255>>>>,
         <<<<224, 0, 0, 0>>, <<255, 255, 255, 255>>>>,
         <<Word6(0, 0), Last6(8191, Word)>>,
         <<Word6(16384, 0), Last6(Word, Word)>>,
         <<Word6(8193, 0), Last6(8193, 511)>>,
         <<Word6(8193, 3512), Last6(8193, 3512)>>,
         <<Word6(8194, 0), Last6(8194, Word)>>,
         <<Word6(16383, 0), Last6(16383, 4095)>>}
  BY <1>1, <1>2 DEF SpecialRanges
<1> QED BY <1>3, <1>4


LEMMA OctetsFirst ==
  ASSUME NEW a \in Octets
  PROVE  /\ InRange(a, <<224, 0, 0, 0>>, <<239, 255, 255, 255>>) <=> (224 <= a[1] /\ a[1] <= 239)
         /\ InRange(a, <<240, 0, 0, 0>>, <<255, 255, 255, 255>>) <=> 240 <= a[1]
         /\ InRange(a, <<224, 0, 0, 0>>, <<255, 255, 255, 255>>) <=> 224 <= a[1]
         /\ a[1] \in 0..255
<1>1. /\ <<224, 0, 0, 0>> \in Octets /\ <<240, 0, 0, 0>> \in Octets
      /\ <<239, 255, 255, 255>> \in Octets /\ <<255, 255, 255, 255>> \in Octets
  BY DEF Octets
<1>2. ASSUME NEW b \in Octets, \A i \in 2..4: b[i] = 0
      PROVE  AtMost(b, a) <=> b[1] <= a[1]
  <2>1. \A i \in 2..4: b[i] <= a[i]
    BY <1>2 DEF Octets
  <2>2. 4 \in Nat \ {0} /\ 255 \in Nat
    OBVIOUS
  <2> QED BY <2>1, <2>2, FirstPart DEF Octets
<1>3. ASSUME NEW b \in Octets, \A i \in 2..4: b[i] = 255
      PROVE  AtMost(a, b) <=> a[1] <= b[1]
  <2>1. \A i \in 2..4: a[i] <= b[i]
    BY <1>3 DEF Octets
  <2>2. 4 \in Nat \ {0} /\ 255 \in Nat
    OBVIOUS
  <2> QED BY <2>1, <2>2, FirstPart DEF Octets
<1>4. a[1] \in 0..255
  BY DEF Octets
<1>5. AtMost(<<224, 0, 0, 0>>, a) <=> 224 <= a[1]
  <2> DEFINE b == <<224, 0, 0, 0>>
  <2>1. b[1] = 224 /\ \A i \in 2..4: b[i] = 0
    OBVIOUS
  <2> HIDE DEF b
  <2>2. AtMost(b, a) <=> 224 <= a[1]
    BY <1>1, <1>2, <2>1 DEF b
  <2> QED BY <2>2 DEF b
<1>6. AtMost(<<240, 0, 0, 0>>, a) <=> 240 <= a[1]
  <2> DEFINE b == <<240, 0, 0, 0>>
  <2>1. b[1] = 240 /\ \A i \in 2..4: b[i] = 0
    OBVIOUS
  <2> HIDE DEF b
  <2>2. AtMost(b, a) <=> 240 <= a[1]
    BY <1>1, <1>2, <2>1 DEF b
  <2> QED BY <2>2 DEF b
<1>7. AtMost(a, <<239, 255, 255, 255>>) <=> a[1] <= 239
  <2> DEFINE b == <<239, 255, 255, 255>>
  <2>1. b[1] = 239 /\ \A i \in 2..4: b[i] = 255
    OBVIOUS
  <2> HIDE DEF b
  <2>2. AtMost(a, b) <=> a[1] <= 239
    BY <1>1, <1>3, <2>1 DEF b
  <2> QED BY <2>2 DEF b
<1>8. AtMost(a, <<255, 255, 255, 255>>) <=> a[1] <= 255
  <2> DEFINE b == <<255, 255, 255, 255>>
  <2>1. b[1] = 255 /\ \A i \in 2..4: b[i] = 255
    OBVIOUS
  <2> HIDE DEF b
  <2>2. AtMost(a, b) <=> a[1] <= 255
    BY <1>1, <1>3, <2>1 DEF b
  <2> QED BY <2>2 DEF b
<1> QED BY <1>4, <1>5, <1>6, <1>7, <1>8 DEF InRange

(* The same outside of 2000::/3, by the first word. *)
LEMMA WordsFirst ==
  ASSUME NEW a \in Words
  PROVE  /\ InRange(a, Word6(0, 0), Last6(8191, Word)) <=> a[1] <= 8191
         /\ InRange(a, Word6(16384, 0), Last6(Word, Word)) <=> 16384 <= a[1]
         /\ InRange(a, Word6(8192, 0), Last6(16383, Word)) <=> (8192 <= a[1] /\ a[1] <= 16383)
         /\ a[1] \in Int
<1>1. ASSUME NEW p \in 0..Word
      PROVE  /\ AtMost(Word6(p, 0), a) <=> p <= a[1]
             /\ AtMost(a, Last6(p, Word)) <=> a[1] <= p
  <2> DEFINE b == Word6(p, 0)
             c == Last6(p, Word)
  <2>1. b \in Words /\ b[1] = p /\ b[2] = 0 /\ \A i \in 3..8: b[i] = 0
    BY WordTop, WordEnds
  <2>2. c \in Words /\ c[1] = p /\ c[2] = Word /\ \A i \in 3..8: c[i] = Word
    BY WordTop, WordEnds
  <2> HIDE DEF b, c
  <2>3. \A i \in 2..8: a[i] \in 0..Word /\ b[i] = 0 /\ c[i] = Word
    BY <2>1, <2>2 DEF Words
  <2>4. \A i \in 2..8: b[i] <= a[i] /\ a[i] <= c[i]
    BY <2>3, WordIs
  <2>5. 8 \in Nat \ {0} /\ Word \in Nat
    BY WordIs
  <2>6. AtMost(b, a) <=> b[1] <= a[1]
    BY <2>1, <2>4, <2>5, FirstPart DEF Words
  <2>7. AtMost(a, c) <=> a[1] <= c[1]
    BY <2>2, <2>4, <2>5, FirstPart DEF Words
  <2> QED BY <2>1, <2>2, <2>6, <2>7 DEF b, c
<1>2. a[1] \in 0..Word
  BY DEF Words
<1>3. 0 \in 0..Word /\ 8191 \in 0..Word /\ 8192 \in 0..Word /\ 16383 \in 0..Word /\ 16384 \in 0..Word /\ Word \in 0..Word
  BY WordIs
<1>4. 0 <= a[1] /\ a[1] <= Word /\ a[1] \in Int
  BY <1>2, WordIs
<1> QED BY <1>1, <1>3, <1>4 DEF InRange

LEMMA Lengths ==
  \A p, q: Len(Word6(p, q)) = 8
  BY DEF Word6

LEMMA OctetsLength == ASSUME NEW a \in Octets PROVE Len(a) = 4
<1>1. a = <<a[1], a[2], a[3], a[4]>>
  BY DEF Octets
<1> QED BY <1>1, Lengths

LEMMA WordsLength == ASSUME NEW a \in Words PROVE Len(a) = 8
<1>1. a = <<a[1], a[2], a[3], a[4], a[5], a[6], a[7], a[8]>>
  BY DEF Words
<1>2. Len(<<a[1], a[2], a[3], a[4], a[5], a[6], a[7], a[8]>>) = 8
  OBVIOUS
<1> QED BY <1>1, <1>2

LEMMA Public4 ==
  ASSUME NEW a \in Octets
  PROVE  PublicV4(a) <=> ~Special(a)
<1>1. Len(a) = 4
  BY OctetsLength
<1>2. PublicV4(a) <=>
        /\ ~InRange(a, <<0, 0, 0, 0>>, <<0, 255, 255, 255>>)
        /\ ~InRange(a, <<10, 0, 0, 0>>, <<10, 255, 255, 255>>)
        /\ ~InRange(a, <<100, 64, 0, 0>>, <<100, 127, 255, 255>>)
        /\ ~InRange(a, <<127, 0, 0, 0>>, <<127, 255, 255, 255>>)
        /\ ~InRange(a, <<169, 254, 0, 0>>, <<169, 254, 255, 255>>)
        /\ ~InRange(a, <<172, 16, 0, 0>>, <<172, 31, 255, 255>>)
        /\ ~InRange(a, <<192, 0, 0, 0>>, <<192, 0, 0, 255>>)
        /\ ~InRange(a, <<192, 0, 2, 0>>, <<192, 0, 2, 255>>)
        /\ ~InRange(a, <<192, 88, 99, 0>>, <<192, 88, 99, 255>>)
        /\ ~InRange(a, <<192, 168, 0, 0>>, <<192, 168, 255, 255>>)
        /\ ~InRange(a, <<198, 18, 0, 0>>, <<198, 19, 255, 255>>)
        /\ ~InRange(a, <<198, 51, 100, 0>>, <<198, 51, 100, 255>>)
        /\ ~InRange(a, <<203, 0, 113, 0>>, <<203, 0, 113, 255>>)
        /\ ~InRange(a, <<224, 0, 0, 0>>, <<239, 255, 255, 255>>)
        /\ ~InRange(a, <<240, 0, 0, 0>>, <<255, 255, 255, 255>>)
  BY OctetsBlocks, Blocks4Listed DEF BlockIsRange
<1>3. Special(a) <=>
        \/ InRange(a, <<0, 0, 0, 0>>, <<0, 255, 255, 255>>)
        \/ InRange(a, <<10, 0, 0, 0>>, <<10, 255, 255, 255>>)
        \/ InRange(a, <<172, 16, 0, 0>>, <<172, 31, 255, 255>>)
        \/ InRange(a, <<192, 168, 0, 0>>, <<192, 168, 255, 255>>)
        \/ InRange(a, <<127, 0, 0, 0>>, <<127, 255, 255, 255>>)
        \/ InRange(a, <<169, 254, 0, 0>>, <<169, 254, 255, 255>>)
        \/ InRange(a, <<100, 64, 0, 0>>, <<100, 127, 255, 255>>)
        \/ InRange(a, <<192, 0, 2, 0>>, <<192, 0, 2, 255>>)
        \/ InRange(a, <<198, 51, 100, 0>>, <<198, 51, 100, 255>>)
        \/ InRange(a, <<203, 0, 113, 0>>, <<203, 0, 113, 255>>)
        \/ InRange(a, <<192, 0, 0, 0>>, <<192, 0, 0, 255>>)
        \/ InRange(a, <<192, 88, 99, 0>>, <<192, 88, 99, 255>>)
        \/ InRange(a, <<198, 18, 0, 0>>, <<198, 19, 255, 255>>)
        \/ InRange(a, <<224, 0, 0, 0>>, <<255, 255, 255, 255>>)
  <2>1. Falls(a, <<0, 0, 0, 0>>, <<0, 255, 255, 255>>) <=> InRange(a, <<0, 0, 0, 0>>, <<0, 255, 255, 255>>)
    BY <1>1 DEF Falls
  <2>2. Falls(a, <<10, 0, 0, 0>>, <<10, 255, 255, 255>>) <=> InRange(a, <<10, 0, 0, 0>>, <<10, 255, 255, 255>>)
    BY <1>1 DEF Falls
  <2>3. Falls(a, <<172, 16, 0, 0>>, <<172, 31, 255, 255>>) <=> InRange(a, <<172, 16, 0, 0>>, <<172, 31, 255, 255>>)
    BY <1>1 DEF Falls
  <2>4. Falls(a, <<192, 168, 0, 0>>, <<192, 168, 255, 255>>) <=> InRange(a, <<192, 168, 0, 0>>, <<192, 168, 255, 255>>)
    BY <1>1 DEF Falls
  <2>5. Falls(a, <<127, 0, 0, 0>>, <<127, 255, 255, 255>>) <=> InRange(a, <<127, 0, 0, 0>>, <<127, 255, 255, 255>>)
    BY <1>1 DEF Falls
  <2>6. Falls(a, <<169, 254, 0, 0>>, <<169, 254, 255, 255>>) <=> InRange(a, <<169, 254, 0, 0>>, <<169, 254, 255, 255>>)
    BY <1>1 DEF Falls
  <2>7. Falls(a, <<100, 64, 0, 0>>, <<100, 127, 255, 255>>) <=> InRange(a, <<100, 64, 0, 0>>, <<100, 127, 255, 255>>)
    BY <1>1 DEF Falls
  <2>8. Falls(a, <<192, 0, 2, 0>>, <<192, 0, 2, 255>>) <=> InRange(a, <<192, 0, 2, 0>>, <<192, 0, 2, 255>>)
    BY <1>1 DEF Falls
  <2>9. Falls(a, <<198, 51, 100, 0>>, <<198, 51, 100, 255>>) <=> InRange(a, <<198, 51, 100, 0>>, <<198, 51, 100, 255>>)
    BY <1>1 DEF Falls
  <2>10. Falls(a, <<203, 0, 113, 0>>, <<203, 0, 113, 255>>) <=> InRange(a, <<203, 0, 113, 0>>, <<203, 0, 113, 255>>)
    BY <1>1 DEF Falls
  <2>11. Falls(a, <<192, 0, 0, 0>>, <<192, 0, 0, 255>>) <=> InRange(a, <<192, 0, 0, 0>>, <<192, 0, 0, 255>>)
    BY <1>1 DEF Falls
  <2>12. Falls(a, <<192, 88, 99, 0>>, <<192, 88, 99, 255>>) <=> InRange(a, <<192, 88, 99, 0>>, <<192, 88, 99, 255>>)
    BY <1>1 DEF Falls
  <2>13. Falls(a, <<198, 18, 0, 0>>, <<198, 19, 255, 255>>) <=> InRange(a, <<198, 18, 0, 0>>, <<198, 19, 255, 255>>)
    BY <1>1 DEF Falls
  <2>14. Falls(a, <<224, 0, 0, 0>>, <<255, 255, 255, 255>>) <=> InRange(a, <<224, 0, 0, 0>>, <<255, 255, 255, 255>>)
    BY <1>1 DEF Falls
  <2>15. ~Falls(a, Word6(0, 0), Last6(8191, Word))
    BY <1>1, Lengths DEF Falls
  <2>16. ~Falls(a, Word6(16384, 0), Last6(Word, Word))
    BY <1>1, Lengths DEF Falls
  <2>17. ~Falls(a, Word6(8193, 0), Last6(8193, 511))
    BY <1>1, Lengths DEF Falls
  <2>18. ~Falls(a, Word6(8193, 3512), Last6(8193, 3512))
    BY <1>1, Lengths DEF Falls
  <2>19. ~Falls(a, Word6(8194, 0), Last6(8194, Word))
    BY <1>1, Lengths DEF Falls
  <2>20. ~Falls(a, Word6(16383, 0), Last6(16383, 4095))
    BY <1>1, Lengths DEF Falls
  <2> QED BY <2>1, <2>2, <2>3, <2>4, <2>5, <2>6, <2>7, <2>8, <2>9, <2>10, <2>11, <2>12, <2>13, <2>14, <2>15, <2>16, <2>17, <2>18, <2>19, <2>20, RangesListed
<1>4. InRange(a, <<224, 0, 0, 0>>, <<255, 255, 255, 255>>) <=>
        \/ InRange(a, <<224, 0, 0, 0>>, <<239, 255, 255, 255>>)
        \/ InRange(a, <<240, 0, 0, 0>>, <<255, 255, 255, 255>>)
  BY OctetsFirst
<1> QED BY <1>2, <1>3, <1>4

LEMMA Public6 ==
  ASSUME NEW a \in Words
  PROVE  PublicV6(a) <=> ~Special(a)
<1>1. Len(a) = 8
  BY WordsLength
<1>2. PublicV6(a) <=>
        /\ InRange(a, Word6(8192, 0), Last6(16383, Word))
        /\ ~InRange(a, Word6(8193, 0), Last6(8193, 511))
        /\ ~InRange(a, Word6(8193, 3512), Last6(8193, 3512))
        /\ ~InRange(a, Word6(8194, 0), Last6(8194, Word))
        /\ ~InRange(a, Word6(16383, 0), Last6(16383, 4095))
  BY WordsBlocks, Blocks6Listed DEF BlockIsRange
<1>3. Special(a) <=>
        \/ InRange(a, Word6(0, 0), Last6(8191, Word))
        \/ InRange(a, Word6(16384, 0), Last6(Word, Word))
        \/ InRange(a, Word6(8193, 0), Last6(8193, 511))
        \/ InRange(a, Word6(8193, 3512), Last6(8193, 3512))
        \/ InRange(a, Word6(8194, 0), Last6(8194, Word))
        \/ InRange(a, Word6(16383, 0), Last6(16383, 4095))
  <2>1. ~Falls(a, <<0, 0, 0, 0>>, <<0, 255, 255, 255>>)
    BY <1>1 DEF Falls
  <2>2. ~Falls(a, <<10, 0, 0, 0>>, <<10, 255, 255, 255>>)
    BY <1>1 DEF Falls
  <2>3. ~Falls(a, <<172, 16, 0, 0>>, <<172, 31, 255, 255>>)
    BY <1>1 DEF Falls
  <2>4. ~Falls(a, <<192, 168, 0, 0>>, <<192, 168, 255, 255>>)
    BY <1>1 DEF Falls
  <2>5. ~Falls(a, <<127, 0, 0, 0>>, <<127, 255, 255, 255>>)
    BY <1>1 DEF Falls
  <2>6. ~Falls(a, <<169, 254, 0, 0>>, <<169, 254, 255, 255>>)
    BY <1>1 DEF Falls
  <2>7. ~Falls(a, <<100, 64, 0, 0>>, <<100, 127, 255, 255>>)
    BY <1>1 DEF Falls
  <2>8. ~Falls(a, <<192, 0, 2, 0>>, <<192, 0, 2, 255>>)
    BY <1>1 DEF Falls
  <2>9. ~Falls(a, <<198, 51, 100, 0>>, <<198, 51, 100, 255>>)
    BY <1>1 DEF Falls
  <2>10. ~Falls(a, <<203, 0, 113, 0>>, <<203, 0, 113, 255>>)
    BY <1>1 DEF Falls
  <2>11. ~Falls(a, <<192, 0, 0, 0>>, <<192, 0, 0, 255>>)
    BY <1>1 DEF Falls
  <2>12. ~Falls(a, <<192, 88, 99, 0>>, <<192, 88, 99, 255>>)
    BY <1>1 DEF Falls
  <2>13. ~Falls(a, <<198, 18, 0, 0>>, <<198, 19, 255, 255>>)
    BY <1>1 DEF Falls
  <2>14. ~Falls(a, <<224, 0, 0, 0>>, <<255, 255, 255, 255>>)
    BY <1>1 DEF Falls
  <2>15. Falls(a, Word6(0, 0), Last6(8191, Word)) <=> InRange(a, Word6(0, 0), Last6(8191, Word))
    BY <1>1, Lengths DEF Falls
  <2>16. Falls(a, Word6(16384, 0), Last6(Word, Word)) <=> InRange(a, Word6(16384, 0), Last6(Word, Word))
    BY <1>1, Lengths DEF Falls
  <2>17. Falls(a, Word6(8193, 0), Last6(8193, 511)) <=> InRange(a, Word6(8193, 0), Last6(8193, 511))
    BY <1>1, Lengths DEF Falls
  <2>18. Falls(a, Word6(8193, 3512), Last6(8193, 3512)) <=> InRange(a, Word6(8193, 3512), Last6(8193, 3512))
    BY <1>1, Lengths DEF Falls
  <2>19. Falls(a, Word6(8194, 0), Last6(8194, Word)) <=> InRange(a, Word6(8194, 0), Last6(8194, Word))
    BY <1>1, Lengths DEF Falls
  <2>20. Falls(a, Word6(16383, 0), Last6(16383, 4095)) <=> InRange(a, Word6(16383, 0), Last6(16383, 4095))
    BY <1>1, Lengths DEF Falls
  <2> QED BY <2>1, <2>2, <2>3, <2>4, <2>5, <2>6, <2>7, <2>8, <2>9, <2>10, <2>11, <2>12, <2>13, <2>14, <2>15, <2>16, <2>17, <2>18, <2>19, <2>20, RangesListed
<1>4. InRange(a, Word6(8192, 0), Last6(16383, Word)) <=>
        ~(InRange(a, Word6(0, 0), Last6(8191, Word)) \/ InRange(a, Word6(16384, 0), Last6(Word, Word)))
  BY WordsFirst
<1> QED BY <1>2, <1>3, <1>4

LEMMA AddressesAre == Addresses = Octets \cup Words
  BY DEF Addresses, Octets, Words, Word

\* The masks exclude the special ranges, all of them and nothing else, among all
\* addresses of both families (is_public_address).
THEOREM AddressesExact ==
  ASSUME NEW a \in Addresses
  PROVE  IsPublicAddress(a) <=> ~Special(a)
<1>1. a \in Octets \/ a \in Words
  BY AddressesAre
<1>2. CASE a \in Octets
  BY <1>2, OctetsLength, Public4 DEF IsPublicAddress
<1>3. CASE a \in Words
  BY <1>3, WordsLength, Public6 DEF IsPublicAddress
<1> QED BY <1>1, <1>2, <1>3

\* An answer of the resolver is admitted as the reference admits it.
LEMMA AnswersExact ==
  ASSUME NEW addresses \in Seq(Addresses)
  PROVE  Admits(addresses) <=> AcceptableAnswer(addresses)
<1>1. Filter.addresses = GlobalRules.addresses \cup WorkspaceRules.addresses
  BY DEF Filter
<1>2. Len(addresses) \in 1..MAX_DNS_ADDRESSES <=> (addresses # <<>> /\ Len(addresses) <= MAX_DNS_ADDRESSES)
  BY LimitsAssumption
<1>3. \A i \in DOMAIN addresses: IsPublicAddress(addresses[i]) <=> ~Special(addresses[i])
  BY AddressesExact
<1>4. \A address: address \in Range(addresses) <=> \E i \in DOMAIN addresses: addresses[i] = address
  BY DEF Range
<1>5. (\A address \in Range(addresses): AcceptableAddress(address)) <=>
        \A i \in DOMAIN addresses: AcceptableAddress(addresses[i])
  BY <1>4
<1> QED BY <1>1, <1>2, <1>3, <1>5 DEF Admits, AcceptableAnswer, AcceptableAddress

-------------------------------------------------------------------------------
(* Subsequences *)

LEMMA WithinEmpty ==
  ASSUME NEW whole, NEW n \in Nat
  PROVE  Within(<<>>, whole, n)
<1> DEFINE at == [i \in DOMAIN <<>> |-> 1]
<1>1. DOMAIN <<>> = {}
  OBVIOUS
<1>2. at \in [DOMAIN <<>> -> 1..n]
  BY <1>1
<1> QED BY <1>1, <1>2 DEF Within

LEMMA WithinWider ==
  ASSUME NEW part, NEW whole, NEW n \in Nat, NEW m \in Nat, n <= m, Within(part, whole, n)
  PROVE  Within(part, whole, m)
<1>1. PICK at \in [DOMAIN part -> 1..n]:
        /\ \A i \in DOMAIN part: part[i] = whole[at[i]]
        /\ \A i, j \in DOMAIN part: i < j => at[i] < at[j]
  BY DEF Within
<1>2. at \in [DOMAIN part -> 1..m]
  OBVIOUS
<1> QED BY <1>1, <1>2 DEF Within

LEMMA WithinAppend ==
  ASSUME NEW S, NEW part \in Seq(S), NEW whole \in Seq(S), NEW n \in 1..Len(whole), Within(part, whole, n - 1)
  PROVE  Within(Append(part, whole[n]), whole, n)
<1> DEFINE longer == Append(part, whole[n])
           len == Len(part)
<1>1. PICK at \in [DOMAIN part -> 1..n - 1]:
        /\ \A i \in DOMAIN part: part[i] = whole[at[i]]
        /\ \A i, j \in DOMAIN part: i < j => at[i] < at[j]
  BY DEF Within
<1>2. len \in Nat /\ DOMAIN part = 1..len /\ whole[n] \in S
  OBVIOUS
<1>3. DOMAIN longer = 1..len + 1 /\ longer[len + 1] = whole[n] /\ \A i \in 1..len: longer[i] = part[i]
  BY <1>2
<1> HIDE DEF longer, len
<1> DEFINE at2 == [i \in 1..len + 1 |-> IF i <= len THEN at[i] ELSE n]
<1>4. \A i \in 1..len: at[i] \in 1..n - 1 /\ at2[i] = at[i]
  BY <1>2
<1>5. at2[len + 1] = n
  BY <1>2
<1>6. \A i \in 1..len + 1: i \in 1..len \/ i = len + 1
  BY <1>2
<1>7. at2 \in [DOMAIN longer -> 1..n]
  BY <1>2, <1>3, <1>4, <1>5, <1>6
<1> HIDE DEF at2
<1>8. ASSUME NEW i \in DOMAIN longer PROVE longer[i] = whole[at2[i]]
  BY <1>1, <1>2, <1>3, <1>4, <1>5, <1>6
<1>9. ASSUME NEW i \in DOMAIN longer, NEW j \in DOMAIN longer, i < j PROVE at2[i] < at2[j]
  <2>1. i \in 1..len
    BY <1>2, <1>3, <1>9
  <2>2. CASE j \in 1..len
    BY <2>1, <2>2, <1>1, <1>2, <1>4, <1>9
  <2>3. CASE j = len + 1
    <3>1. at2[i] \in 1..n - 1
      BY <2>1, <1>4
    <3> QED BY <3>1, <2>3, <1>5
  <2> QED BY <2>2, <2>3, <1>3, <1>6
<1>10. Within(longer, whole, n)
  BY <1>7, <1>8, <1>9 DEF Within
<1> QED BY <1>10 DEF longer

-------------------------------------------------------------------------------
(* Elements taken once, in any order *)

LEMMA StandEmpty ==
  ASSUME NEW whole, NEW S
  PROVE  Stand(<<>>, whole, S)
<1> DEFINE at == [i \in DOMAIN <<>> |-> 1]
<1>1. DOMAIN <<>> = {}
  OBVIOUS
<1>2. at \in [DOMAIN <<>> -> S]
  BY <1>1
<1> QED BY <1>1, <1>2 DEF Stand

LEMMA StandWider ==
  ASSUME NEW part, NEW whole, NEW S, NEW T, S \subseteq T, Stand(part, whole, S)
  PROVE  Stand(part, whole, T)
<1>1. PICK at \in [DOMAIN part -> S]:
        /\ \A i \in DOMAIN part: part[i] = whole[at[i]]
        /\ \A i, j \in DOMAIN part: i # j => at[i] # at[j]
  BY DEF Stand
<1>2. at \in [DOMAIN part -> T]
  OBVIOUS
<1> QED BY <1>1, <1>2 DEF Stand

LEMMA StandLonger ==
  ASSUME NEW D, NEW part, NEW whole \in Seq(D), NEW e \in D, NEW S \in SUBSET (1..Len(whole)),
         Stand(part, whole, S)
  PROVE  Stand(part, Append(whole, e), S)
<1>1. PICK at \in [DOMAIN part -> S]:
        /\ \A i \in DOMAIN part: part[i] = whole[at[i]]
        /\ \A i, j \in DOMAIN part: i # j => at[i] # at[j]
  BY DEF Stand
<1>2. \A k \in S: Append(whole, e)[k] = whole[k]
  OBVIOUS
<1>3. \A i \in DOMAIN part: part[i] = Append(whole, e)[at[i]]
  BY <1>1, <1>2
<1> QED BY <1>1, <1>3 DEF Stand

LEMMA StandAppend ==
  ASSUME NEW D, NEW part \in Seq(D), NEW whole \in Seq(D), NEW S \in SUBSET (1..Len(whole)),
         NEW n \in 1..Len(whole), n \notin S, Stand(part, whole, S)
  PROVE  Stand(Append(part, whole[n]), whole, S \cup {n})
<1> DEFINE longer == Append(part, whole[n])
           len == Len(part)
<1>1. PICK at \in [DOMAIN part -> S]:
        /\ \A i \in DOMAIN part: part[i] = whole[at[i]]
        /\ \A i, j \in DOMAIN part: i # j => at[i] # at[j]
  BY DEF Stand
<1>2. len \in Nat /\ DOMAIN part = 1..len /\ whole[n] \in D
  OBVIOUS
<1>3. DOMAIN longer = 1..len + 1 /\ longer[len + 1] = whole[n] /\ \A i \in 1..len: longer[i] = part[i]
  BY <1>2
<1> HIDE DEF longer, len
<1> DEFINE at2 == [i \in 1..len + 1 |-> IF i <= len THEN at[i] ELSE n]
<1>4. \A i \in 1..len: at[i] \in S /\ at2[i] = at[i]
  BY <1>2
<1>5. at2[len + 1] = n
  BY <1>2
<1>6. \A i \in 1..len + 1: i \in 1..len \/ i = len + 1
  BY <1>2
<1>7. at2 \in [DOMAIN longer -> S \cup {n}]
  BY <1>2, <1>3, <1>4, <1>5, <1>6
<1> HIDE DEF at2
<1>8. ASSUME NEW i \in DOMAIN longer PROVE longer[i] = whole[at2[i]]
  BY <1>1, <1>2, <1>3, <1>4, <1>5, <1>6
<1>9. ASSUME NEW i \in DOMAIN longer, NEW j \in DOMAIN longer, i # j PROVE at2[i] # at2[j]
  <2>1. CASE i \in 1..len /\ j \in 1..len
    BY <2>1, <1>1, <1>2, <1>4, <1>9
  <2>2. CASE i = len + 1
    <3>1. j \in 1..len
      BY <2>2, <1>3, <1>6, <1>9
    <3> QED BY <2>2, <3>1, <1>4, <1>5
  <2>3. CASE j = len + 1
    <3>1. i \in 1..len
      BY <2>3, <1>3, <1>6, <1>9
    <3> QED BY <2>3, <3>1, <1>4, <1>5
  <2> QED BY <2>1, <2>2, <2>3, <1>3, <1>6
<1>10. Stand(longer, whole, S \cup {n})
  BY <1>7, <1>8, <1>9 DEF Stand
<1> QED BY <1>10 DEF longer

-------------------------------------------------------------------------------
(* The links a message may hold *)

LEMMA HostsTyped == ASSUME NEW host \in Hosts PROVE IsHost(host)
  BY MessagesAssumption DEF Hosts

LEMMA StorableLinks ==
  ASSUME NEW s \in Seq(Storable)
  PROVE  s \in Seq(Links) /\ \A i \in 1..Len(s): s[i] \in Links /\ Size(s[i].path) <= MAX_URL_BYTES
<1>1. Storable \subseteq Links /\ \A link \in Storable: Size(link.path) <= MAX_URL_BYTES
  BY DEF Storable
<1>2. \A i \in 1..Len(s): s[i] \in Storable
  OBVIOUS
<1>3. s \in Seq(Links)
  BY <1>1
<1> QED BY <1>1, <1>2, <1>3

\* What is known of the URL at hand.
LEMMA UrlTyped ==
  ASSUME TypeOK, next <= Len(urls)
  PROVE  Url \in Links /\ IsHost(Url.host) /\ next \in 1..Len(urls)
<1>1. next \in 1..Len(urls) /\ Url \in Links
  BY DEF TypeOK, Url
<1>2. Url.host \in Hosts
  BY <1>1 DEF Links
<1> QED BY <1>1, <1>2, HostsTyped

LEMMA HostExact ==
  ASSUME NEW host, IsHost(host), host.kind = "name"
  PROVE  AcceptableHost(host) <=> (DnsName(host.labels) # <<>> /\ ~BlocksDomain(DnsName(host.labels)))
<1>1. host.labels \in Seq(Labels) \ {<<>>, <<"">>}
  BY DEF IsHost, Labels
<1>2. AcceptableHost(host) <=> AcceptableName(host.labels)
  BY DEF AcceptableHost
<1> QED BY <1>1, <1>2, NamesExact

LEMMA LiteralExact ==
  ASSUME NEW host, IsHost(host), host.kind = "ip"
  PROVE  AcceptableHost(host) /\ <<host.address>> \in Seq(Addresses)
<1>1. host.address \in Addresses
  BY DEF IsHost
<1> QED BY <1>1 DEF AcceptableHost

-------------------------------------------------------------------------------
(* The steps *)

LEMMA ExtractsOnceNext ==
  ExtractsOnce' <=> (phase' \in {"checking", "resolving", "inserting"} => urls' = Expected(message'.captures))
  BY DEF ExtractsOnce, Expected, LinkOf

\* No statement is under way.
LEMMA SettledIdle ==
  /\ phase # "inserting" => Settled = (1..Len(admitted)) \ pending
  /\ phase' # "inserting" => Settled' = (1..Len(admitted')) \ pending'
  BY DEF Settled

LEMMA SettledBusy ==
  /\ phase = "inserting" => Settled = (1..Len(admitted)) \ (pending \cup {Len(admitted)})
  /\ phase' = "inserting" => Settled' = (1..Len(admitted')) \ (pending' \cup {Len(admitted')})
  BY DEF Settled

\* A URL that is excluded leaves nothing but its verdict.
LEMMA ExcludedKeeps ==
  ASSUME Inv, phase \in {"checking", "resolving"}, next <= Len(urls),
         NEW asked \in BOOLEAN, NEW resolved, Excluded(asked, resolved),
         asked <=> AcceptableHost(Url.host), ~(asked /\ AcceptableAnswer(resolved))
  PROVE  Inv'
<1>1. /\ phase' = "checking" /\ next' = next + 1
      /\ message' = message /\ dryRun' = dryRun /\ urls' = urls /\ failed' = failed
      /\ rows' = rows /\ pending' = pending /\ receipt' = receipt /\ admitted' = admitted
  BY DEF Excluded
<1>2. TypeOK /\ InOrder /\ Complete
  BY DEF Inv
<1>3. next \in 1..Len(urls) /\ urls \in Seq(Links) /\ admitted \in Seq(Links)
  BY <1>2 DEF TypeOK
<1>4. TypeOK'
  <2>1. next' \in 1..Len(urls') + 1
    BY <1>1, <1>3
  <2> QED BY <1>1, <1>2, <2>1 DEF TypeOK
<1>5. Untouched' /\ Current'
  BY <1>1 DEF Untouched, Current
<1>6. InOrder'
  <2>1. Within(admitted, urls, next - 1) /\ Within(admitted, urls, Len(urls))
    BY <1>2 DEF InOrder
  <2>2. next - 1 \in Nat /\ next \in Nat /\ next - 1 <= next
    BY <1>3
  <2>3. Within(admitted, urls, next)
    BY <2>1, <2>2, WithinWider
  <2>4. next' - 1 = next
    BY <1>1, <1>3
  <2>5. (dryRun => rows = <<>> /\ pending = {}) /\ Stand(rows, admitted, Settled)
    BY <1>2 DEF InOrder
  <2>6. Settled' = Settled
    BY <1>1, SettledIdle
  <2> QED BY <1>1, <2>1, <2>3, <2>4, <2>5, <2>6 DEF InOrder
<1>7. Complete'
  BY <1>1, <1>2 DEF Complete, ReceiptHonest
<1>8. ExtractsOnce'
  <2>1. urls = Expected(message.captures)
    BY ExtractsOnceExpected DEF Inv
  <2> QED BY <1>1, <2>1, ExtractsOnceNext
<1>9. PolicyExact'
  <2>1. verdict' = [url |-> Url, asked |-> asked, resolved |-> resolved, admitted |-> FALSE]
    BY DEF Excluded, Judged
  <2>2. /\ verdict'.url = Url /\ verdict'.asked = asked
        /\ verdict'.resolved = resolved /\ verdict'.admitted = FALSE
    BY <2>1
  <2> QED BY <2>2 DEF PolicyExact
<1> QED BY <1>4, <1>5, <1>6, <1>7, <1>8, <1>9 DEF Inv

\* A URL that is admitted goes to the database, unless the run is dry.
LEMMA AdmittedKeeps ==
  ASSUME Inv, phase \in {"checking", "resolving"}, next <= Len(urls),
         NEW resolved, Admitted(resolved), AcceptableHost(Url.host), AcceptableAnswer(resolved)
  PROVE  Inv'
<1>1. /\ message' = message /\ dryRun' = dryRun /\ urls' = urls /\ failed' = failed
      /\ rows' = rows /\ pending' = pending /\ receipt' = receipt
      /\ admitted' = Append(admitted, Url)
      /\ dryRun => next' = next + 1 /\ phase' = "checking"
      /\ ~dryRun => next' = next /\ phase' = "inserting"
  BY DEF Admitted
<1>2. TypeOK /\ InOrder /\ Complete /\ dryRun \in BOOLEAN
  BY DEF Inv, TypeOK
<1>3. /\ next \in 1..Len(urls) /\ urls \in Seq(Links)
      /\ admitted \in Seq(Links) /\ rows \in Seq(Links) /\ Url \in Links
  BY <1>2, UrlTyped DEF TypeOK
<1>4. /\ admitted' \in Seq(Links) /\ admitted' # <<>> /\ Last(admitted') = Url
      /\ Front(admitted') = admitted /\ Len(admitted') = Len(admitted) + 1
  BY <1>1, <1>3, AppendFacts
<1>5. TypeOK'
  <2>1. next' \in 1..Len(urls') + 1
    BY <1>1, <1>2, <1>3
  <2>2. phase' \in {"checking", "inserting"}
    BY <1>1, <1>2
  <2>3. pending' \in SUBSET (1..Len(admitted'))
    <3>1. Len(admitted) \in Nat /\ pending \in SUBSET (1..Len(admitted))
      BY <1>2, <1>3 DEF TypeOK
    <3> QED BY <1>1, <1>4, <3>1
  <2> QED BY <1>1, <1>2, <1>4, <2>1, <2>2, <2>3 DEF TypeOK
<1>6. Untouched' /\ Current'
  <2>1. Url' = Url \/ phase' = "checking"
    BY <1>1, <1>2 DEF Url
  <2> QED BY <1>1, <1>2, <1>3, <1>4, <2>1 DEF Untouched, Current
<1>7. InOrder'
  <2>1. Within(admitted, urls, next - 1)
    BY <1>2 DEF InOrder
  <2>2. Within(admitted', urls, next)
    BY <2>1, <1>1, <1>3, WithinAppend DEF Url
  <2>3. next \in Nat /\ Len(urls) \in Nat /\ next <= Len(urls)
    BY <1>3
  <2>4. Within(admitted', urls, Len(urls))
    BY <2>2, <2>3, WithinWider
  <2>5. (dryRun => rows = <<>> /\ pending = {}) /\ Stand(rows, admitted, Settled)
    BY <1>2 DEF InOrder
  <2>6. /\ Settled = (1..Len(admitted)) \ pending
        /\ Len(admitted) \in Nat /\ pending \in SUBSET (1..Len(admitted))
    BY <1>2, <1>3, SettledIdle DEF TypeOK
  <2>7. Stand(rows, admitted', Settled)
    <3>1. Settled \in SUBSET (1..Len(admitted))
      BY <2>6
    <3> QED BY <2>5, <3>1, <1>1, <1>3, StandLonger
  <2>8. Settled \subseteq Settled' /\ Len(admitted') \notin pending
    <3>1. Settled \subseteq (1..Len(admitted')) \ (pending \cup {Len(admitted')})
      BY <2>6, <1>4
    <3>2. phase' = "checking" \/ phase' = "inserting"
      BY <1>1, <1>2
    <3>3. Len(admitted') \notin pending
      BY <2>6, <1>4
    <3> QED BY <3>1, <3>2, <3>3, <1>1, SettledIdle, SettledBusy
  <2>9. Stand(rows, admitted', Settled')
    BY <2>7, <2>8, StandWider
  <2>10. dryRun => next' - 1 = next
    BY <1>1, <1>3
  <2> QED BY <1>1, <1>2, <2>2, <2>4, <2>5, <2>8, <2>9, <2>10 DEF InOrder
<1>8. Complete'
  <2>1. (~failed /\ ~dryRun => rows = admitted) /\ (~failed => pending = {})
    BY <1>2 DEF Complete
  <2>2. receipt = "none"
    BY <1>2 DEF Complete
  <2> QED BY <1>1, <1>2, <1>4, <2>1, <2>2 DEF Complete, ReceiptHonest
<1>9. ExtractsOnce'
  <2>1. urls = Expected(message.captures)
    BY ExtractsOnceExpected DEF Inv
  <2> QED BY <1>1, <2>1, ExtractsOnceNext
<1>10. PolicyExact'
  <2>1. verdict' = [url |-> Url, asked |-> TRUE, resolved |-> resolved, admitted |-> TRUE]
    BY DEF Admitted, Judged
  <2>2. /\ verdict'.url = Url /\ verdict'.asked = TRUE
        /\ verdict'.resolved = resolved /\ verdict'.admitted = TRUE
    BY <2>1
  <2> QED BY <2>2 DEF PolicyExact
<1> QED BY <1>5, <1>6, <1>7, <1>8, <1>9, <1>10 DEF Inv

\* Whatever the resolver answers.
LEMMA ResolvedKeeps ==
  ASSUME Inv, phase \in {"checking", "resolving"}, next <= Len(urls),
         NEW addresses \in Seq(Addresses), Resolved(addresses), AcceptableHost(Url.host)
  PROVE  Inv'
<1>1. CASE Admits(addresses)
  BY <1>1, AnswersExact, AdmittedKeeps DEF Resolved
<1>2. CASE ~Admits(addresses)
  <2>1. Excluded(TRUE, addresses) /\ ~AcceptableAnswer(addresses)
    BY <1>2, AnswersExact DEF Resolved
  <2> QED BY <2>1, ExcludedKeeps
<1> QED BY <1>1, <1>2

\* A row is added when its insert succeeds.
LEMMA RowAdded ==
  ASSUME Inv, phase = "inserting", AddRow
  PROVE  /\ rows' \in Seq(Links)
         /\ Stand(rows', admitted, (1..Len(admitted)) \ pending)
         /\ ~failed => rows' = admitted
<1>1. TypeOK /\ Current /\ InOrder /\ Complete
  BY DEF Inv
<1>2. ~dryRun /\ admitted # <<>> /\ Last(admitted) = Url /\ next <= Len(urls)
  BY <1>1 DEF Current
<1>3. rows' = Append(rows, Url) /\ rows \in Seq(Links) /\ admitted \in Seq(Links) /\ Url \in Links
  BY <1>1, <1>2, UrlTyped DEF AddRow, TypeOK
<1>4. Len(admitted) \in 1..Len(admitted) /\ Url = admitted[Len(admitted)]
  BY <1>2, <1>3 DEF Last
<1>5. Stand(rows, admitted, Settled) /\ Len(admitted) \notin pending
  BY <1>1 DEF InOrder
<1>6. Settled = (1..Len(admitted)) \ (pending \cup {Len(admitted)})
  BY SettledBusy
<1>7. Settled \in SUBSET (1..Len(admitted)) /\ Len(admitted) \notin Settled
  BY <1>6
<1>8. Stand(rows', admitted, Settled \cup {Len(admitted)})
  BY <1>3, <1>4, <1>5, <1>7, StandAppend
<1>9. Settled \cup {Len(admitted)} = (1..Len(admitted)) \ pending
  BY <1>4, <1>5, <1>6
<1>10. ~failed => rows = Front(admitted)
  BY <1>1, <1>2 DEF Complete
<1>11. Append(Front(admitted), Last(admitted)) = admitted
  BY <1>2, <1>3 DEF Front, Last
<1>12. ~failed => rows' = admitted
  BY <1>2, <1>3, <1>10, <1>11
<1>13. rows' \in Seq(Links)
  BY <1>3
<1> QED BY <1>8, <1>9, <1>12, <1>13

\* Nobody waits for the statement under way any more.
LEMMA RowAbandoned ==
  ASSUME Inv, phase = "inserting", Abandoned
  PROVE  /\ pending' \in SUBSET (1..Len(admitted))
         /\ Stand(rows, admitted, (1..Len(admitted)) \ pending')
<1>1. /\ Stand(rows, admitted, Settled)
      /\ Settled = (1..Len(admitted)) \ (pending \cup {Len(admitted)})
  BY SettledBusy DEF Inv, InOrder
<1>2. admitted \in Seq(Links) /\ admitted # <<>> /\ pending \in SUBSET (1..Len(admitted))
  BY DEF Inv, TypeOK, Current
<1>3. Len(admitted) \in 1..Len(admitted)
  BY <1>2
<1>4. pending' = pending \/ pending' = pending \cup {Len(admitted)}
  BY DEF Abandoned
<1>5. Settled \subseteq (1..Len(admitted)) \ pending'
  BY <1>1, <1>4
<1>6. Stand(rows, admitted, (1..Len(admitted)) \ pending')
  BY <1>1, <1>5, StandWider
<1> QED BY <1>2, <1>3, <1>4, <1>6

\* The insert is over, and if the row is not there the message failed.
LEMMA InsertedKeeps ==
  ASSUME Inv, phase = "inserting", NextUrl, failed' \in BOOLEAN,
         \/ AddRow /\ pending' = pending /\ failed' = failed
         \/ rows' = rows /\ Abandoned /\ failed',
         UNCHANGED <<message, dryRun, urls, receipt, admitted, verdict>>
  PROVE  Inv'
<1>1. /\ phase' = "checking" /\ next' = next + 1
      /\ message' = message /\ dryRun' = dryRun /\ urls' = urls
      /\ receipt' = receipt /\ admitted' = admitted /\ verdict' = verdict
  BY DEF NextUrl
<1>2. TypeOK /\ Current /\ InOrder /\ Complete /\ PolicyExact /\ failed \in BOOLEAN
  BY DEF Inv, TypeOK
<1>3. /\ ~dryRun /\ next \in 1..Len(urls) /\ rows \in Seq(Links)
      /\ pending \in SUBSET (1..Len(admitted))
  BY <1>2 DEF Current, TypeOK
<1>4. /\ rows' \in Seq(Links) /\ pending' \in SUBSET (1..Len(admitted))
      /\ Stand(rows', admitted, (1..Len(admitted)) \ pending')
      /\ ~failed' => rows' = admitted /\ pending' = {}
  <2>1. CASE AddRow /\ pending' = pending /\ failed' = failed
    <3>1. ~failed => pending = {}
      BY <1>2 DEF Complete
    <3> QED BY <1>3, <2>1, <3>1, RowAdded
  <2>2. CASE rows' = rows /\ Abandoned /\ failed'
    BY <1>3, <2>2, RowAbandoned
  <2> QED BY <2>1, <2>2
<1>5. TypeOK'
  <2>1. next' \in 1..Len(urls') + 1
    BY <1>1, <1>3
  <2> QED BY <1>1, <1>2, <1>4, <2>1 DEF TypeOK
<1>6. Untouched' /\ Current'
  BY <1>1 DEF Untouched, Current
<1>7. InOrder'
  <2>1. Within(admitted, urls, next) /\ Within(admitted, urls, Len(urls))
    BY <1>2 DEF InOrder
  <2>2. next' - 1 = next
    BY <1>1, <1>3
  <2>3. Stand(rows', admitted', Settled')
    BY <1>1, <1>4, SettledIdle
  <2> QED BY <1>1, <1>3, <2>1, <2>2, <2>3 DEF InOrder
<1>8. Complete'
  <2>1. receipt = "none"
    BY <1>2 DEF Complete
  <2> QED BY <1>1, <1>4, <2>1 DEF Complete, ReceiptHonest
<1>9. ExtractsOnce'
  <2>1. urls = Expected(message.captures)
    BY ExtractsOnceExpected DEF Inv
  <2> QED BY <1>1, <2>1, ExtractsOnceNext
<1>10. PolicyExact'
  BY <1>1, <1>2 DEF PolicyExact
<1> QED BY <1>5, <1>6, <1>7, <1>8, <1>9, <1>10 DEF Inv

\* An abandoned statement commits late: its message failed, or was given up.
LEMMA LateRowKeeps ==
  ASSUME Inv, NEW n \in pending, LateRow(n)
  PROVE  Inv'
<1>1. /\ rows' = Append(rows, admitted[n]) /\ pending' = pending \ {n}
      /\ message' = message /\ dryRun' = dryRun /\ phase' = phase /\ urls' = urls /\ next' = next
      /\ failed' = failed /\ receipt' = receipt /\ admitted' = admitted /\ verdict' = verdict
  BY DEF LateRow
<1>2. TypeOK /\ Untouched /\ Current /\ InOrder /\ Complete /\ PolicyExact
  BY DEF Inv
<1>3. /\ rows \in Seq(Links) /\ admitted \in Seq(Links)
      /\ pending \in SUBSET (1..Len(admitted)) /\ n \in 1..Len(admitted)
  BY <1>2 DEF TypeOK
<1>4. ~dryRun /\ (failed \/ phase = "done") /\ receipt # "ok"
  BY <1>2 DEF InOrder, Complete
<1>5. admitted[n] \in Links /\ rows' \in Seq(Links)
  BY <1>1, <1>3
<1>6. TypeOK'
  BY <1>1, <1>2, <1>3, <1>5 DEF TypeOK
<1>7. Untouched'
  <2>1. admitted # <<>>
    BY <1>3
  <2> QED BY <1>1, <1>2, <2>1 DEF Untouched
<1>8. Current'
  <2>1. Url' = Url
    BY <1>1 DEF Url
  <2> QED BY <1>1, <1>2, <2>1 DEF Current
<1>9. InOrder'
  <2>1. Stand(rows, admitted, Settled)
    BY <1>2 DEF InOrder
  <2>2. Settled \in SUBSET (1..Len(admitted)) /\ n \notin Settled
    BY DEF Settled
  <2>3. Stand(rows', admitted, Settled \cup {n})
    BY <1>1, <1>3, <2>1, <2>2, StandAppend
  <2>4. Settled \cup {n} = Settled'
    <3>1. CASE phase = "inserting"
      <4>1. n # Len(admitted)
        BY <1>2, <3>1 DEF InOrder
      <4> QED BY <1>1, <1>3, <3>1, <4>1, SettledBusy
    <3>2. CASE phase # "inserting"
      BY <1>1, <1>3, <3>2, SettledIdle
    <3> QED BY <3>1, <3>2
  <2>5. Stand(rows', admitted', Settled')
    BY <1>1, <2>3, <2>4
  <2> QED BY <1>1, <1>2, <1>4, <2>5 DEF InOrder
<1>10. Complete'
  BY <1>1, <1>2, <1>4 DEF Complete, ReceiptHonest
<1>11. ExtractsOnce'
  BY <1>1, ExtractsOnceExpected, ExtractsOnceNext DEF Inv
<1>12. PolicyExact'
  BY <1>1, <1>2 DEF PolicyExact
<1> QED BY <1>6, <1>7, <1>8, <1>9, <1>10, <1>11, <1>12 DEF Inv

\* The work is over: the receipt is given.
LEMMA DoneKeeps ==
  ASSUME Inv, NEW answer \in {"refused", "failed", "ok", "dropped"}, Done(answer),
         answer = "ok" => pending' = {} /\ (~dryRun => rows = admitted),
         pending' \in SUBSET (1..Len(admitted)), dryRun => pending' = {},
         Stand(rows, admitted, (1..Len(admitted)) \ pending'),
         UNCHANGED <<message, dryRun, urls, next, rows, admitted, verdict>>, failed' = failed
  PROVE  Inv'
<1>1. /\ phase' = "done" /\ receipt' = answer /\ rows' = rows
      /\ message' = message /\ dryRun' = dryRun /\ urls' = urls /\ next' = next
      /\ admitted' = admitted /\ verdict' = verdict /\ failed' = failed
  BY DEF Done
<1>2. TypeOK /\ InOrder /\ PolicyExact
  BY DEF Inv
<1>3. TypeOK' /\ Untouched' /\ Current'
  BY <1>1, <1>2 DEF TypeOK, Untouched, Current
<1>4. InOrder'
  <2>1. Stand(rows', admitted', Settled')
    BY <1>1, SettledIdle
  <2> QED BY <1>1, <1>2, <2>1 DEF InOrder
<1>5. Complete'
  BY <1>1 DEF Complete, ReceiptHonest
<1>6. ExtractsOnce'
  BY <1>1, ExtractsOnceNext
<1>7. PolicyExact'
  BY <1>1, <1>2 DEF PolicyExact
<1> QED BY <1>3, <1>4, <1>5, <1>6, <1>7 DEF Inv

LEMMA RowsIdle ==
  ASSUME Inv, phase # "inserting"
  PROVE  /\ pending \in SUBSET (1..Len(admitted)) /\ (dryRun => pending = {})
         /\ Stand(rows, admitted, (1..Len(admitted)) \ pending)
  BY SettledIdle DEF Inv, TypeOK, InOrder

LEMMA InvInit == Init => Inv
<1> SUFFICES ASSUME Init PROVE Inv
  OBVIOUS
<1>1. /\ urls = <<>> /\ next = 1 /\ rows = <<>> /\ pending = {} /\ admitted = <<>>
      /\ phase = "arrived" /\ receipt = "none" /\ failed = FALSE /\ verdict = NoVerdict
      /\ message \in Messages /\ dryRun \in BOOLEAN
  BY DEF Init
<1>2. <<>> \in Seq(Links) /\ 1 \in 1..Len(<<>>) + 1 /\ Len(<<>>) \in Nat
  OBVIOUS
<1>3. TypeOK
  BY <1>1, <1>2 DEF TypeOK
<1>4. InOrder
  BY <1>1, <1>2, WithinEmpty, StandEmpty DEF InOrder
<1>5. Untouched /\ Current /\ Complete /\ PolicyExact
  BY <1>1 DEF Untouched, Current, Complete, ReceiptHonest, PolicyExact
<1>6. ExtractsOnce
  BY <1>1, ExtractsOnceExpected
<1> QED BY <1>3, <1>4, <1>5, <1>6 DEF Inv

LEMMA InvNext == Inv /\ [Next]_vars => Inv'
<1> SUFFICES ASSUME Inv, [Next]_vars PROVE Inv'
  OBVIOUS
<1>1. CASE UNCHANGED vars
  <2>1. /\ message' = message /\ dryRun' = dryRun /\ phase' = phase /\ urls' = urls /\ next' = next
        /\ failed' = failed /\ rows' = rows /\ pending' = pending /\ receipt' = receipt
        /\ admitted' = admitted /\ verdict' = verdict
    BY <1>1 DEF vars
  <2>2. TypeOK' /\ Untouched' /\ InOrder'
    BY <2>1 DEF Inv, TypeOK, Untouched, InOrder, Settled
  <2>3. Current'
    BY <2>1 DEF Inv, Current, Url
  <2>4. Complete' /\ PolicyExact'
    BY <2>1 DEF Inv, Complete, ReceiptHonest, PolicyExact
  <2>5. ExtractsOnce'
    BY <2>1, ExtractsOnceExpected, ExtractsOnceNext DEF Inv
  <2> QED BY <2>2, <2>3, <2>4, <2>5 DEF Inv
<1>2. CASE Refuse
  <2>1. /\ phase # "inserting" /\ pending' = pending /\ Done("refused") /\ failed' = failed
        /\ UNCHANGED <<message, dryRun, urls, next, rows, admitted, verdict>>
    BY <1>2 DEF Refuse
  <2> QED BY <2>1, RowsIdle, DoneKeeps
<1>3. CASE Queue
  <2>1. /\ phase = "arrived" /\ phase' = "queued" /\ message' = message /\ dryRun' = dryRun
        /\ urls' = urls /\ next' = next /\ failed' = failed /\ rows' = rows /\ pending' = pending
        /\ receipt' = receipt /\ admitted' = admitted /\ verdict' = verdict
    BY <1>3 DEF Queue
  <2>2. TypeOK' /\ Untouched' /\ InOrder' /\ Current'
    BY <2>1 DEF Inv, TypeOK, Untouched, InOrder, Settled, Current
  <2>3. Complete' /\ PolicyExact'
    BY <2>1 DEF Inv, Complete, ReceiptHonest, PolicyExact
  <2>4. ExtractsOnce'
    BY <2>1, ExtractsOnceNext
  <2> QED BY <2>2, <2>3, <2>4 DEF Inv
<1>4. CASE Expire
  <2>1. /\ phase # "inserting" /\ pending' = pending /\ Done("failed") /\ failed' = failed
        /\ UNCHANGED <<message, dryRun, urls, next, rows, admitted, verdict>>
    BY <1>4 DEF Expire
  <2> QED BY <2>1, RowsIdle, DoneKeeps
<1>5. CASE Extract
  <2>1. /\ phase = "queued" /\ phase' = "checking" /\ message' = message /\ dryRun' = dryRun
        /\ urls' = Extracted[message] /\ next' = next /\ failed' = failed /\ rows' = rows /\ pending' = pending
        /\ receipt' = receipt /\ admitted' = admitted /\ verdict' = verdict
    BY <1>5 DEF Extract
  <2>2. /\ message \in Messages /\ urls = <<>> /\ admitted = <<>> /\ rows = <<>>
        /\ pending \in SUBSET (1..0)
    BY <2>1 DEF Inv, TypeOK, Untouched
  <2>3. urls' = Expected(message.captures) /\ urls' \in Seq(Links)
    BY <2>1, <2>2, ExtractedExact, StorableLinks
  <2>4. TypeOK'
    <3>1. next = 1
      BY <2>2 DEF Inv, TypeOK
    <3>2. next' \in 1..Len(urls') + 1
      BY <2>1, <2>3, <3>1
    <3> QED BY <2>1, <2>2, <2>3, <3>2 DEF Inv, TypeOK
  <2>5. InOrder'
    <3>1. next' - 1 = 0 /\ Len(urls') \in Nat /\ Len(<<>>) = 0 /\ 0 \in Nat
      <4>1. next = 1
        BY <2>2 DEF Inv, TypeOK
      <4> QED BY <2>1, <2>3, <4>1
    <3>2. pending' = {}
      BY <2>1, <2>2
    <3> QED BY <2>1, <2>2, <3>1, <3>2, WithinEmpty, StandEmpty DEF InOrder
  <2>6. Untouched' /\ Current'
    BY <2>1 DEF Untouched, Current
  <2>7. Complete' /\ PolicyExact'
    BY <2>1, <2>2 DEF Inv, Complete, ReceiptHonest, PolicyExact
  <2>8. ExtractsOnce'
    BY <2>1, <2>3, ExtractsOnceNext
  <2> QED BY <2>4, <2>5, <2>6, <2>7, <2>8 DEF Inv
<1>6. CASE CheckLiteral
  <2>1. /\ phase = "checking" /\ next <= Len(urls) /\ Url.host.kind = "ip"
        /\ Resolved(<<Url.host.address>>)
    BY <1>6 DEF CheckLiteral, Checking
  <2>2. IsHost(Url.host)
    BY <2>1, UrlTyped DEF Inv
  <2>3. AcceptableHost(Url.host) /\ <<Url.host.address>> \in Seq(Addresses)
    BY <2>1, <2>2, LiteralExact
  <2> QED BY <2>1, <2>3, ResolvedKeeps
<1>7. CASE CheckName
  <2>1. phase = "checking" /\ next <= Len(urls) /\ Url.host.kind = "name"
    BY <1>7 DEF CheckName, Checking
  <2>2. IsHost(Url.host)
    BY <2>1, UrlTyped DEF Inv
  <2> DEFINE name == DnsName(Url.host.labels)
             excluded == name = <<>> \/ BlocksDomain(name)
  <2>3. AcceptableHost(Url.host) <=> ~excluded
    BY <2>1, <2>2, HostExact
  <2>4. CASE excluded
    <3>1. Excluded(FALSE, <<>>)
      BY <1>7, <2>4 DEF CheckName
    <3> QED BY <2>1, <2>3, <2>4, <3>1, ExcludedKeeps
  <2>5. CASE ~excluded
    <3>1. /\ phase' = "resolving" /\ message' = message /\ dryRun' = dryRun
          /\ urls' = urls /\ next' = next /\ failed' = failed /\ rows' = rows /\ pending' = pending
          /\ receipt' = receipt /\ admitted' = admitted /\ verdict' = verdict
      BY <1>7, <2>5 DEF CheckName
    <3>2. TypeOK' /\ Untouched' /\ InOrder'
      BY <2>1, <3>1 DEF Inv, TypeOK, Untouched, InOrder, Settled
    <3>3. Current'
      <4>1. Url' = Url
        BY <3>1 DEF Url
      <4> QED BY <2>1, <2>3, <2>5, <3>1, <4>1 DEF Current
    <3>4. Complete' /\ PolicyExact'
      BY <2>1, <3>1 DEF Inv, Complete, ReceiptHonest, PolicyExact
    <3>5. ExtractsOnce'
      BY <2>1, <3>1, ExtractsOnceExpected, ExtractsOnceNext DEF Inv
    <3> QED BY <3>2, <3>3, <3>4, <3>5 DEF Inv
  <2> QED BY <2>4, <2>5
<1>8. ASSUME phase = "resolving"
      PROVE  next <= Len(urls) /\ AcceptableHost(Url.host)
  BY <1>8 DEF Inv, Current
<1>9. CASE DnsAnswers
  <2>1. PICK addresses \in Answers: Resolved(addresses)
    BY <1>9 DEF DnsAnswers
  <2>2. addresses \in Seq(Addresses) /\ phase = "resolving"
    BY <1>9, AnswersAssumption DEF DnsAnswers
  <2> QED BY <1>8, <2>1, <2>2, ResolvedKeeps
<1>10. CASE DnsFails
  <2>1. phase = "resolving" /\ Excluded(TRUE, <<>>)
    BY <1>10 DEF DnsFails
  <2> QED BY <1>8, <2>1, ExcludedKeeps DEF AcceptableAnswer
<1>11. CASE DnsTimesOut
  <2>1. phase = "resolving" /\ Excluded(TRUE, <<>>)
    BY <1>11 DEF DnsTimesOut
  <2> QED BY <1>8, <2>1, ExcludedKeeps DEF AcceptableAnswer
<1>12. CASE InsertSucceeds
  <2>1. failed \in BOOLEAN
    BY DEF Inv, TypeOK
  <2> QED BY <1>12, <2>1, InsertedKeeps DEF InsertSucceeds
<1>13. CASE InsertFails
  BY <1>13, InsertedKeeps DEF InsertFails
<1>14. CASE InsertTimesOut
  BY <1>14, InsertedKeeps DEF InsertFails, InsertTimesOut
<1>15. CASE \E n \in pending: LateRow(n)
  BY <1>15, LateRowKeeps
<1>16. CASE Finish
  <2>1. /\ phase = "checking" /\ pending' = pending /\ Done(IF failed THEN "failed" ELSE "ok")
        /\ UNCHANGED <<message, dryRun, urls, next, rows, admitted, verdict>> /\ failed' = failed
    BY <1>16 DEF Finish
  <2>2. ~failed => pending = {} /\ (~dryRun => rows = admitted)
    BY <2>1 DEF Inv, Complete
  <2>3. /\ pending \in SUBSET (1..Len(admitted)) /\ (dryRun => pending = {})
        /\ Stand(rows, admitted, (1..Len(admitted)) \ pending)
    BY <2>1, RowsIdle
  <2>4. CASE failed
    BY <2>1, <2>3, <2>4, DoneKeeps
  <2>5. CASE ~failed
    BY <2>1, <2>2, <2>3, <2>5, DoneKeeps
  <2> QED BY <2>4, <2>5
<1>17. CASE Cancel
  <2>1. /\ Done("dropped") /\ UNCHANGED <<message, dryRun, urls, next, rows, admitted, verdict>>
        /\ failed' = failed
        /\ IF phase = "inserting" THEN Abandoned ELSE pending' = pending
    BY <1>17 DEF Cancel
  <2>2. /\ pending' \in SUBSET (1..Len(admitted))
        /\ Stand(rows, admitted, (1..Len(admitted)) \ pending')
    BY <2>1, RowsIdle, RowAbandoned
  <2>3. dryRun => pending' = {}
    <3>1. phase = "inserting" => ~dryRun
      BY DEF Inv, Current
    <3> QED BY <2>1, <3>1, RowsIdle
  <2> QED BY <2>1, <2>2, <2>3, DoneKeeps
<1> QED BY <1>1, <1>2, <1>3, <1>4, <1>5, <1>6, <1>7, <1>9, <1>10, <1>11, <1>12, <1>13, <1>14,
           <1>15, <1>16, <1>17 DEF Next, Worker

(* Each message is handled as one state of the invariant after the other: what
   is known of its URLs, verdicts, rows and receipt at every point of the
   worker's loop (handle_msg). *)
THEOREM InvInvariant == Spec => []Inv
  BY InvInit, InvNext, PTL DEF Spec

(* The URLs of every message are those of its first matches, decoded once
   (extract_urls), for every message and every limit. *)
THEOREM ExtractsOnceInvariant == Spec => []ExtractsOnce
<1>1. Inv => ExtractsOnce
  BY DEF Inv
<1> QED BY <1>1, InvInvariant, PTL

(* Every verdict is the one the policy promises, for every list of rules, every
   name, every IPv4 and IPv6 address and every answer of the resolver
   (check_with_resolver). *)
THEOREM PolicyExactInvariant == Spec => []PolicyExact
<1>1. Inv => PolicyExact
  BY DEF Inv
<1> QED BY <1>1, InvInvariant, PTL

(* Rows stand for admitted URLs, none for two, however late their statements
   commit; admitted URLs are those of the message, in their order; a dry run
   leaves no row (handle_msg). *)
THEOREM OnlyAdmittedInvariant == Spec => []OnlyAdmitted
<1>1. Inv => OnlyAdmitted
  <2> SUFFICES ASSUME Inv PROVE OnlyAdmitted
    OBVIOUS
  <2>1. InOrder /\ admitted \in Seq(Links)
    BY DEF Inv, TypeOK
  <2>2. Settled \subseteq DOMAIN admitted
    BY <2>1 DEF Settled
  <2>3. Stand(rows, admitted, DOMAIN admitted)
    BY <2>1, <2>2, StandWider DEF InOrder
  <2> QED BY <2>1, <2>3 DEF InOrder, OnlyAdmitted
<1> QED BY <1>1, InvInvariant, PTL

(* A message reported as handled has the row of every admitted URL (handle_msg,
   process_msg). *)
THEOREM ReceiptHonestInvariant == Spec => []ReceiptHonest
<1>1. Inv => ReceiptHonest
  BY DEF Inv, Complete
<1> QED BY <1>1, InvInvariant, PTL

(* No URL reaches the database that db_add_url would refuse for its length. *)
THEOREM NeverPoisonousInvariant == Spec => []NeverPoisonous
<1>1. Inv => NeverPoisonous
  <2> SUFFICES ASSUME Inv, phase = "inserting" PROVE FitsColumn
    BY DEF NeverPoisonous
  <2>1. urls = Expected(message.captures)
    BY ExtractsOnceExpected DEF Inv
  <2>2. message \in Messages /\ next \in 1..Len(urls)
    BY DEF Inv, TypeOK, Current
  <2>3. urls \in Seq(Storable)
    BY <2>1, <2>2, ExtractedExact
  <2> QED BY <2>2, <2>3, StorableLinks DEF FitsColumn, Url
<1> QED BY <1>1, InvInvariant, PTL

===============================================================================
