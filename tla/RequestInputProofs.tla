------------------------- MODULE RequestInputProofs -------------------------
(* Proofs about RequestInput: for every set of requests, texts, merged maps  *)
(* and rules, and any number of merges.                                      *)
EXTENDS RequestInput, SequenceTheorems, WellFoundedInduction, TLAPS

----------------------------------------------------------------------------
(* Values *)

\* A value of a form or a query: a string or several.
FormValue == {Str(t) : t \in Text} \cup {Strs(ts) : ts \in Seq(Text)}

LEMMA FlatType ==
    ASSUME NEW ts \in Seq(Text)
    PROVE  /\ Flat(ts) \in FormValue
           /\ Len(ts) = 1 => ts[1] \in Text /\ Flat(ts) = Str(ts[1])
           /\ Len(ts) # 1 => Flat(ts) = Strs(ts)
<1>1. Len(ts) = 1 => ts[1] \in Text
  BY ElementOfSeq
<1> QED
  BY <1>1 DEF Flat, FormValue

\* Trimming and then nullifying is what Clean does, of any value.
LEMMA CleanIs ==
    ASSUME NEW v
    PROVE  Nullified(Trimmed(v)) = Clean(v)
<1>1. CASE v.kind = "string"
  <2>1. Trimmed(v) = Str(About[v.text].trimmed)
    BY <1>1 DEF Trimmed
  <2>2. Str(About[v.text].trimmed) = Str("") <=> About[v.text].trimmed = ""
    BY DEF Str
  <2> QED
    BY <1>1, <2>1, <2>2 DEF Nullified, Clean
<1>2. CASE v.kind = "strings"
  <2>1. PICK w : w = [k \in DOMAIN v.items |-> About[v.items[k]].trimmed]
    OBVIOUS
  <2>2. Trimmed(v) = Strs(w)
    BY <1>2, <2>1 DEF Trimmed
  <2>3. Strs(w) # Str("")
    <3>1. Strs(w).kind = "strings" /\ Str("").kind = "string"
      BY DEF Strs, Str
    <3> QED
      BY <3>1
  <2> QED
    BY <1>2, <2>2, <2>3 DEF Nullified, Clean
<1>3. CASE v.kind # "string" /\ v.kind # "strings"
  <2>1. Trimmed(v) = v
    BY <1>3 DEF Trimmed
  <2>2. Str("").kind = "string"
    BY DEF Str
  <2> QED
    BY <1>3, <2>1, <2>2 DEF Nullified, Clean
<1> QED
  BY <1>1, <1>2, <1>3

\* What a form's value becomes: nil, a trimmed text that is not "", or several.
CleanValue ==
    {Null} \cup {Str(t) : t \in {x \in Text : x # "" /\ About[x].trimmed = x}}
           \cup {Strs(ts) : ts \in Seq(Text)}

LEMMA CleanType ==
    ASSUME NEW ts \in Seq(Text)
    PROVE  /\ Clean(Flat(ts)) \in CleanValue
           /\ \A t : Clean(Flat(ts)) = Str(t) => About[ts[1]].trimmed = t
<1>0. \A t \in Text : About[t].trimmed \in Text
  BY AboutAssumption DEF Facts
<1>1. CASE Len(ts) = 1
  <2>1. PICK t \in Text : t = ts[1] /\ Flat(ts) = Str(t)
    BY <1>1, FlatType
  <2>2. PICK u \in Text : u = About[t].trimmed /\ About[u].trimmed = u
    BY <1>0, TrimAssumption
  <2>3. Str(t).kind = "string" /\ Str(t).text = t
    BY DEF Str
  <2>4. Clean(Str(t)) = IF u = "" THEN Null ELSE Str(u)
    BY <2>2, <2>3 DEF Clean, Trimmed
  <2>5. \A x : Null # Str(x) /\ (Str(u) = Str(x) => u = x)
    <3>1. \A x : Null.kind = "null" /\ Str(x).kind = "string" /\ Str(x).text = x
      BY DEF Null, Str
    <3> QED
      BY <3>1
  <2>6. u # "" => Str(u) \in CleanValue
    BY <2>2 DEF CleanValue
  <2>7. Null \in CleanValue
    BY DEF CleanValue
  <2> QED
    BY <2>1, <2>2, <2>4, <2>5, <2>6, <2>7
<1>2. CASE Len(ts) # 1
  <2>1. Flat(ts) = Strs(ts)
    BY <1>2, FlatType
  <2>2. PICK w : w = [k \in DOMAIN ts |-> About[ts[k]].trimmed]
    OBVIOUS
  <2>3. w \in Seq(Text)
    <3>1. Len(ts) \in Nat /\ DOMAIN ts = 1..Len(ts) /\ \A k \in 1..Len(ts) : ts[k] \in Text
      BY LenProperties, ElementOfSeq
    <3>2. w \in [1..Len(ts) -> Text]
      BY <1>0, <2>2, <3>1
    <3> QED
      BY <3>1, <3>2, SeqDef
  <2>4. Strs(ts).kind = "strings" /\ Strs(ts).items = ts
    BY DEF Strs
  <2>5. Clean(Strs(ts)) = Strs(w)
    BY <2>2, <2>4 DEF Clean, Trimmed
  <2>6. \A x : Strs(w) # Str(x)
    <3>1. \A x : Strs(w).kind = "strings" /\ Str(x).kind = "string"
      BY DEF Strs, Str
    <3> QED
      BY <3>1
  <2>7. Strs(w) \in CleanValue
    BY <2>3 DEF CleanValue
  <2> QED
    BY <2>1, <2>5, <2>6, <2>7
<1> QED
  BY <1>1, <1>2

----------------------------------------------------------------------------
(* The input *)

\* IsRight, of the query q, the body b and the merges ms.
Having(ms, k, over) == {i \in DOMAIN ms : ms[i].over = over /\ k \in DOMAIN ms[i].data}
RightIn(q, b, ms, k, v) ==
    \/ \E i \in Having(ms, k, TRUE) : v = ms[i].data[k] /\ \A j \in Having(ms, k, TRUE) : j =< i
    \/ /\ Having(ms, k, TRUE) = {}
       /\ \/ k \in DOMAIN b /\ v = Clean(b[k])
          \/ k \in DOMAIN q \ DOMAIN b /\ v = Clean(Flat(q[k]))
          \/ /\ k \notin DOMAIN q \cup DOMAIN b
             /\ \E i \in Having(ms, k, FALSE) :
                   v = ms[i].data[k] /\ \A j \in Having(ms, k, FALSE) : i =< j
\* The keys that some of the merges ms have.
Keys(ms) == UNION {DOMAIN ms[i].data : i \in DOMAIN ms}

AllRight(q, b, ms, f) ==
    /\ DOMAIN f = DOMAIN b \cup DOMAIN q \cup Keys(ms)
    /\ \A k \in DOMAIN f : RightIn(q, b, ms, k, f[k])

MergeType == [over : BOOLEAN, data : Overlays]

\* What is known of the merges after one more.
LEMMA MergeAdded ==
    ASSUME NEW ms \in Seq(MergeType), NEW m \in MergeType
    PROVE  /\ Append(ms, m) \in Seq(MergeType)
           /\ Len(ms) \in Nat /\ DOMAIN ms = 1..Len(ms)
           /\ DOMAIN Append(ms, m) = 1..(Len(ms) + 1)
           /\ \A i \in 1..Len(ms) : Append(ms, m)[i] = ms[i]
           /\ Append(ms, m)[Len(ms) + 1] = m
  BY AppendProperties, LenProperties

LEMMA HavingAfter ==
    ASSUME NEW ms \in Seq(MergeType), NEW m \in MergeType, NEW k, NEW over
    PROVE  Having(Append(ms, m), k, over) =
               Having(ms, k, over)
               \cup (IF m.over = over /\ k \in DOMAIN m.data THEN {Len(ms) + 1} ELSE {})
<1>1. PICK n \in Nat : n = Len(ms)
  BY LenProperties
<1>2. PICK t : t = Append(ms, m)
  OBVIOUS
<1>3. /\ DOMAIN ms = 1..n /\ DOMAIN t = 1..(n + 1)
      /\ \A i \in 1..n : t[i] = ms[i]
      /\ t[n + 1] = m
  BY <1>1, <1>2, MergeAdded
<1>4. \A i : i \in Having(t, k, over) <=>
                 \/ i \in 1..n /\ ms[i].over = over /\ k \in DOMAIN ms[i].data
                 \/ i = n + 1 /\ m.over = over /\ k \in DOMAIN m.data
  <2>1. \A i : i \in 1..(n + 1) <=> i \in 1..n \/ i = n + 1
    OBVIOUS
  <2>2. n + 1 \notin 1..n
    OBVIOUS
  <2> QED
    BY <1>3, <2>1, <2>2 DEF Having
<1> QED
  BY <1>1, <1>2, <1>3, <1>4 DEF Having

\* The keys of the merges, after one more.
LEMMA KeysAfter ==
    ASSUME NEW ms \in Seq(MergeType), NEW m \in MergeType
    PROVE  Keys(Append(ms, m)) = Keys(ms) \cup DOMAIN m.data
<1>1. PICK n \in Nat : n = Len(ms)
  BY LenProperties
<1>2. PICK t : t = Append(ms, m)
  OBVIOUS
<1>3. /\ DOMAIN ms = 1..n /\ DOMAIN t = 1..(n + 1)
      /\ \A i \in 1..n : t[i] = ms[i]
      /\ t[n + 1] = m
  BY <1>1, <1>2, MergeAdded
<1>4. \A i : i \in 1..(n + 1) <=> i \in 1..n \/ i = n + 1
  OBVIOUS
<1>5. ASSUME NEW k PROVE k \in Keys(t) <=> k \in Keys(ms) \/ k \in DOMAIN m.data
  <2>1. k \in Keys(t) <=> \E i \in 1..(n + 1) : k \in DOMAIN t[i].data
    BY <1>3 DEF Keys
  <2>2. k \in Keys(ms) <=> \E i \in 1..n : k \in DOMAIN ms[i].data
    BY <1>3 DEF Keys
  <2> QED
    BY <1>3, <1>4, <2>1, <2>2
<1> QED
  BY <1>2, <1>5

\* Merge keeps the input right.
LEMMA MergeRight ==
    ASSUME NEW ms \in Seq(MergeType), NEW q, NEW b, NEW f, AllRight(q, b, ms, f),
           NEW data \in Overlays
    PROVE  AllRight(q, b, Append(ms, [over |-> TRUE, data |-> data]), Over(f, data))
<1>1. PICK m \in MergeType : m = [over |-> TRUE, data |-> data] /\ m.over = TRUE /\ m.data = data
  <2>1. [over |-> TRUE, data |-> data] \in MergeType
    BY Zenon DEF MergeType
  <2> QED
    BY <2>1
<1>2. PICK t : t = Append(ms, m)
  OBVIOUS
<1>3. PICK g : g = Over(f, data)
  OBVIOUS
<1>4. /\ DOMAIN g = DOMAIN f \cup DOMAIN data
      /\ \A k \in DOMAIN g : g[k] = IF k \in DOMAIN data THEN data[k] ELSE f[k]
  BY <1>3 DEF Over
<1>5. DOMAIN g = DOMAIN b \cup DOMAIN q \cup Keys(t)
  <2>1. Keys(t) = Keys(ms) \cup DOMAIN m.data
    BY <1>2, KeysAfter
  <2>2. DOMAIN f = DOMAIN b \cup DOMAIN q \cup Keys(ms)
    BY DEF AllRight
  <2> QED
    BY <1>1, <1>4, <2>1, <2>2
<1>6. ASSUME NEW k \in DOMAIN g PROVE RightIn(q, b, t, k, g[k])
  <2>1. PICK n \in Nat : n = Len(ms)
    BY LenProperties
  <2>2. /\ Having(t, k, TRUE) = Having(ms, k, TRUE) \cup
                                (IF k \in DOMAIN data THEN {n + 1} ELSE {})
        /\ Having(t, k, FALSE) = Having(ms, k, FALSE)
    <3>1. \A over : Having(t, k, over) =
               Having(ms, k, over)
               \cup (IF m.over = over /\ k \in DOMAIN m.data THEN {n + 1} ELSE {})
      BY <1>2, <2>1, HavingAfter
    <3> QED
      BY <1>1, <3>1
  <2>3. /\ DOMAIN ms = 1..n /\ DOMAIN t = 1..(n + 1)
        /\ \A i \in 1..n : t[i] = ms[i]
        /\ t[n + 1] = m
    BY <1>2, <2>1, MergeAdded
  <2>4. CASE k \in DOMAIN data
    <3>1. \A j \in Having(t, k, TRUE) : j =< n + 1
      BY <2>3 DEF Having
    <3>2. n + 1 \in Having(t, k, TRUE)
      BY <2>2, <2>4
    <3>3. g[k] = t[n + 1].data[k]
      BY <1>1, <1>4, <2>3, <2>4
    <3> QED
      BY <3>1, <3>2, <3>3 DEF RightIn
  <2>5. CASE k \notin DOMAIN data
    <3>1. k \in DOMAIN f /\ g[k] = f[k]
      BY <1>4, <2>5
    <3>2. RightIn(q, b, ms, k, f[k])
      BY <3>1 DEF AllRight
    <3>3. Having(t, k, TRUE) = Having(ms, k, TRUE) /\ Having(t, k, FALSE) = Having(ms, k, FALSE)
      BY <2>2, <2>5
    <3>4. /\ \A i \in Having(ms, k, TRUE) : t[i] = ms[i]
          /\ \A i \in Having(ms, k, FALSE) : t[i] = ms[i]
      BY <2>3 DEF Having
    <3> QED
      BY <3>1, <3>2, <3>3, <3>4 DEF RightIn
  <2> QED
    BY <2>4, <2>5
<1>7. AllRight(q, b, t, g)
  BY <1>5, <1>6 DEF AllRight
<1> QED
  BY <1>1, <1>2, <1>3, <1>7

\* So does MergeIfMissing.
LEMMA MergeIfMissingRight ==
    ASSUME NEW ms \in Seq(MergeType), NEW q, NEW b, NEW f, AllRight(q, b, ms, f),
           NEW data \in Overlays
    PROVE  AllRight(q, b, Append(ms, [over |-> FALSE, data |-> data]), Over(data, f))
<1>1. PICK m \in MergeType : m = [over |-> FALSE, data |-> data] /\ m.over = FALSE /\ m.data = data
  <2>1. [over |-> FALSE, data |-> data] \in MergeType
    BY Zenon DEF MergeType
  <2> QED
    BY <2>1
<1>2. PICK t : t = Append(ms, m)
  OBVIOUS
<1>3. PICK g : g = Over(data, f)
  OBVIOUS
<1>4. /\ DOMAIN g = DOMAIN f \cup DOMAIN data
      /\ \A k \in DOMAIN g : g[k] = IF k \in DOMAIN f THEN f[k] ELSE data[k]
  BY <1>3 DEF Over
<1>5. DOMAIN f = DOMAIN b \cup DOMAIN q \cup Keys(ms)
  BY DEF AllRight
<1>6. DOMAIN g = DOMAIN b \cup DOMAIN q \cup Keys(t)
  <2>1. Keys(t) = Keys(ms) \cup DOMAIN m.data
    BY <1>2, KeysAfter
  <2> QED
    BY <1>1, <1>4, <1>5, <2>1
<1>7. ASSUME NEW k \in DOMAIN g PROVE RightIn(q, b, t, k, g[k])
  <2>1. PICK n \in Nat : n = Len(ms)
    BY LenProperties
  <2>2. /\ Having(t, k, TRUE) = Having(ms, k, TRUE)
        /\ Having(t, k, FALSE) = Having(ms, k, FALSE) \cup
                                 (IF k \in DOMAIN data THEN {n + 1} ELSE {})
    <3>1. \A over : Having(t, k, over) =
               Having(ms, k, over)
               \cup (IF m.over = over /\ k \in DOMAIN m.data THEN {n + 1} ELSE {})
      BY <1>2, <2>1, HavingAfter
    <3> QED
      BY <1>1, <3>1
  <2>3. /\ DOMAIN ms = 1..n /\ DOMAIN t = 1..(n + 1)
        /\ \A i \in 1..n : t[i] = ms[i]
        /\ t[n + 1] = m
    BY <1>2, <2>1, MergeAdded
  <2>4. /\ \A i \in Having(ms, k, TRUE) : t[i] = ms[i] /\ i \in 1..n
        /\ \A i \in Having(ms, k, FALSE) : t[i] = ms[i] /\ i \in 1..n
    BY <2>3 DEF Having
  <2>5. CASE k \in DOMAIN f
    <3>1. g[k] = f[k] /\ RightIn(q, b, ms, k, f[k])
      BY <1>4, <2>5 DEF AllRight
    <3>2. ASSUME NEW i \in Having(ms, k, FALSE), f[k] = ms[i].data[k],
                 \A j \in Having(ms, k, FALSE) : i =< j
          PROVE  /\ i \in Having(t, k, FALSE) /\ g[k] = t[i].data[k]
                 /\ \A j \in Having(t, k, FALSE) : i =< j
      <4>1. i =< n + 1
        <5>1. PICK x \in 1..n : x = i
          BY <2>4
        <5> QED
          BY <5>1
      <4> QED
        BY <2>2, <2>4, <3>1, <3>2, <4>1
    <3>3. \A i \in Having(ms, k, TRUE) : t[i] = ms[i]
      BY <2>4
    <3> QED
      BY <2>2, <3>1, <3>2, <3>3 DEF RightIn
  <2>6. CASE k \notin DOMAIN f
    <3>1. k \in DOMAIN data /\ g[k] = data[k]
      BY <1>4, <2>6
    <3>2. Having(ms, k, TRUE) = {} /\ Having(ms, k, FALSE) = {}
      BY <1>5, <2>6 DEF Having, Keys
    <3>3. Having(t, k, TRUE) = {} /\ Having(t, k, FALSE) = {n + 1}
      BY <2>2, <3>1, <3>2
    <3>4. g[k] = t[n + 1].data[k]
      BY <1>1, <2>3, <3>1
    <3>5. k \notin DOMAIN q \cup DOMAIN b
      BY <1>5, <2>6
    <3>6. n + 1 =< n + 1
      OBVIOUS
    <3> QED
      BY <3>3, <3>4, <3>5, <3>6 DEF RightIn
  <2> QED
    BY <2>5, <2>6
<1>8. AllRight(q, b, t, g)
  BY <1>6, <1>7 DEF AllRight
<1> QED
  BY <1>1, <1>2, <1>3, <1>8

----------------------------------------------------------------------------
(* The invariant *)

\* The form that everybody reads.
ReadAs == IF BodyIsRead /\ sent.type # "json" THEN sent.body ELSE <<>>

\* The input before it is cleaned.
Raw == Over(Flattened(sent.query), Body)

\* How the body has been read so far, and how it will be.
FormInv ==
    /\ pc = "spoof" => method = sent.method /\ postForm = None
    /\ pc # "spoof" => /\ postForm \in {None, ReadAs}
                       /\ postForm = None => FormOf(method) = ReadAs
    /\ pc \notin {"spoof", "trim", "convert", "csrf"} => postForm = ReadAs

MethodInv ==
    method # sent.method =>
        method \in {sent.override} \cup
                   (IF sent.override = "" THEN {About[FirstOf(sent.body, "_method")].trimmed} ELSE {})

\* How far the input has been cleaned.
CleanInv ==
    /\ merges \in Seq(MergeType)
    /\ pc \in {"spoof", "trim"} => ~inputResolved
    /\ pc \notin {"spoof", "trim"} => inputResolved
    /\ pc \in {"spoof", "trim", "convert", "csrf"} => merges = <<>>
    /\ pc = "convert" => DOMAIN input = DOMAIN Raw /\ \A k \in DOMAIN Raw : input[k] = Trimmed(Raw[k])
    /\ pc \notin {"spoof", "trim", "convert"} => AllRight(sent.query, Body, merges, input)

ValidInv ==
    pc = "valid" =>
        /\ rules \in RuleSets
        /\ ~Unregistered(rules, Object(input))
        /\ Failed(rules, Object(input)) = {}
        /\ validated = Validated(rules, Object(input))

InputInv == sent \in Sent /\ FormInv /\ MethodInv /\ CleanInv /\ ValidInv

LEMMA BodyIs ==
    /\ sent.type = "json" => Body = sent.body
    /\ sent.type # "json" => Body = Flattened(ReadAs)
<1>1. Flattened(<<>>) = <<>>
  <2>1. Flattened(<<>>) = [k \in {} |-> Flat(<<>>[k])]
    BY DEF Flattened
  <2>2. \A f, g : f = [k \in {} |-> Flat(<<>>[k])] /\ g = <<>> => f = g
    OBVIOUS
  <2> QED
    BY <2>1
<1>2. sent.type = "json" => BodyIsRead
  BY DEF BodyIsRead
<1> QED
  BY <1>1, <1>2 DEF Body, ReadAs

\* Nobody changes the request.
LEMMA SentStays ==
    ASSUME UNCHANGED sent
    PROVE  ReadAs' = ReadAs /\ Body' = Body /\ Raw' = Raw
<1>1. BodyIsRead' = BodyIsRead
  BY DEF BodyIsRead
<1>2. Body' = Body
  BY <1>1 DEF Body, Flattened
<1> QED
  BY <1>1, <1>2 DEF ReadAs, Raw, Over, Flattened

LEMMA NoneApart == sent \in Sent => ReadAs # None
  BY NoneAssumption DEF ReadAs

\* After the method override there is one way to read the body.
LEMMA ParsedIs ==
    ASSUME InputInv, pc # "spoof"
    PROVE  Parsed = ReadAs
  BY NoneApart DEF InputInv, FormInv, Parsed

LEMMA SpoofForm ==
    ASSUME InputInv, MethodSpoofing
    PROVE  FormInv'
<1>1. /\ pc = "spoof" /\ pc' = "trim" /\ sent' = sent
      /\ method = sent.method /\ postForm = None
      /\ Parsed = FormOf(method)
  BY DEF MethodSpoofing, InputInv, FormInv, Parsed
<1>2. ReadAs' = ReadAs
  BY <1>1, SentStays
<1>3. CASE sent.method = "POST" /\ sent.override = ""
  <2>1. FormOf("POST") = ReadAs
    BY <1>3 DEF FormOf, ReadAs, BodyIsRead
  <2>2. postForm' = ReadAs
    BY <1>1, <1>3, <2>1 DEF MethodSpoofing
  <2>3. ReadAs # None
    BY NoneApart DEF InputInv
  <2> QED
    BY <1>1, <1>2, <2>2, <2>3 DEF FormInv
<1>4. CASE ~(sent.method = "POST" /\ sent.override = "")
  <2>1. postForm' = None
    BY <1>1, <1>4 DEF MethodSpoofing
  <2>2. method' = IF sent.method = "POST" /\ sent.override \in Spoofable
                  THEN sent.override ELSE sent.method
    BY <1>1, <1>4 DEF MethodSpoofing
  <2>3. FormOf(method') = ReadAs
    BY <2>2, <1>4 DEF FormOf, ReadAs, BodyIsRead, Spoofable
  <2>4. FormOf(method)' = FormOf(method')
    BY <1>1 DEF FormOf
  <2> QED
    BY <1>1, <1>2, <2>1, <2>3, <2>4 DEF FormInv
<1> QED
  BY <1>3, <1>4

LEMMA SpoofMethod ==
    ASSUME InputInv, MethodSpoofing
    PROVE  MethodInv'
<1>1. /\ pc = "spoof" /\ sent' = sent /\ method = sent.method /\ postForm = None
      /\ Parsed = FormOf(method)
  BY DEF MethodSpoofing, InputInv, FormInv, Parsed
<1>2. CASE method' = method
  BY <1>1, <1>2 DEF MethodInv
<1>3. CASE method' # method
  <2>1. PICK named : /\ named = IF sent.override # "" THEN sent.override
                                ELSE About[FirstOf(Parsed, "_method")].trimmed
                     /\ method' = IF method = "POST" /\ named \in Spoofable THEN named ELSE method
    BY DEF MethodSpoofing
  <2>2. method' = named /\ named \in Spoofable
    BY <1>3, <2>1
  <2>3. CASE sent.override # ""
    BY <1>1, <2>1, <2>2, <2>3 DEF MethodInv
  <2>4. CASE sent.override = ""
    <3>1. named = About[FirstOf(Parsed, "_method")].trimmed
      BY <2>1, <2>4
    <3>2. Parsed # <<>>
      <4>1. FirstOf(<<>>, "_method") = ""
        BY DEF FirstOf
      <4>2. About[""].trimmed \notin Spoofable
        BY TextAssumption DEF Spoofable
      <4> QED
        BY <2>2, <3>1, <4>1, <4>2
    <3>3. Parsed = sent.body
      BY <1>1, <3>2 DEF FormOf
    <3> QED
      BY <1>1, <2>2, <2>4, <3>1, <3>3 DEF MethodInv, FirstOf
  <2> QED
    BY <2>3, <2>4
<1> QED
  BY <1>2, <1>3

LEMMA SpoofKeeps == InputInv /\ MethodSpoofing => InputInv'
<1> SUFFICES ASSUME InputInv, MethodSpoofing PROVE InputInv'
  OBVIOUS
<1>1. FormInv' /\ MethodInv'
  BY SpoofForm, SpoofMethod
<1>2. pc = "spoof" /\ pc' = "trim" /\ UNCHANGED <<sent, input, inputResolved, merges, rules, validated>>
  BY DEF MethodSpoofing
<1>3. CleanInv'
  BY <1>2 DEF InputInv, CleanInv
<1> QED
  BY <1>1, <1>2, <1>3 DEF InputInv, ValidInv

LEMMA TrimKeeps == InputInv /\ TrimStrings => InputInv'
<1> SUFFICES ASSUME InputInv, TrimStrings PROVE InputInv'
  OBVIOUS
<1>1. /\ pc = "trim" /\ pc' = "convert" /\ inputResolved' = TRUE
      /\ UNCHANGED <<sent, method, merges, rules, validated>>
      /\ input' = [k \in DOMAIN Input |-> Trimmed(Input[k])]
      /\ postForm' = ParsedByInput
  BY DEF TrimStrings
<1>2. Parsed = ReadAs /\ ReadAs' = ReadAs /\ Raw' = Raw
  BY <1>1, ParsedIs, SentStays
<1>3. Input = Raw
  <2>1. Input = Resolved
    BY <1>1 DEF InputInv, CleanInv, Input
  <2> QED
    BY <1>2, <2>1, BodyIs DEF Resolved, Raw
<1>4. postForm' \in {postForm, ReadAs}
  BY <1>1, <1>2 DEF ParsedByInput
<1>5. FormOf(method)' = FormOf(method)
  BY <1>1 DEF FormOf
<1>6. FormInv'
  BY <1>1, <1>2, <1>4, <1>5, NoneApart DEF InputInv, FormInv
<1>7. CleanInv'
  BY <1>1, <1>2, <1>3 DEF InputInv, CleanInv
<1>8. MethodInv'
  BY <1>1 DEF InputInv, MethodInv
<1> QED
  BY <1>1, <1>6, <1>7, <1>8 DEF InputInv, ValidInv

\* A cleaned input is right as long as nothing is merged.
LEMMA CleanedRight ==
    ASSUME NEW q, NEW b, NEW f, NEW raw, raw = Over(Flattened(q), b),
           DOMAIN f = DOMAIN raw, \A k \in DOMAIN raw : f[k] = Clean(raw[k])
    PROVE  AllRight(q, b, <<>>, f)
<1>1. /\ DOMAIN raw = DOMAIN q \cup DOMAIN b
      /\ \A k \in DOMAIN raw : raw[k] = IF k \in DOMAIN b THEN b[k] ELSE Flat(q[k])
  BY DEF Over, Flattened
<1>2. \A k, over : Having(<<>>, k, over) = {}
  BY DEF Having
<1>3. Keys(<<>>) = {}
  BY DEF Keys
<1>4. ASSUME NEW k \in DOMAIN f PROVE RightIn(q, b, <<>>, k, f[k])
  BY <1>1, <1>2 DEF RightIn
<1> QED
  BY <1>1, <1>3, <1>4 DEF AllRight

LEMMA ConvertKeeps == InputInv /\ ConvertEmptyStringsToNull => InputInv'
<1> SUFFICES ASSUME InputInv, ConvertEmptyStringsToNull PROVE InputInv'
  OBVIOUS
<1>1. /\ pc = "convert" /\ pc' = "csrf" /\ inputResolved' = TRUE
      /\ UNCHANGED <<sent, method, merges, rules, validated>>
      /\ input' = [k \in DOMAIN Input |-> Nullified(Input[k])]
      /\ postForm' = ParsedByInput
  BY DEF ConvertEmptyStringsToNull
<1>2. ReadAs' = ReadAs /\ Body' = Body
  BY <1>1, SentStays
<1>3. /\ inputResolved /\ merges = <<>>
      /\ DOMAIN input = DOMAIN Raw /\ \A k \in DOMAIN Raw : input[k] = Trimmed(Raw[k])
  BY <1>1 DEF InputInv, CleanInv
<1>4. Input = input /\ postForm' = postForm
  BY <1>1, <1>3 DEF Input, ParsedByInput
<1>5. DOMAIN input' = DOMAIN Raw /\ \A k \in DOMAIN Raw : input'[k] = Clean(Raw[k])
  BY <1>1, <1>3, <1>4, CleanIs
<1>6. AllRight(sent.query, Body, <<>>, input')
  <2>1. PICK q, b, f, raw : q = sent.query /\ b = Body /\ f = input' /\ raw = Raw
    OBVIOUS
  <2>2. raw = Over(Flattened(q), b)
    BY <2>1 DEF Raw
  <2> QED
    BY <1>5, <2>1, <2>2, CleanedRight
<1>7. FormOf(method)' = FormOf(method)
  BY <1>1 DEF FormOf
<1>8. FormInv'
  BY <1>1, <1>2, <1>4, <1>7 DEF InputInv, FormInv
<1>9. CleanInv'
  BY <1>1, <1>2, <1>3, <1>6 DEF InputInv, CleanInv
<1>10. MethodInv'
  BY <1>1 DEF InputInv, MethodInv
<1> QED
  BY <1>1, <1>8, <1>9, <1>10 DEF InputInv, ValidInv

LEMMA VerifyKeeps == InputInv /\ VerifyCsrfToken => InputInv'
<1> SUFFICES ASSUME InputInv, VerifyCsrfToken PROVE InputInv'
  OBVIOUS
<1>1. /\ pc = "csrf" /\ pc' \in {"handle", "refused"} /\ postForm' = Parsed
      /\ UNCHANGED <<sent, method, input, inputResolved, merges, rules, validated>>
  BY DEF VerifyCsrfToken
<1>2. Parsed = ReadAs /\ ReadAs' = ReadAs /\ Body' = Body /\ ReadAs # None
  BY <1>1, ParsedIs, SentStays, NoneApart DEF InputInv
<1>3. FormInv'
  BY <1>1, <1>2 DEF FormInv
<1>4. CleanInv'
  BY <1>1, <1>2 DEF InputInv, CleanInv
<1>5. MethodInv'
  BY <1>1 DEF InputInv, MethodInv
<1> QED
  BY <1>1, <1>3, <1>4, <1>5 DEF InputInv, ValidInv

\* What a handler's merge leaves as it was.
LEMMA HandlerKeeps ==
    ASSUME InputInv, pc = "handle", pc' = "handle", AllRight(sent.query, Body, merges', input'),
           merges' \in Seq(MergeType), UNCHANGED <<sent, method, postForm, inputResolved>>
    PROVE  InputInv'
<1>1. ReadAs' = ReadAs /\ Body' = Body
  BY SentStays
<1>2. FormOf(method)' = FormOf(method)
  BY DEF FormOf
<1>3. FormInv'
  BY <1>1, <1>2 DEF InputInv, FormInv
<1>4. CleanInv'
  BY <1>1 DEF InputInv, CleanInv
<1>5. MethodInv'
  BY DEF InputInv, MethodInv
<1> QED
  BY <1>3, <1>4, <1>5 DEF InputInv, ValidInv

LEMMA MergeKeeps ==
    ASSUME InputInv, NEW data \in Overlays, Merge(data) \/ MergeIfMissing(data)
    PROVE  InputInv'
<1>1. /\ pc = "handle" /\ pc' = "handle" /\ UNCHANGED <<sent, method, postForm, inputResolved>>
      /\ Input = input
  BY DEF InputInv, CleanInv, Input, Merge, MergeIfMissing
<1>2. PICK q, b, ms, f : q = sent.query /\ b = Body /\ ms = merges /\ f = input
  OBVIOUS
<1>3. ms \in Seq(MergeType) /\ AllRight(q, b, ms, f)
  BY <1>1, <1>2 DEF InputInv, CleanInv
<1>4. \A over \in BOOLEAN : [over |-> over, data |-> data] \in MergeType
  BY Zenon DEF MergeType
<1>5. CASE Merge(data)
  <2>1. PICK t : t = Append(ms, [over |-> TRUE, data |-> data])
    OBVIOUS
  <2>2. merges' = t /\ input' = Over(f, data)
    BY <1>1, <1>2, <1>5, <2>1 DEF Merge
  <2>3. AllRight(q, b, t, Over(f, data))
    BY <1>3, <2>1, MergeRight
  <2>4. t \in Seq(MergeType)
    BY <1>3, <1>4, <2>1, AppendProperties
  <2>5. AllRight(sent.query, Body, merges', input') /\ merges' \in Seq(MergeType)
    BY <1>2, <2>2, <2>3, <2>4
  <2> QED
    BY <1>1, <2>5, HandlerKeeps
<1>6. CASE MergeIfMissing(data)
  <2>1. PICK t : t = Append(ms, [over |-> FALSE, data |-> data])
    OBVIOUS
  <2>2. merges' = t /\ input' = Over(data, f)
    BY <1>1, <1>2, <1>6, <2>1 DEF MergeIfMissing
  <2>3. AllRight(q, b, t, Over(data, f))
    BY <1>3, <2>1, MergeIfMissingRight
  <2>4. t \in Seq(MergeType)
    BY <1>3, <1>4, <2>1, AppendProperties
  <2>5. AllRight(sent.query, Body, merges', input') /\ merges' \in Seq(MergeType)
    BY <1>2, <2>2, <2>3, <2>4
  <2> QED
    BY <1>1, <2>5, HandlerKeeps
<1> QED
  BY <1>5, <1>6

LEMMA ValidateKeeps ==
    ASSUME InputInv, NEW rs \in RuleSets, Validate(rs)
    PROVE  InputInv'
<1>1. /\ pc = "handle" /\ pc' \in {"panicked", "invalid", "valid"} /\ rules' = rs
      /\ UNCHANGED <<sent, method, postForm, input, inputResolved, merges>>
      /\ Input = input
  BY DEF InputInv, CleanInv, Input, Validate
<1>2. ReadAs' = ReadAs /\ Body' = Body
  BY <1>1, SentStays
<1>3. FormOf(method)' = FormOf(method)
  BY <1>1 DEF FormOf
<1>4. FormInv'
  BY <1>1, <1>2, <1>3 DEF InputInv, FormInv
<1>5. CleanInv'
  BY <1>1, <1>2 DEF InputInv, CleanInv
<1>6. MethodInv'
  BY <1>1 DEF InputInv, MethodInv
<1>7. ASSUME pc' = "valid"
      PROVE  /\ ~Unregistered(rs, Object(input))
             /\ Failed(rs, Object(input)) = {}
             /\ validated' = Validated(rs, Object(input))
  BY <1>1, <1>7 DEF Validate
<1>8. ValidInv'
  <2>1. ASSUME pc' = "valid"
        PROVE  /\ ~Unregistered(rules', Object(input'))
               /\ Failed(rules', Object(input')) = {}
               /\ validated' = Validated(rules', Object(input'))
    BY <1>1, <1>7, <2>1
  <2>2. /\ Unregistered(rules, Object(input))' = Unregistered(rules', Object(input'))
        /\ Failed(rules, Object(input))' = Failed(rules', Object(input'))
        /\ Validated(rules, Object(input))' = Validated(rules', Object(input'))
    OBVIOUS
  <2> QED
    BY <1>1, <2>1, <2>2 DEF ValidInv
<1> QED
  BY <1>1, <1>4, <1>5, <1>6, <1>8 DEF InputInv

LEMMA InputInvHolds == Spec => []InputInv
<1>1. Init => InputInv
  <2> SUFFICES ASSUME Init PROVE InputInv
    OBVIOUS
  <2>1. <<>> \in Seq(MergeType)
    OBVIOUS
  <2> QED
    BY <2>1 DEF Init, InputInv, FormInv, MethodInv, CleanInv, ValidInv
<1>2. InputInv /\ [Next]_vars => InputInv'
  <2> SUFFICES ASSUME InputInv, [Next]_vars PROVE InputInv'
    OBVIOUS
  <2>1. CASE UNCHANGED vars
    <3>1. /\ UNCHANGED <<pc, sent, method, postForm, input, inputResolved, merges, rules, validated>>
          /\ ReadAs' = ReadAs /\ Body' = Body /\ Raw' = Raw
      BY <2>1, SentStays DEF vars
    <3>2. FormOf(method)' = FormOf(method)
      BY <3>1 DEF FormOf
    <3> QED
      BY <3>1, <3>2 DEF InputInv, FormInv, MethodInv, CleanInv, ValidInv
  <2>2. CASE MethodSpoofing \/ TrimStrings \/ ConvertEmptyStringsToNull \/ VerifyCsrfToken
    BY <2>2, SpoofKeeps, TrimKeeps, ConvertKeeps, VerifyKeeps
  <2>3. ASSUME NEW data \in Overlays, Merge(data) \/ MergeIfMissing(data) PROVE InputInv'
    BY <2>3, MergeKeeps
  <2>4. ASSUME NEW rs \in RuleSets, Validate(rs) PROVE InputInv'
    BY <2>4, ValidateKeeps
  <2> QED
    BY <2>1, <2>2, <2>3, <2>4 DEF Next
<1> QED
  BY <1>1, <1>2, PTL DEF Spec

\* Whoever parses the body first, the method override, the CSRF check and the
\* handler read the same form (resolveInput, PostFormValue).
THEOREM BodyIsReadOnce == Spec => []OneReadingOfTheBody
<1>1. InputInv => OneReadingOfTheBody
  <2> SUFFICES ASSUME InputInv PROVE OneReadingOfTheBody
    OBVIOUS
  <2>1. postForm \in {None, <<>>, sent.body}
    BY DEF InputInv, FormInv, ReadAs
  <2>2. ASSUME pc \in {"handle", "refused"}, sent.type # "json"
        PROVE  postForm = ReadAs /\ postForm = IF BodyIsRead THEN sent.body ELSE <<>>
    BY <2>2 DEF InputInv, FormInv, ReadAs
  <2>3. ASSUME pc \in {"handle", "refused"}, sent.type # "json", merges = <<>>,
               NEW k \in DOMAIN postForm
        PROVE  input[k] = Nullified(Trimmed(Flat(postForm[k])))
    <3>1. k \in DOMAIN Body /\ Body[k] = Flat(postForm[k])
      BY <2>2, <2>3, BodyIs DEF Flattened
    <3>2. AllRight(sent.query, Body, merges, input)
      BY <2>3 DEF InputInv, CleanInv
    <3>3. k \in DOMAIN input /\ RightIn(sent.query, Body, merges, k, input[k])
      BY <3>1, <3>2 DEF AllRight
    <3>4. Having(merges, k, TRUE) = {}
      BY <2>3 DEF Having
    <3>5. input[k] = Clean(Body[k])
      BY <3>1, <3>3, <3>4 DEF RightIn
    <3> QED
      BY <3>1, <3>5, CleanIs
  <2> QED
    BY <2>1, <2>2, <2>3 DEF OneReadingOfTheBody, InputInv, MethodInv
<1> QED
  BY <1>1, InputInvHolds, PTL

\* A handler sees for each key the cleaned value of the body, or else of the query,
\* and of its merges what they should add (resolveInput, Merge, MergeIfMissing).
THEOREM HandlersSeeWhatWasSent == Spec => []InputIsWhatWasSent
<1>1. \A k, over : Merged(k, over) = Having(merges, k, over)
  BY DEF Merged, Having
<1>2. \A k, v : IsRight(k, v) <=> RightIn(sent.query, Body, merges, k, v)
  BY <1>1 DEF IsRight, RightIn
<1>3. InputInv => InputIsWhatWasSent
  <2> SUFFICES ASSUME InputInv, pc \in {"handle", "valid", "invalid"}
               PROVE  /\ DOMAIN input = DOMAIN Body \cup DOMAIN sent.query
                             \cup UNION {DOMAIN merges[i].data : i \in DOMAIN merges}
                      /\ \A k \in DOMAIN input : IsRight(k, input[k])
    BY DEF InputIsWhatWasSent
  <2>1. AllRight(sent.query, Body, merges, input)
    BY DEF InputInv, CleanInv
  <2>2. \A k \in DOMAIN input : IsRight(k, input[k])
    BY <1>2, <2>1 DEF AllRight
  <2>3. DOMAIN input = DOMAIN Body \cup DOMAIN sent.query
                             \cup UNION {DOMAIN merges[i].data : i \in DOMAIN merges}
    BY <2>1 DEF AllRight, Keys
  <2> QED
    BY <2>2, <2>3
<1> QED
  BY <1>3, InputInvHolds, PTL

----------------------------------------------------------------------------
(* Validation of a form *)

LEMMA Induction ==
    ASSUME NEW S, 0 \in S, \A n \in Nat : n \in S => n + 1 \in S
    PROVE  Nat \subseteq S
<1> DEFINE T == Nat \ S
           R == OpToRel(<, Nat)
<1> SUFFICES ASSUME T # {} PROVE FALSE
  OBVIOUS
<1>1. IsWellFoundedOn(R, Nat)
  BY NatLessThanWellFounded
<1>2. \A x, y \in Nat : <<y, x>> \in R <=> y < x
  BY DEF OpToRel
<1>3. T \subseteq Nat
  OBVIOUS
<1> HIDE DEF R, T
<1>4. PICK x \in T : \A y \in T : <<y, x>> \notin R
  BY <1>1, <1>3, WFMin
<1>5. x \in Nat /\ x \notin S
  BY <1>3 DEF T
<1>6. x # 0 /\ x - 1 \in Nat /\ (x - 1) + 1 = x /\ x - 1 < x
  BY <1>5
<1>7. x - 1 \in T
  BY <1>5, <1>6 DEF T
<1>8. <<x - 1, x>> \in R
  BY <1>2, <1>5, <1>6
<1> QED
  BY <1>4, <1>7, <1>8

\* The recursion of Lookup, and what solves it for the first n segments.
Walk(found, data, path, k) ==
    IF k = 0 THEN [ok |-> TRUE, value |-> data] ELSE Segment(found[k - 1], path[k])
Walks(found, data, path, n) == found = [k \in 0..n |-> Walk(found, data, path, k)]

LEMMA SomeWalks ==
    ASSUME NEW data, NEW path, NEW n \in Nat
    PROVE  \E found : Walks(found, data, path, n)
<1> DEFINE Good == {m \in Nat : \E found : Walks(found, data, path, m)}
<1>1. 0 \in Good
  <2> DEFINE g == [k \in 0..0 |-> [ok |-> TRUE, value |-> data]]
  <2>1. \A k \in 0..0 : g[k] = Walk(g, data, path, k)
    BY DEF Walk
  <2>2. g = [k \in 0..0 |-> g[k]]
    OBVIOUS
  <2> HIDE DEF g
  <2>3. Walks(g, data, path, 0)
    BY <2>1, <2>2 DEF Walks
  <2> QED
    BY <2>3
<1>2. ASSUME NEW m \in Nat, m \in Good PROVE m + 1 \in Good
  <2>1. PICK f : Walks(f, data, path, m)
    BY <1>2
  <2> DEFINE g == [k \in 0..(m + 1) |-> IF k = m + 1 THEN Walk(f, data, path, k) ELSE f[k]]
  <2>2. \A k \in 0..(m + 1) : g[k] = Walk(g, data, path, k)
    <3> SUFFICES ASSUME NEW k \in 0..(m + 1) PROVE g[k] = Walk(g, data, path, k)
      OBVIOUS
    <3>1. k # 0 => k - 1 \in 0..m /\ g[k - 1] = f[k - 1]
      OBVIOUS
    <3>2. k \in 0..m => f[k] = Walk(f, data, path, k)
      BY <2>1 DEF Walks
    <3>3. g[k] = Walk(f, data, path, k)
      BY <3>2
    <3> QED
      BY <3>1, <3>3 DEF Walk
  <2>3. g = [k \in 0..(m + 1) |-> g[k]]
    OBVIOUS
  <2> HIDE DEF g
  <2>4. Walks(g, data, path, m + 1)
    BY <2>2, <2>3 DEF Walks
  <2> QED
    BY <2>4
<1> HIDE DEF Good
<1>3. n \in Good
  BY <1>1, <1>2, Induction
<1> QED
  BY <1>3 DEF Good

LEMMA LookupWalks ==
    ASSUME NEW data, NEW path, Len(path) \in Nat
    PROVE  \E found : Walks(found, data, path, Len(path)) /\ Lookup(data, path) = found[Len(path)]
<1>1. \E found : Walks(found, data, path, Len(path))
  BY SomeWalks
<1> DEFINE f == CHOOSE g : g = [k \in 0..Len(path) |->
                IF k = 0 THEN [ok |-> TRUE, value |-> data] ELSE Segment(g[k - 1], path[k])]
<1>2. f = [k \in 0..Len(path) |->
                IF k = 0 THEN [ok |-> TRUE, value |-> data] ELSE Segment(f[k - 1], path[k])]
  BY <1>1 DEF Walks, Walk
<1>3. Lookup(data, path) = f[Len(path)]
  BY DEF Lookup
<1> HIDE DEF f
<1>4. Walks(f, data, path, Len(path))
  BY <1>2 DEF Walks, Walk
<1> QED
  BY <1>3, <1>4

\* In a map without maps, a name of one segment is a key and a longer one is absent.
LEMMA LookupFlat ==
    ASSUME NEW f, \A k \in DOMAIN f : f[k].kind # "map",
           NEW path, Len(path) \in Nat, Len(path) # 0
    PROVE  Lookup(Object(f), path) =
               IF Len(path) = 1 /\ path[1] \in DOMAIN f
               THEN [ok |-> TRUE, value |-> f[path[1]]] ELSE Absent
<1>1. PICK n \in Nat : n = Len(path) /\ n # 0
  OBVIOUS
<1>2. PICK g : Walks(g, Object(f), path, n) /\ Lookup(Object(f), path) = g[n]
  BY <1>1, LookupWalks
<1>3. /\ g[0] = [ok |-> TRUE, value |-> Object(f)]
      /\ \A k \in 1..n : g[k] = Segment(g[k - 1], path[k])
  <2>1. \A k \in 0..n : g[k] = Walk(g, Object(f), path, k)
    BY <1>2 DEF Walks
  <2>2. 0 \in 0..n /\ \A k \in 1..n : k \in 0..n /\ k # 0
    BY <1>1
  <2>3. g[0] = [ok |-> TRUE, value |-> Object(f)]
    BY <2>1, <2>2 DEF Walk
  <2>4. \A k \in 1..n : g[k] = Segment(g[k - 1], path[k])
    BY <2>1, <2>2 DEF Walk
  <2> QED
    BY <2>3, <2>4
<1>4. g[1] = IF path[1] \in DOMAIN f THEN [ok |-> TRUE, value |-> f[path[1]]] ELSE Absent
  <2>1. 1 \in 1..n /\ 1 - 1 = 0
    BY <1>1
  <2>2. g[1] = Segment(g[0], path[1])
    BY <1>3, <2>1
  <2>3. Object(f).kind = "map" /\ Object(f).of = f
    BY DEF Object
  <2>4. PICK x : x = g[0] /\ x.ok = TRUE /\ x.value.kind = "map" /\ x.value.of = f
    BY <1>3, <2>3
  <2> QED
    BY <2>2, <2>4 DEF Segment
<1> DEFINE Dead(x) == ~(x.ok /\ x.value.kind = "map")
           Good == {m \in Nat : m + 1 <= n => Dead(g[m + 1])}
<1>5. Absent.ok = FALSE
  BY DEF Absent
<1>6. \A x, name : Dead(x) => Segment(x, name) = Absent
  BY DEF Segment
<1>7. 0 \in Good
  <2>1. Dead(g[1])
    BY <1>4, <1>5
  <2> QED
    BY <2>1
<1>8. ASSUME NEW m \in Nat, m \in Good PROVE m + 1 \in Good
  <2> SUFFICES ASSUME (m + 1) + 1 <= n PROVE Dead(g[(m + 1) + 1])
    OBVIOUS
  <2>1. (m + 1) + 1 \in 1..n /\ ((m + 1) + 1) - 1 = m + 1 /\ m + 1 <= n
    BY <1>1
  <2>2. Dead(g[m + 1])
    BY <1>8, <2>1
  <2>3. g[(m + 1) + 1] = Segment(g[m + 1], path[(m + 1) + 1])
    BY <1>3, <2>1
  <2> QED
    BY <1>5, <1>6, <2>2, <2>3
<1> HIDE DEF Good
<1>9. \A m \in Nat : m + 1 <= n => Dead(g[m + 1])
  <2>1. Nat \subseteq Good
    BY <1>7, <1>8, Induction
  <2> QED
    BY <2>1 DEF Good
<1>10. CASE n = 1
  BY <1>1, <1>2, <1>4, <1>10
<1>11. CASE n # 1
  <2>1. n - 2 \in Nat /\ (n - 2) + 1 = n - 1 /\ n - 1 <= n /\ n \in 1..n
    BY <1>1, <1>11
  <2>2. Dead(g[n - 1])
    BY <1>9, <2>1
  <2>3. g[n] = Segment(g[n - 1], path[n])
    BY <1>3, <2>1
  <2>4. g[n] = Absent
    BY <1>6, <2>2, <2>3
  <2> QED
    BY <1>1, <1>2, <1>11, <2>4
<1> QED
  BY <1>10, <1>11

\* What a cleaned value of a form is, and how it is measured and printed.
LEMMA CleanFacts ==
    ASSUME NEW v \in CleanValue
    PROVE  /\ v.kind # "map"
           /\ \/ v = Null /\ SizeOf(v) = <<>> /\ \A t : Sprint(v) # Str(t)
              \/ \E t \in Text : /\ v = Str(t) /\ t # "" /\ About[t].trimmed = t
                                 /\ SizeOf(v) = <<About[t].length>> /\ Sprint(v) = Str(t)
              \/ /\ v.kind = "strings" /\ SizeOf(v) = <<>> /\ \A t : Sprint(v) # Str(t)
<1>1. \A t : Str(t).kind = "string" /\ Str(t).text = t
  BY DEF Str
<1>2. CASE v = Null
  <2>1. v.kind = "null"
    BY <1>2 DEF Null
  <2>2. SizeOf(v) = <<>>
    BY <2>1 DEF SizeOf, IsStr
  <2>3. Sprint(v) = v
    BY <2>1 DEF Sprint
  <2> QED
    BY <1>1, <1>2, <2>1, <2>2, <2>3
<1>3. ASSUME NEW t \in Text, t # "", About[t].trimmed = t, v = Str(t)
      PROVE  /\ v.kind # "map" /\ SizeOf(v) = <<About[t].length>> /\ Sprint(v) = Str(t)
  <2>1. v.kind = "string" /\ v.text = t
    BY <1>1, <1>3
  <2>2. SizeOf(v) = <<About[t].length>>
    BY <2>1 DEF SizeOf, IsStr, FactsOf
  <2>3. Sprint(v) = v
    BY <2>1 DEF Sprint
  <2> QED
    BY <1>3, <2>1, <2>2, <2>3
<1>4. ASSUME NEW ts \in Seq(Text), v = Strs(ts)
      PROVE  /\ v.kind = "strings" /\ SizeOf(v) = <<>> /\ \A t : Sprint(v) # Str(t)
  <2>1. v.kind = "strings" /\ v.items = ts
    BY <1>4 DEF Strs
  <2>2. SizeOf(v) = <<>>
    BY <2>1 DEF SizeOf, IsStr
  <2>3. PICK w : w = [k \in DOMAIN v.items |-> Str(v.items[k])]
    OBVIOUS
  <2>4. Sprint(v) = List(w)
    BY <2>1, <2>3 DEF Sprint
  <2>5. List(w).kind = "list"
    BY DEF List
  <2> QED
    BY <1>1, <2>1, <2>2, <2>4, <2>5
<1>5. \/ v = Null
      \/ \E t \in Text : t # "" /\ About[t].trimmed = t /\ v = Str(t)
      \/ \E ts \in Seq(Text) : v = Strs(ts)
  BY DEF CleanValue
<1> QED
  BY <1>2, <1>3, <1>4, <1>5

\* What a form's fields have become when they are validated.
LEMMA FormFields ==
    ASSUME InputInv, pc = "valid", sent.type # "json", merges = <<>>, NEW k \in DOMAIN input
    PROVE  \E form \in {sent.query, sent.body} :
               k \in DOMAIN form /\ form[k] \in Seq(Text) /\ input[k] = Clean(Flat(form[k]))
<1>1. AllRight(sent.query, Body, merges, input) /\ SentType(sent)
  BY SentAssumption DEF InputInv, CleanInv
<1>2. RightIn(sent.query, Body, merges, k, input[k])
  BY <1>1 DEF AllRight
<1>3. \A over : Having(merges, k, over) = {}
  BY DEF Having
<1>4. \/ k \in DOMAIN Body /\ input[k] = Clean(Body[k])
      \/ k \in DOMAIN sent.query /\ input[k] = Clean(Flat(sent.query[k]))
  BY <1>2, <1>3 DEF RightIn
<1>5. CASE k \in DOMAIN Body /\ input[k] = Clean(Body[k])
  <2>1. k \in DOMAIN ReadAs /\ Body[k] = Flat(ReadAs[k])
    BY <1>5, BodyIs DEF Flattened
  <2>2. ReadAs = sent.body /\ sent.type \in {"form", "multipart"}
    BY <2>1 DEF ReadAs, BodyIsRead
  <2>3. sent.body[k] \in Seq(Text)
    BY <1>1, <2>1, <2>2 DEF SentType
  <2> QED
    BY <1>5, <2>1, <2>2, <2>3
<1>6. CASE k \in DOMAIN sent.query /\ input[k] = Clean(Flat(sent.query[k]))
  BY <1>1, <1>6 DEF SentType
<1> QED
  BY <1>4, <1>5, <1>6

\* What the validation of a required field with a minimum has found.
LEMMA TextFound ==
    ASSUME NEW f, \A k \in DOMAIN f : f[k] \in CleanValue,
           NEW rs, NEW path \in DOMAIN rs, path \in Seq(STRING), path # <<>>,
           DOMAIN Custom \cap {"required", "min", "confirmed"} = {},
           Failed(rs, Object(f)) = {},
           NEW need \in ToSet(rs[path]), need.name = "required",
           NEW least \in ToSet(rs[path]), least.name = "min", least.args # <<>>
    PROVE  \E k \in DOMAIN f, t \in Text :
               /\ path = <<k>> /\ f[k] = Str(t) /\ About[t].trimmed = t
               /\ Lookup(Object(f), path) = [ok |-> TRUE, value |-> Str(t)]
               /\ \A rule \in ToSet(rs[path]) :
                      Passes(rule, path, Str(t), Object(f))
               /\ \A rule \in ToSet(rs[path]) :
                      rule.name = "min" /\ rule.args # <<>> => About[t].length >= rule.args[1]
<1>1. PICK found : found = Lookup(Object(f), path)
  OBVIOUS
<1>2. \A rule \in Fired(rs, path, Object(f)) : Passes(rule, path, found.value, Object(f))
  BY <1>1 DEF Failed
<1>3. need \in Fired(rs, path, Object(f))
  BY DEF Fired
<1>4. ~IsEmpty(found.value)
  <2>1. Passes(need, path, found.value, Object(f))
    BY <1>2, <1>3
  <2>2. need.name \notin DOMAIN Custom
    OBVIOUS
  <2> QED
    BY <2>1, <2>2 DEF Passes
<1>5. \A k \in DOMAIN f : f[k].kind # "map"
  BY CleanFacts
<1>6. Len(path) \in Nat /\ Len(path) # 0
  BY LenProperties, EmptySeq
<1>7. found = IF Len(path) = 1 /\ path[1] \in DOMAIN f
              THEN [ok |-> TRUE, value |-> f[path[1]]] ELSE Absent
  BY <1>1, <1>5, <1>6, LookupFlat
<1>8. Absent.value = Null /\ IsEmpty(Null)
  BY DEF Absent, IsEmpty
<1>9. PICK k \in DOMAIN f : Len(path) = 1 /\ path[1] = k /\ found = [ok |-> TRUE, value |-> f[k]]
  BY <1>4, <1>7, <1>8
<1>10. path = <<k>>
  <2>1. path \in [1..1 -> STRING] /\ path[1] = k
    BY <1>9, LenProperties
  <2>2. DOMAIN <<k>> = 1..1 /\ <<k>>[1] = k
    OBVIOUS
  <2>3. \A i \in 1..1 : i = 1
    OBVIOUS
  <2> QED
    BY <2>1, <2>2, <2>3
<1>11. found.ok = TRUE /\ found.value = f[k]
  BY <1>9
<1>12. \A rule \in ToSet(rs[path]) : rule \in Fired(rs, path, Object(f))
  BY <1>1, <1>4, <1>11 DEF Fired
<1>13. \A rule \in ToSet(rs[path]) : Passes(rule, path, f[k], Object(f))
  BY <1>2, <1>11, <1>12
<1>14. ASSUME NEW rule \in ToSet(rs[path]), rule.name = "min", rule.args # <<>>
       PROVE  SizeOf(f[k]) # <<>> /\ SizeOf(f[k])[1] >= rule.args[1]
  <2>1. Passes(rule, path, f[k], Object(f))
    BY <1>13
  <2>2. rule.name \notin DOMAIN Custom
    BY <1>14
  <2>3. RuleMin(f[k], rule.args[1])
    BY <1>14, <2>1, <2>2 DEF Passes
  <2> QED
    BY <2>3 DEF RuleMin
<1>15. SizeOf(f[k]) # <<>>
  BY <1>14
<1>16. PICK v \in CleanValue : v = f[k]
  OBVIOUS
<1>17. PICK t \in Text : v = Str(t) /\ About[t].trimmed = t /\ SizeOf(v) = <<About[t].length>>
  BY <1>15, <1>16, CleanFacts
<1>18. SizeOf(v)[1] = About[t].length
  BY <1>17
<1> QED
  BY <1>1, <1>9, <1>10, <1>13, <1>14, <1>16, <1>17, <1>18

\* The field that confirms it holds the same text.
LEMMA Confirmed ==
    ASSUME NEW f, \A k \in DOMAIN f : f[k] \in CleanValue,
           NEW k, NEW t \in Text, NEW rule, rule.name = "confirmed", rule.name \notin DOMAIN Custom,
           Passes(rule, <<k>>, Str(t), Object(f))
    PROVE  \E c \in DOMAIN f : <<c>> = Confirmation(<<k>>) /\ f[c] = Str(t)
<1>1. PICK c : c = Suffixed[k]
  OBVIOUS
<1>2. Confirmation(<<k>>) = <<c>>
  BY <1>1 DEF Confirmation
<1>3. Same(Str(t), Lookup(Object(f), <<c>>))
  BY <1>2 DEF Passes
<1>4. PICK other : other = Lookup(Object(f), <<c>>)
  OBVIOUS
<1>5. other.ok /\ Sprint(other.value) = Sprint(Str(t))
  BY <1>3, <1>4 DEF Same
<1>6. \A x \in DOMAIN f : f[x].kind # "map"
  BY CleanFacts
<1>7. PICK p : p = <<c>> /\ Len(p) = 1 /\ p[1] = c
  <2>1. <<c>> \in Seq({c}) /\ DOMAIN <<c>> = 1..1 /\ <<c>>[1] = c
    OBVIOUS
  <2>2. Len(<<c>>) = 1
    OBVIOUS
  <2> QED
    BY <2>1, <2>2
<1>8. Lookup(Object(f), p) = IF Len(p) = 1 /\ p[1] \in DOMAIN f
                             THEN [ok |-> TRUE, value |-> f[p[1]]] ELSE Absent
  <2>1. Len(p) \in Nat /\ Len(p) # 0
    BY <1>7
  <2> QED
    BY <1>6, <2>1, LookupFlat
<1>9. Absent.ok = FALSE
  BY DEF Absent
<1>10. c \in DOMAIN f /\ other.value = f[c]
  BY <1>4, <1>5, <1>7, <1>8, <1>9
<1>11. Sprint(Str(t)) = Str(t)
  <2>1. Str(t).kind = "string"
    BY DEF Str
  <2> QED
    BY <2>1 DEF Sprint
<1>12. PICK v \in CleanValue : v = f[c]
  BY <1>10
<1>13. v = Str(t)
  <2>1. Sprint(v) = Str(t)
    BY <1>5, <1>10, <1>11, <1>12
  <2>2. \E u \in Text : v = Str(u) /\ Sprint(v) = Str(u)
    BY <2>1, CleanFacts
  <2> QED
    BY <2>1, <2>2
<1> QED
  BY <1>2, <1>10, <1>12, <1>13

\* As long as nobody replaces the rules in question, the string that a controller
\* takes for a validated field of a form is the one that was sent, trimmed, as long
\* as required, and sent twice if it must be (Validator.Validated, AuthController).
THEOREM ControllersGetTheText ==
    ASSUME DOMAIN Custom \cap {"required", "min", "confirmed"} = {}
    PROVE  Spec => []ControllerGetsTheText
<1>1. InputInv => ControllerGetsTheText
  <2> SUFFICES ASSUME InputInv, pc = "valid", sent.type # "json", merges = <<>>,
                      NEW path \in DOMAIN rules,
                      HasRule(path, "required"), Minima(path) # {}
               PROVE  /\ About[AsString(path)].trimmed = AsString(path)
                      /\ \A n \in Minima(path) : About[AsString(path)].length >= n
                      /\ HasRule(path, "confirmed") =>
                             \E ts \in {sent.query, sent.body} : \E k \in DOMAIN ts :
                                 /\ <<k>> = Confirmation(path)
                                 /\ About[ts[k][1]].trimmed = AsString(path)
    BY DEF ControllerGetsTheText
  <2>1. PICK f, rs : f = input /\ rs = rules
    OBVIOUS
  <2>2. /\ rs \in RuleSets /\ Failed(rs, Object(f)) = {} /\ validated = Validated(rs, Object(f))
        /\ path \in Seq(STRING) /\ path # <<>>
    BY <2>1, RuleSetsAssumption DEF InputInv, ValidInv
  <2>3. ASSUME NEW k \in DOMAIN f
        PROVE  \E form \in {sent.query, sent.body} :
                   k \in DOMAIN form /\ form[k] \in Seq(Text) /\ f[k] = Clean(Flat(form[k]))
    BY <2>1, FormFields
  <2>4. \A k \in DOMAIN f : f[k] \in CleanValue
    BY <2>3, CleanType
  <2>5. PICK need \in ToSet(rs[path]) : need.name = "required"
    BY <2>1 DEF HasRule
  <2>6. PICK least \in ToSet(rs[path]) : least.name = "min" /\ least.args # <<>>
    BY <2>1 DEF Minima
  <2>7. PICK k \in DOMAIN f, t \in Text :
               /\ path = <<k>> /\ f[k] = Str(t) /\ About[t].trimmed = t
               /\ Lookup(Object(f), path) = [ok |-> TRUE, value |-> Str(t)]
               /\ \A rule \in ToSet(rs[path]) :
                      Passes(rule, path, Str(t), Object(f))
               /\ \A rule \in ToSet(rs[path]) :
                      rule.name = "min" /\ rule.args # <<>> => About[t].length >= rule.args[1]
    BY <2>1, <2>2, <2>4, <2>5, <2>6, TextFound
  <2>8. AsString(path) = t
    <3>1. path \in DOMAIN validated /\ validated[path] = Str(t)
      BY <2>1, <2>2, <2>7 DEF Validated
    <3>2. IsStr(Str(t)) /\ Str(t).text = t
      BY DEF IsStr, Str
    <3> QED
      BY <3>1, <3>2 DEF AsString
  <2>9. \A n \in Minima(path) : About[t].length >= n
    BY <2>1, <2>7 DEF Minima
  <2>10. ASSUME HasRule(path, "confirmed")
         PROVE  \E ts \in {sent.query, sent.body} : \E c \in DOMAIN ts :
                    /\ <<c>> = Confirmation(path)
                    /\ About[ts[c][1]].trimmed = t
    <3>1. PICK rule \in ToSet(rs[path]) : rule.name = "confirmed"
      BY <2>1, <2>10 DEF HasRule
    <3>2. Passes(rule, <<k>>, Str(t), Object(f)) /\ rule.name \notin DOMAIN Custom
      BY <2>7, <3>1
    <3>3. PICK c \in DOMAIN f : <<c>> = Confirmation(<<k>>) /\ f[c] = Str(t)
      BY <2>4, <3>1, <3>2, Confirmed
    <3>4. PICK form \in {sent.query, sent.body} :
              c \in DOMAIN form /\ form[c] \in Seq(Text) /\ f[c] = Clean(Flat(form[c]))
      BY <2>3
    <3>5. About[form[c][1]].trimmed = t
      BY <3>3, <3>4, CleanType
    <3> QED
      BY <2>7, <3>3, <3>4, <3>5
  <2> QED
    BY <2>7, <2>8, <2>9, <2>10
<1> QED
  BY <1>1, InputInvHolds, PTL

=============================================================================
