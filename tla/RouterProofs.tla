---------------------------- MODULE RouterProofs ----------------------------
(* Proofs about Router, for any declarations, plain routes, paths and number *)
(* of calls.                                                                 *)
EXTENDS Router, TLAPS, WellFoundedInduction

(***************************************************************************)
(* What Kept returns.  Its facts are proved by induction on the length of  *)
(* the sequence, which takes the form of a set of naturals.                *)
(***************************************************************************)

LEMMA LeastNatural ==
    ASSUME NEW T, T \subseteq Nat, T # {}
    PROVE  \E x \in T : \A y \in T : x <= y
<1> DEFINE R == OpToRel(<, Nat)
<1>1. IsWellFoundedOn(R, Nat)
  BY NatLessThanWellFounded
<1>2. \A x, y \in Nat : <<y, x>> \in R <=> y < x
  BY DEF OpToRel
<1> HIDE DEF R
<1>3. \E x \in T : \A y \in T : <<y, x>> \notin R
  BY <1>1, WFMin
<1>4. PICK x \in T : \A y \in T : <<y, x>> \notin R
  BY <1>3
<1>5. \A y \in T : x <= y
  <2> SUFFICES ASSUME NEW y \in T PROVE x <= y
    OBVIOUS
  <2>1. x \in Nat /\ y \in Nat
    OBVIOUS
  <2>2. ~(y < x)
    BY <1>2, <1>4, <2>1
  <2> QED
    BY <2>1, <2>2
<1> QED
  BY <1>5

LEMMA Induction ==
    ASSUME NEW S, 0 \in S, \A n \in Nat : n \in S => n + 1 \in S
    PROVE  Nat \subseteq S
<1> SUFFICES ASSUME Nat \ S # {} PROVE FALSE
  OBVIOUS
<1>1. PICK n \in Nat \ S : \A m \in Nat \ S : n <= m
  BY LeastNatural
<1>2. n # 0 /\ n - 1 \in Nat /\ n - 1 \in S
  BY <1>1
<1> QED
  BY <1>1, <1>2

\* One more step of the recursion in Kept.
Longer(s, S, f, i) ==
    IF i = 0 THEN << >>
    ELSE IF s[i] \in S THEN Append(f[i - 1], s[i])
    ELSE f[i - 1]

\* The recursion of Kept has a solution.
LEMMA KeptFunction ==
    ASSUME NEW T, NEW s \in Seq(T), NEW S
    PROVE  \E f : /\ \A i \in 0..Len(s) : f[i] = Longer(s, S, f, i)
                  /\ Kept(s, S) = f[Len(s)]
<1> DEFINE Is(f, n) == f = [i \in 0..n |-> Longer(s, S, f, i)]
           Good == {n \in Nat : \E f : Is(f, n)}
<1>1. 0 \in Good
  <2>1. Is([i \in 0..0 |-> << >>], 0)
    BY DEF Longer
  <2> QED
    BY <2>1
<1>2. ASSUME NEW n \in Nat, n \in Good PROVE n + 1 \in Good
  <2>1. PICK f : Is(f, n)
    BY <1>2
  <2> DEFINE g == [i \in 0..(n + 1) |-> IF i = n + 1 THEN Longer(s, S, f, i) ELSE f[i]]
  <2>2. \A i \in 0..(n + 1) : g[i] = Longer(s, S, g, i)
    <3> SUFFICES ASSUME NEW i \in 0..(n + 1) PROVE g[i] = Longer(s, S, g, i)
      OBVIOUS
    <3>1. i # 0 => i - 1 \in 0..n /\ g[i - 1] = f[i - 1]
      OBVIOUS
    <3>2. i \in 0..n => f[i] = Longer(s, S, f, i)
      BY <2>1
    <3>3. g[i] = Longer(s, S, f, i)
      BY <3>2
    <3> QED
      BY <3>1, <3>3 DEF Longer
  <2>3. g = [i \in 0..(n + 1) |-> g[i]]
    OBVIOUS
  <2> HIDE DEF g
  <2>4. Is(g, n + 1)
    BY <2>2, <2>3
  <2>5. \E h : Is(h, n + 1)
    BY <2>4
  <2> QED
    BY <2>5
<1> HIDE DEF Good
<1>3. Nat \subseteq Good
  BY <1>1, <1>2, Induction
<1>4. Len(s) \in Good
  BY <1>3
<1>5. \E f : Is(f, Len(s))
  BY <1>4 DEF Good
<1> DEFINE f == CHOOSE h : h = [i \in 0..Len(s) |->
                                  IF i = 0 THEN << >>
                                  ELSE IF s[i] \in S THEN Append(h[i - 1], s[i])
                                  ELSE h[i - 1]]
<1>6. f = [i \in 0..Len(s) |-> IF i = 0 THEN << >>
                               ELSE IF s[i] \in S THEN Append(f[i - 1], s[i])
                               ELSE f[i - 1]]
  BY <1>5 DEF Longer
<1>7. Kept(s, S) = f[Len(s)]
  BY DEF Kept
<1> HIDE DEF f
<1>8. \A i \in 0..Len(s) : f[i] = Longer(s, S, f, i)
  BY <1>6 DEF Longer
<1> QED
  BY <1>7, <1>8

\* k consists of what the first n entries of s have in S; at says which.
Embeds(at, k, s, n, S) ==
    /\ at \in [1..Len(k) -> 1..n]
    /\ \A i \in 1..Len(k) : k[i] = s[at[i]] /\ k[i] \in S
    /\ \A i, j \in 1..Len(k) : i < j => at[i] < at[j]
    /\ \A a \in 1..n : s[a] \in S => \E i \in 1..Len(k) : at[i] = a

\* Kept is the subsequence of the entries in S.
LEMMA KeptEmbeds ==
    ASSUME NEW T, NEW s \in Seq(T), NEW S
    PROVE  /\ Kept(s, S) \in Seq(T)
           /\ \E at : Embeds(at, Kept(s, S), s, Len(s), S)
<1>1. PICK f : (\A i \in 0..Len(s) : f[i] = Longer(s, S, f, i)) /\ Kept(s, S) = f[Len(s)]
  BY KeptFunction
<1> DEFINE Good == {n \in Nat : n <= Len(s) =>
                        f[n] \in Seq(T) /\ \E at : Embeds(at, f[n], s, n, S)}
<1>2. 0 \in Good
  <2>1. f[0] = << >>
    BY <1>1 DEF Longer
  <2>2. Embeds([i \in {} |-> 0], f[0], s, 0, S)
    BY <2>1 DEF Embeds
  <2>3. f[0] \in Seq(T) /\ \E at : Embeds(at, f[0], s, 0, S)
    BY <2>1, <2>2
  <2> QED
    BY <2>3
<1>3. ASSUME NEW n \in Nat, n \in Good PROVE n + 1 \in Good
  <2> SUFFICES ASSUME n + 1 <= Len(s)
               PROVE  f[n + 1] \in Seq(T) /\ \E at : Embeds(at, f[n + 1], s, n + 1, S)
    OBVIOUS
  <2>1. f[n] \in Seq(T) /\ s[n + 1] \in T
    BY <1>3
  <2>2. PICK at : Embeds(at, f[n], s, n, S)
    BY <1>3
  <2>3. f[n + 1] = IF s[n + 1] \in S THEN Append(f[n], s[n + 1]) ELSE f[n]
    BY <1>1 DEF Longer
  <2> DEFINE m == Len(f[n])
             more == [i \in 1..(m + 1) |-> IF i = m + 1 THEN n + 1 ELSE at[i]]
  <2>4. CASE s[n + 1] \in S
    <3>1. /\ f[n + 1] \in Seq(T)
          /\ Len(f[n + 1]) = m + 1
          /\ f[n + 1][m + 1] = s[n + 1]
          /\ \A i \in 1..m : f[n + 1][i] = f[n][i]
      BY <2>1, <2>3, <2>4
    <3>2. m \in Nat
      BY <2>1
    <3>3. /\ more[m + 1] = n + 1
          /\ \A i \in 1..m : more[i] = at[i] /\ at[i] \in 1..n
          /\ more \in [1..(m + 1) -> 1..(n + 1)]
      <4>1. \A i \in 1..m : at[i] \in 1..n
        BY <2>2 DEF Embeds
      <4>2. \A i \in 1..(m + 1) : more[i] \in 1..(n + 1)
        BY <4>1
      <4> QED
        BY <3>2, <4>1, <4>2
    <3> HIDE DEF more
    <3>4. ASSUME NEW i \in 1..(m + 1), NEW j \in 1..(m + 1), i < j PROVE more[i] < more[j]
      <4>1. i \in 1..m /\ (j \in 1..m \/ j = m + 1)
        BY <3>2, <3>4
      <4>2. j \in 1..m => at[i] < at[j]
        BY <2>2, <3>4, <4>1 DEF Embeds
      <4> QED
        BY <3>3, <4>1, <4>2
    <3>5. ASSUME NEW i \in 1..(m + 1) PROVE f[n + 1][i] = s[more[i]] /\ f[n + 1][i] \in S
      <4>1. i \in 1..m \/ i = m + 1
        BY <3>2
      <4>2. i \in 1..m => f[n][i] = s[at[i]] /\ f[n][i] \in S
        BY <2>2 DEF Embeds
      <4> QED
        BY <2>4, <3>1, <3>3, <4>1, <4>2
    <3>6. ASSUME NEW a \in 1..(n + 1), s[a] \in S PROVE \E i \in 1..(m + 1) : more[i] = a
      <4>1. CASE a = n + 1
        BY <3>2, <3>3, <4>1
      <4>2. CASE a # n + 1
        <5>1. PICK i \in 1..m : at[i] = a
          BY <2>2, <3>6, <4>2 DEF Embeds
        <5> QED
          BY <3>2, <3>3, <5>1
      <4> QED
        BY <4>1, <4>2
    <3>7. Embeds(more, f[n + 1], s, n + 1, S)
      BY <3>1, <3>3, <3>4, <3>5, <3>6 DEF Embeds
    <3> QED
      BY <3>1, <3>7
  <2>5. CASE s[n + 1] \notin S
    <3>1. Embeds(at, f[n + 1], s, n + 1, S)
      BY <2>1, <2>2, <2>3, <2>5 DEF Embeds
    <3> QED
      BY <2>1, <2>3, <2>5, <3>1
  <2> QED
    BY <2>4, <2>5
<1> HIDE DEF Good
<1>4. Nat \subseteq Good
  BY <1>2, <1>3, Induction
<1>5. Len(s) \in Good
  BY <1>4
<1> QED
  BY <1>1, <1>5 DEF Good

\* Where every entry is in S, nothing is left out.
LEMMA KeptWhole ==
    ASSUME NEW T, NEW s \in Seq(T), NEW S, \A i \in 1..Len(s) : s[i] \in S
    PROVE  Len(Kept(s, S)) = Len(s)
<1>1. PICK f : (\A i \in 0..Len(s) : f[i] = Longer(s, S, f, i)) /\ Kept(s, S) = f[Len(s)]
  BY KeptFunction
<1> DEFINE Good == {n \in Nat : n <= Len(s) => f[n] \in Seq(T) /\ Len(f[n]) = n}
<1>2. 0 \in Good
  <2>1. f[0] = << >>
    BY <1>1 DEF Longer
  <2>2. f[0] \in Seq(T) /\ Len(f[0]) = 0
    BY <2>1
  <2> QED
    BY <2>2
<1>3. ASSUME NEW n \in Nat, n \in Good PROVE n + 1 \in Good
  <2> SUFFICES ASSUME n + 1 <= Len(s) PROVE f[n + 1] \in Seq(T) /\ Len(f[n + 1]) = n + 1
    OBVIOUS
  <2>1. f[n] \in Seq(T) /\ Len(f[n]) = n /\ s[n + 1] \in T /\ s[n + 1] \in S
    BY <1>3
  <2>2. n + 1 \in 0..Len(s) /\ n + 1 # 0 /\ (n + 1) - 1 = n
    OBVIOUS
  <2>3. f[n + 1] = Append(f[n], s[n + 1])
    BY <1>1, <2>1, <2>2 DEF Longer
  <2> QED
    BY <2>1, <2>3
<1> HIDE DEF Good
<1>4. Nat \subseteq Good
  BY <1>2, <1>3, Induction
<1>5. Len(s) \in Good
  BY <1>4
<1> QED
  BY <1>1, <1>5 DEF Good

----------------------------------------------------------------------------
(* The tables of actions *)

Fixed == {s \in Segment : ~s.optional}
Entry == [name : ActionName, methods : SUBSET Method, suffix : Seq(Fixed)]

\* What register() relies on where an action a stands before b in a table.
Precedes(a, b) ==
    /\ a.name # b.name
    /\ a.methods \cap b.methods # {} =>
           /\ \A s \in DOMAIN a.suffix : a.suffix[s].param =>
                  s \in DOMAIN b.suffix /\ b.suffix[s].param
           /\ a.name \in MemberActions => b.name \in MemberActions
           /\ a.name \notin MemberActions /\ b.name \in MemberActions =>
                  /\ \A s \in DOMAIN a.suffix : ~a.suffix[s].param
                  /\ Len(b.suffix) \in {0, 1, 2}
                  /\ Len(b.suffix) = 2 => b.suffix[1].param

InOrder(table) ==
    /\ table \in Seq(Entry)
    /\ \A p, q \in DOMAIN table : p < q => Precedes(table[p], table[q])

LEMMA FixedSegments ==
    /\ \A w \in Word : Static(w) \in Fixed /\ ~Static(w).param
    /\ Param \in Fixed /\ Param.param
    /\ Fixed \subseteq Segment
  BY DEF Fixed, Segment, Static, Param

\* The suffixes of the actions.
LEMMA SuffixFacts ==
    /\ << >> \in Seq(Fixed) /\ DOMAIN << >> = {} /\ Len(<< >>) = 0
    /\ <<Static("create")>> \in Seq(Fixed) /\ DOMAIN <<Static("create")>> = {1}
    /\ Len(<<Static("create")>>) = 1 /\ ~<<Static("create")>>[1].param
    /\ <<Static("edit")>> \in Seq(Fixed) /\ DOMAIN <<Static("edit")>> = {1}
    /\ Len(<<Static("edit")>>) = 1 /\ ~<<Static("edit")>>[1].param
    /\ <<Param>> \in Seq(Fixed) /\ DOMAIN <<Param>> = {1}
    /\ Len(<<Param>>) = 1 /\ <<Param>>[1].param
    /\ <<Param, Static("edit")>> \in Seq(Fixed)
    /\ DOMAIN <<Param, Static("edit")>> = {1, 2} /\ Len(<<Param, Static("edit")>>) = 2
    /\ <<Param, Static("edit")>>[1].param /\ ~<<Param, Static("edit")>>[2].param
<1>1. {"create", "edit"} \subseteq Word
  BY RouterAssumption
<1> QED
  BY <1>1, FixedSegments

LEMMA ResourceEntries ==
    /\ DOMAIN ResourceActionTable = 1..7 /\ Len(ResourceActionTable) = 7
    /\ ResourceActionTable[1] = Action("index", {"GET"}, << >>)
    /\ ResourceActionTable[2] = Action("create", {"GET"}, <<Static("create")>>)
    /\ ResourceActionTable[3] = Action("store", {"POST"}, << >>)
    /\ ResourceActionTable[4] = Action("show", {"GET"}, <<Param>>)
    /\ ResourceActionTable[5] = Action("edit", {"GET"}, <<Param, Static("edit")>>)
    /\ ResourceActionTable[6] = Action("update", {"PUT", "PATCH"}, <<Param>>)
    /\ ResourceActionTable[7] = Action("destroy", {"DELETE"}, <<Param>>)
  BY DEF ResourceActionTable

LEMMA ActionNames ==
    ActionName = {"index", "create", "store", "show", "edit", "update", "destroy"}
<1> DEFINE table == ResourceActionTable
<1>1. ActionName = {table[i].name : i \in 1..7}
  BY ResourceEntries DEF ActionName, ToSet
<1>2. /\ table[1].name = "index" /\ table[2].name = "create" /\ table[3].name = "store"
      /\ table[4].name = "show" /\ table[5].name = "edit" /\ table[6].name = "update"
      /\ table[7].name = "destroy"
  BY ResourceEntries DEF Action
<1> HIDE DEF table
<1>3. ActionName = {table[1].name, table[2].name, table[3].name, table[4].name,
                    table[5].name, table[6].name, table[7].name}
  BY <1>1
<1> QED
  BY <1>2, <1>3

LEMMA ResourceTable == InOrder(ResourceActionTable)
<1> DEFINE table == ResourceActionTable
           none == << >>
           new == <<Static("create")>>
           key == <<Param>>
           edit == <<Param, Static("edit")>>
<1>1. /\ table[1].name = "index" /\ table[2].name = "create" /\ table[3].name = "store"
      /\ table[4].name = "show" /\ table[5].name = "edit" /\ table[6].name = "update"
      /\ table[7].name = "destroy"
      /\ table[1].methods = {"GET"} /\ table[2].methods = {"GET"}
      /\ table[3].methods = {"POST"} /\ table[4].methods = {"GET"}
      /\ table[5].methods = {"GET"} /\ table[6].methods = {"PUT", "PATCH"}
      /\ table[7].methods = {"DELETE"}
      /\ table[1].suffix = none /\ table[2].suffix = new /\ table[3].suffix = none
      /\ table[4].suffix = key /\ table[5].suffix = edit /\ table[6].suffix = key
      /\ table[7].suffix = key
  BY ResourceEntries DEF Action
<1>2. /\ {none, new, key, edit} \subseteq Seq(Fixed)
      /\ DOMAIN none = {} /\ Len(none) = 0
      /\ DOMAIN new = {1} /\ Len(new) = 1 /\ ~new[1].param
      /\ DOMAIN key = {1} /\ Len(key) = 1 /\ key[1].param
      /\ DOMAIN edit = {1, 2} /\ Len(edit) = 2 /\ edit[1].param /\ ~edit[2].param
  BY SuffixFacts
<1>3. table \in Seq(Entry)
  <2>1. \A p \in 1..7 : table[p].name \in ActionName
    BY ResourceEntries DEF ActionName, ToSet
  <2> HIDE DEF table, none, new, key, edit
  <2>2. ASSUME NEW p \in 1..7 PROVE table[p] \in Entry
    <3>1. table[p] = [name |-> table[p].name, methods |-> table[p].methods,
                      suffix |-> table[p].suffix]
      BY ResourceEntries DEF Action, table
    <3>2. table[p].methods \in SUBSET Method
      BY <1>1 DEF Method
    <3>3. table[p].suffix \in {none, new, key, edit}
      BY <1>1
    <3> QED
      BY <1>2, <2>1, <3>1, <3>2, <3>3 DEF Entry
  <2>3. table = [p \in 1..7 |-> table[p]]
    BY ResourceEntries DEF table, ResourceActionTable
  <2> QED
    BY <2>2, <2>3
<1>4. DOMAIN table = 1..7
  BY ResourceEntries
<1> HIDE DEF table, none, new, key, edit
<1>5. ASSUME NEW q \in 1..7
      PROVE  /\ Len(table[q].suffix) \in {0, 1, 2}
             /\ Len(table[q].suffix) = 2 => table[q].suffix[1].param
  <2>1. table[q].suffix \in {none, new, key, edit}
    BY <1>1
  <2>2. Len(table[q].suffix) \in {0, 1, 2}
    BY <1>2, <2>1
  <2>3. Len(table[q].suffix) = 2 => table[q].suffix = edit
    BY <1>2, <2>1
  <2>4. edit[1].param
    BY <1>2
  <2>5. Len(table[q].suffix) = 2 => table[q].suffix[1].param
    BY <2>3, <2>4
  <2> QED
    BY <2>2, <2>5
<1>6. ASSUME NEW p \in 1..7, NEW q \in 1..7, p < q PROVE Precedes(table[p], table[q])
  <2>1. CASE p = 1
    <3>1. table[p].name # table[q].name
      BY <1>1, <1>6, <2>1
    <3>2. table[p].suffix = none /\ table[p].name = "index"
      BY <1>1, <2>1
    <3> QED
      BY <1>2, <1>5, <3>1, <3>2 DEF Precedes, MemberActions
  <2>2. CASE p = 2
    <3>1. table[p].name # table[q].name
      BY <1>1, <1>6, <2>2
    <3>2. table[p].suffix = new /\ table[p].name = "create"
      BY <1>1, <2>2
    <3> QED
      BY <1>2, <1>5, <3>1, <3>2 DEF Precedes, MemberActions
  <2>3. CASE p = 3
    BY <1>1, <1>2, <1>6, <2>3 DEF Precedes, MemberActions
  <2>4. CASE p = 4
    BY <1>1, <1>2, <1>6, <2>4 DEF Precedes, MemberActions
  <2>5. CASE p \in {5, 6}
    BY <1>1, <1>2, <1>6, <2>5 DEF Precedes, MemberActions
  <2> QED
    BY <1>6, <2>1, <2>2, <2>3, <2>4, <2>5
<1> QED
  BY <1>3, <1>4, <1>6 DEF InOrder, table

\* What is kept of a table in order is in order.
LEMMA KeptInOrder ==
    ASSUME NEW table, InOrder(table), NEW S
    PROVE  InOrder(Kept(table, S))
<1> DEFINE kept == Kept(table, S)
<1>1. table \in Seq(Entry)
  BY DEF InOrder
<1>2. PICK at : kept \in Seq(Entry) /\ Embeds(at, kept, table, Len(table), S)
  BY <1>1, KeptEmbeds
<1> HIDE DEF kept
<1>3. ASSUME NEW p \in DOMAIN kept, NEW q \in DOMAIN kept, p < q
      PROVE  Precedes(kept[p], kept[q])
  <2>1. p \in 1..Len(kept) /\ q \in 1..Len(kept)
    BY <1>2
  <2>2. /\ at[p] \in 1..Len(table) /\ at[q] \in 1..Len(table) /\ at[p] < at[q]
        /\ kept[p] = table[at[p]] /\ kept[q] = table[at[q]]
    BY <1>2, <1>3, <2>1 DEF Embeds
  <2>3. DOMAIN table = 1..Len(table)
    BY <1>1
  <2> QED
    BY <2>2, <2>3 DEF InOrder
<1> QED
  BY <1>2, <1>3 DEF InOrder, kept

LEMMA ApiTable == InOrder(ApiResourceActionTable)
  BY ResourceTable, KeptInOrder DEF ApiResourceActionTable

LEMMA SingletonEntries ==
    LET table == SingletonCreatableTable \o SingletonActionTable
    IN /\ DOMAIN SingletonActionTable = 1..3
       /\ \A p \in 1..3 : SingletonActionTable[p] = table[p + 2]
       /\ SingletonActionTable = [p \in 1..3 |-> SingletonActionTable[p]]
       /\ DOMAIN table = 1..5
       /\ table = [p \in 1..5 |-> table[p]]
       /\ table[1] = Action("create", {"GET"}, <<Static("create")>>)
       /\ table[2] = Action("store", {"POST"}, << >>)
       /\ table[3] = Action("show", {"GET"}, << >>)
       /\ table[4] = Action("edit", {"GET"}, <<Static("edit")>>)
       /\ table[5] = Action("update", {"PUT", "PATCH"}, << >>)
  BY DEF SingletonActionTable, SingletonCreatableTable

LEMMA SingletonTables ==
    /\ InOrder(SingletonActionTable)
    /\ InOrder(SingletonCreatableTable \o SingletonActionTable)
<1> DEFINE table == SingletonCreatableTable \o SingletonActionTable
           none == << >>
           new == <<Static("create")>>
           edit == <<Static("edit")>>
<1>1. /\ table[1].name = "create" /\ table[2].name = "store" /\ table[3].name = "show"
      /\ table[4].name = "edit" /\ table[5].name = "update"
      /\ table[1].methods = {"GET"} /\ table[2].methods = {"POST"}
      /\ table[3].methods = {"GET"} /\ table[4].methods = {"GET"}
      /\ table[5].methods = {"PUT", "PATCH"}
      /\ table[1].suffix = new /\ table[2].suffix = none /\ table[3].suffix = none
      /\ table[4].suffix = edit /\ table[5].suffix = none
  BY SingletonEntries DEF Action
<1>2. /\ {none, new, edit} \subseteq Seq(Fixed)
      /\ DOMAIN none = {} /\ Len(none) = 0
      /\ DOMAIN new = {1} /\ Len(new) = 1 /\ ~new[1].param
      /\ DOMAIN edit = {1} /\ Len(edit) = 1 /\ ~edit[1].param
  BY SuffixFacts
<1>3. \A p \in 1..5 : table[p] = [name |-> table[p].name, methods |-> table[p].methods,
                                  suffix |-> table[p].suffix]
  BY SingletonEntries DEF Action
<1>4. /\ SingletonActionTable = [p \in 1..3 |-> table[p + 2]]
      /\ DOMAIN SingletonActionTable = 1..3
      /\ \A p \in 1..3 : SingletonActionTable[p] = table[p + 2]
      /\ table = [p \in 1..5 |-> table[p]] /\ DOMAIN table = 1..5
  BY SingletonEntries
<1> HIDE DEF table, none, new, edit
<1>5. \A p \in 1..5 : table[p].suffix \in {none, new, edit}
  BY <1>1
<1>6. ASSUME NEW p \in 1..5 PROVE table[p] \in Entry
  <2>1. table[p].name \in ActionName
    BY <1>1, ActionNames
  <2>2. table[p].methods \in SUBSET Method
    BY <1>1 DEF Method
  <2>3. table[p].suffix \in Seq(Fixed)
    BY <1>2, <1>5
  <2> QED
    BY <1>3, <2>1, <2>2, <2>3 DEF Entry
<1>7. ASSUME NEW p \in 1..5, NEW q \in 1..5, p < q PROVE Precedes(table[p], table[q])
  <2>1. table[p].name # table[q].name
    BY <1>1, <1>7
  <2>2. Len(table[q].suffix) \in {0, 1, 2} /\ Len(table[q].suffix) # 2
    <3>1. Len(table[q].suffix) = 0 \/ Len(table[q].suffix) = 1
      BY <1>2, <1>5
    <3> QED
      BY <3>1
  <2>3. \A s \in DOMAIN table[p].suffix : ~table[p].suffix[s].param
    BY <1>2, <1>5
  <2>4. p \in {1, 2} \/ table[q].name \in MemberActions
    BY <1>1, <1>7 DEF MemberActions
  <2>5. p \in {1, 2} => table[p].name \notin MemberActions
    BY <1>1 DEF MemberActions
  <2> QED
    BY <2>1, <2>2, <2>3, <2>4, <2>5 DEF Precedes
<1>8. InOrder(table)
  BY <1>4, <1>6, <1>7 DEF InOrder
<1>9. InOrder(SingletonActionTable)
  <2>1. SingletonActionTable \in Seq(Entry)
    BY <1>4, <1>6
  <2>2. \A p, q \in 1..3 : p < q => Precedes(table[p + 2], table[q + 2])
    BY <1>7
  <2> QED
    BY <1>4, <2>1, <2>2 DEF InOrder
<1> QED
  BY <1>8, <1>9 DEF table

LEMMA Tables ==
    ASSUME NEW g \in Resource, NEW r
    PROVE  InOrder(Table(g, r))
  BY DeclarationAssumption, ResourceTable, ApiTable, SingletonTables DEF Table

----------------------------------------------------------------------------
(* URIs and the routes of one call *)

Registrar == [only : Selection \cup {{}}, except : Selection \cup {{}},
              shallow : BOOLEAN, creatable : BOOLEAN, round : Nat]

LEMMA Joined ==
    ASSUME NEW T, NEW s \in Seq(T), NEW t \in Seq(T), NEW u, u = s \o t
    PROVE  /\ u \in Seq(T)
           /\ Len(u) = Len(s) + Len(t)
           /\ \A i \in 1..Len(s) : u[i] = s[i]
           /\ \A i \in 1..Len(t) : u[Len(s) + i] = t[i]
  OBVIOUS

\* The part of a URI before the action's suffix.
Base(g, promoted) ==
    Declaration[g].prefix \o (IF promoted THEN << >> ELSE Parents(g))
    \o <<Static(Declaration[g].last)>>

LEMMA ParentsType ==
    ASSUME NEW g \in Resource
    PROVE  /\ Parents(g) \in Seq(Fixed)
           /\ \E c \in Nat : Len(Parents(g)) = 2 * c
           /\ 1 \in DOMAIN Parents(g) => ~Parents(g)[1].param
<1> DEFINE above == Declaration[g].parents
           c == Len(above)
<1>1. above \in Seq(Word) /\ c \in Nat
  <2>1. above \in Seq(Word)
    BY DeclarationAssumption
  <2> HIDE DEF above
  <2> QED
    BY <2>1
<1>2. ASSUME NEW k \in 1 .. 2 * c PROVE Parents(g)[k] \in Fixed
  <2>1. k % 2 = 1 => (k + 1) \div 2 \in 1..c
    BY <1>1
  <2>2. k % 2 = 1 => above[(k + 1) \div 2] \in Word
    BY <1>1, <2>1
  <2> QED
    BY <2>2, FixedSegments DEF Parents
<1>3. Parents(g) = [k \in 1 .. 2 * c |-> Parents(g)[k]]
  BY DEF Parents
<1>4. 1 \in 1 .. 2 * c => ~Parents(g)[1].param
  <2> SUFFICES ASSUME 1 \in 1 .. 2 * c PROVE ~Parents(g)[1].param
    OBVIOUS
  <2>1. 1 % 2 = 1 /\ (1 + 1) \div 2 = 1 /\ 1 \in 1..c
    BY <1>1
  <2>2. above[1] \in Word
    BY <1>1, <2>1
  <2>3. Parents(g)[1] = Static(above[1])
    BY <2>1 DEF Parents
  <2> QED
    BY <2>2, <2>3, FixedSegments
<1> HIDE DEF above, c
<1>5. 2 * c \in Nat
  BY <1>1
<1>6. Parents(g) \in Seq(Fixed) /\ Len(Parents(g)) = 2 * c /\ DOMAIN Parents(g) = 1 .. 2 * c
  BY <1>2, <1>3, <1>5
<1> QED
  BY <1>1, <1>4, <1>6

LEMMA BaseType ==
    ASSUME NEW g \in Resource, NEW promoted \in BOOLEAN
    PROVE  LET prefix == Declaration[g].prefix
               parents == IF promoted THEN << >> ELSE Parents(g)
               base == Base(g, promoted)
           IN /\ prefix \in Seq(Fixed) /\ base \in Seq(Fixed)
              /\ Len(base) = Len(prefix) + Len(parents) + 1
              /\ \A s \in 1..Len(prefix) : base[s] = prefix[s]
              /\ \A s \in 1..Len(parents) : base[Len(prefix) + s] = parents[s]
              /\ ~base[Len(base)].param
<1> DEFINE prefix == Declaration[g].prefix
           parents == IF promoted THEN << >> ELSE Parents(g)
           final == Static(Declaration[g].last)
           last == <<final>>
           base == Base(g, promoted)
<1>1. prefix \in Seq(Fixed) /\ parents \in Seq(Fixed)
  BY DeclarationAssumption, ParentsType DEF Fixed
<1>2. final \in Fixed /\ ~final.param
  BY DeclarationAssumption, FixedSegments
<1>3. base = (prefix \o parents) \o last
  BY DEF Base
<1> HIDE DEF prefix, parents, final, base
<1>4. last \in Seq(Fixed) /\ Len(last) = 1 /\ last[1] = final
  BY <1>2
<1> HIDE DEF last
<1>5. /\ base \in Seq(Fixed)
      /\ Len(base) = Len(prefix) + Len(parents) + 1
      /\ \A s \in 1..Len(prefix) : base[s] = prefix[s]
      /\ \A s \in 1..Len(parents) : base[Len(prefix) + s] = parents[s]
      /\ base[Len(base)] = final
  <2> DEFINE front == prefix \o parents
  <2>1. /\ front \in Seq(Fixed) /\ Len(front) = Len(prefix) + Len(parents)
        /\ \A s \in 1..Len(prefix) : front[s] = prefix[s]
        /\ \A s \in 1..Len(parents) : front[Len(prefix) + s] = parents[s]
    BY <1>1, Joined
  <2>2. base = front \o last
    BY <1>3
  <2> HIDE DEF front
  <2>3. /\ base \in Seq(Fixed) /\ Len(base) = Len(front) + 1
        /\ \A s \in 1..Len(front) : base[s] = front[s]
        /\ base[Len(front) + 1] = last[1]
    <3>1. front \in Seq(Fixed) /\ last \in Seq(Fixed)
      BY <1>4, <2>1
    <3>2. /\ base \in Seq(Fixed) /\ Len(base) = Len(front) + Len(last)
          /\ \A s \in 1..Len(front) : base[s] = front[s]
          /\ \A s \in 1..Len(last) : base[Len(front) + s] = last[s]
      BY <2>2, <3>1, Joined
    <3>3. 1 \in 1..Len(last)
      BY <1>4
    <3>4. base[Len(front) + 1] = last[1]
      BY <3>2, <3>3, Zenon
    <3> QED
      BY <1>4, <3>1, <3>2, <3>4
  <2>4. \A s \in 1..Len(prefix) : base[s] = prefix[s]
    BY <1>1, <2>1, <2>3
  <2>5. ASSUME NEW s \in 1..Len(parents) PROVE base[Len(prefix) + s] = parents[s]
    <3>1. Len(prefix) \in Nat /\ Len(parents) \in Nat
      BY <1>1
    <3>2. Len(prefix) + s \in 1..Len(front)
      BY <2>1, <3>1
    <3> QED
      BY <2>1, <2>3, <3>2
  <2> QED
    BY <1>4, <2>1, <2>3, <2>4, <2>5
<1>6. ~base[Len(base)].param
  BY <1>2, <1>5
<1>7. /\ base \in Seq(Fixed)
      /\ Len(base) = Len(prefix) + Len(parents) + 1
      /\ \A s \in 1..Len(prefix) : base[s] = prefix[s]
      /\ \A s \in 1..Len(parents) : base[Len(prefix) + s] = parents[s]
      /\ prefix \in Seq(Fixed)
      /\ ~base[Len(base)].param
  BY <1>1, <1>5, <1>6
<1> QED
  BY <1>7 DEF prefix, parents, base

LEMMA UriType ==
    ASSUME NEW g \in Resource, NEW r \in Registrar, NEW a \in Entry
    PROVE  LET base == Base(g, r.shallow /\ a.name \in MemberActions)
           IN /\ Uri(g, r, a) \in Seq(Fixed)
              /\ Len(Uri(g, r, a)) = Len(base) + Len(a.suffix)
              /\ \A s \in 1..Len(base) : Uri(g, r, a)[s] = base[s]
              /\ \A s \in 1..Len(a.suffix) : Uri(g, r, a)[Len(base) + s] = a.suffix[s]
<1> DEFINE promoted == r.shallow /\ a.name \in MemberActions
           base == Base(g, promoted)
<1>1. promoted \in BOOLEAN
  OBVIOUS
<1>2. Uri(g, r, a) = base \o a.suffix
  BY DEF Uri, Base
<1> HIDE DEF promoted
<1>3. base \in Seq(Fixed) /\ a.suffix \in Seq(Fixed)
  BY <1>1, BaseType DEF Entry
<1> HIDE DEF base
<1> QED
  BY <1>2, <1>3 DEF base, promoted

LEMMA RouteType ==
    ASSUME NEW g \in Resource, NEW r \in Registrar, NEW a \in Entry
    PROVE  RouteOf(g, r, a) \in Route
<1>1. Uri(g, r, a) \in Seq(Segment)
  <2> DEFINE uri == Uri(g, r, a)
  <2>1. uri \in Seq(Fixed)
    BY UriType
  <2> HIDE DEF uri
  <2>2. uri \in Seq(Segment)
    BY <2>1, FixedSegments
  <2> QED
    BY <2>2 DEF uri
<1>2. a.name \in ActionName /\ a.methods \in SUBSET Method /\ r.round \in Nat
  BY DEF Entry, Registrar
<1>3. <<Declaration[g].name, a.name>> \in Name
  BY <1>2 DEF Name
<1> QED
  BY <1>1, <1>2, <1>3 DEF RouteOf, Route

\* The routes of a call are those of the picked actions, in the table's order.
Follows(at, fresh, g, r) ==
    LET table == Table(g, r)
    IN /\ at \in [1..Len(fresh) -> DOMAIN table]
       /\ \A i \in 1..Len(fresh) : /\ fresh[i] = RouteOf(g, r, table[at[i]])
                                   /\ table[at[i]] \in Picked(g, r)
       /\ \A i, j \in 1..Len(fresh) : i < j => at[i] < at[j]
       /\ \A p \in DOMAIN table : table[p] \in Picked(g, r) =>
              \E i \in 1..Len(fresh) : at[i] = p

LEMMA NewRoutesFollow ==
    ASSUME NEW g \in Resource, NEW r \in Registrar
    PROVE  /\ NewRoutes(g, r) \in Seq(Route)
           /\ \E at : Follows(at, NewRoutes(g, r), g, r)
<1> DEFINE table == Table(g, r)
           actions == Kept(table, Picked(g, r))
           fresh == NewRoutes(g, r)
<1>1. table \in Seq(Entry)
  BY Tables DEF InOrder
<1>2. PICK at : actions \in Seq(Entry) /\ Embeds(at, actions, table, Len(table), Picked(g, r))
  BY <1>1, KeptEmbeds
<1>3. fresh = [k \in DOMAIN actions |-> RouteOf(g, r, actions[k])]
  BY DEF NewRoutes
<1> HIDE DEF table, actions, fresh
<1>4. DOMAIN actions = 1..Len(actions) /\ Len(actions) \in Nat /\ DOMAIN table = 1..Len(table)
  BY <1>1, <1>2
<1>5. \A k \in DOMAIN actions : RouteOf(g, r, actions[k]) \in Route
  BY <1>2, RouteType
<1>6. fresh \in Seq(Route) /\ Len(fresh) = Len(actions)
  BY <1>3, <1>4, <1>5
<1>7. Follows(at, fresh, g, r)
  BY <1>2, <1>3, <1>4, <1>6 DEF Follows, Embeds, table
<1> QED
  BY <1>6, <1>7 DEF fresh

----------------------------------------------------------------------------
(* Registering anew *)

\* The table u: of t the first m routes, which are not in old, then fresh.
Rebuilds(m, at, t, u, old, fresh) ==
    /\ m \in Nat
    /\ Len(u) = m + Len(fresh)
    /\ at \in [1..m -> 1..Len(t)]
    /\ \A i \in 1..m : u[i] = t[at[i]] /\ u[i] \notin old
    /\ \A i, j \in 1..m : i < j => at[i] < at[j]
    /\ \A a \in 1..Len(t) : t[a] \notin old => \E i \in 1..m : at[i] = a
    /\ \A k \in 1..Len(fresh) : u[m + k] = fresh[k]

LEMMA Rebuilt ==
    ASSUME NEW t \in Seq(Route), NEW old, NEW fresh \in Seq(Route),
           NEW u, u = RemoveRoutes(t, old) \o fresh
    PROVE  u \in Seq(Route) /\ \E m, at : Rebuilds(m, at, t, u, old, fresh)
<1> DEFINE kept == RemoveRoutes(t, old)
           S == ToSet(t) \ old
<1>1. PICK at : kept \in Seq(Route) /\ Embeds(at, kept, t, Len(t), S)
  BY KeptEmbeds DEF RemoveRoutes
<1>2. u = kept \o fresh
  OBVIOUS
<1>3. \A a \in 1..Len(t) : t[a] \in ToSet(t)
  BY DEF ToSet
<1> HIDE DEF kept
<1>4. kept \in Seq(Route)
  BY <1>1
<1>5. /\ u \in Seq(Route)
      /\ Len(u) = Len(kept) + Len(fresh)
      /\ \A i \in 1..Len(kept) : u[i] = kept[i]
      /\ \A i \in 1..Len(fresh) : u[Len(kept) + i] = fresh[i]
  BY <1>2, <1>4, Joined
<1>6. Rebuilds(Len(kept), at, t, u, old, fresh)
  BY <1>1, <1>3, <1>5 DEF Rebuilds, Embeds
<1> QED
  BY <1>5, <1>6

\* The positions of u, seen from where they come from.
LEMMA Origins ==
    ASSUME NEW t \in Seq(Route), NEW u \in Seq(Route), NEW old, NEW fresh \in Seq(Route),
           NEW m, NEW at, Rebuilds(m, at, t, u, old, fresh)
    PROVE  /\ \A i \in DOMAIN u : i \in 1..m \/ \E k \in 1..Len(fresh) : i = m + k
           /\ 1..m \subseteq DOMAIN u
           /\ \A k \in 1..Len(fresh) : m + k \in DOMAIN u
           /\ \A x : x \in ToSet(u) <=> (x \in ToSet(t) /\ x \notin old) \/ x \in ToSet(fresh)
<1>1. DOMAIN u = 1 .. (m + Len(fresh)) /\ m \in Nat /\ Len(fresh) \in Nat
  BY DEF Rebuilds
<1>2. ASSUME NEW i \in DOMAIN u PROVE i \in 1..m \/ \E k \in 1..Len(fresh) : i = m + k
  <2>1. CASE i <= m
    BY <1>1, <2>1
  <2>2. CASE ~(i <= m)
    <3>1. i - m \in 1..Len(fresh) /\ i = m + (i - m)
      BY <1>1, <2>2
    <3> QED
      BY <3>1
  <2> QED
    BY <2>1, <2>2
<1>3. 1..m \subseteq DOMAIN u /\ \A k \in 1..Len(fresh) : m + k \in DOMAIN u
  BY <1>1
<1>4. DOMAIN t = 1..Len(t) /\ DOMAIN fresh = 1..Len(fresh)
  OBVIOUS
<1>5. ASSUME NEW x \in ToSet(u) PROVE x \in (ToSet(t) \ old) \cup ToSet(fresh)
  <2>1. PICK i \in DOMAIN u : x = u[i]
    BY DEF ToSet
  <2>2. CASE i \in 1..m
    <3>1. x = t[at[i]] /\ at[i] \in DOMAIN t /\ x \notin old
      BY <1>4, <2>1, <2>2 DEF Rebuilds
    <3> QED
      BY <3>1 DEF ToSet
  <2>3. CASE \E k \in 1..Len(fresh) : i = m + k
    <3>1. PICK k \in 1..Len(fresh) : i = m + k
      BY <2>3
    <3>2. x = fresh[k]
      BY <2>1, <3>1 DEF Rebuilds
    <3> QED
      BY <1>4, <3>2 DEF ToSet
  <2> QED
    BY <1>2, <2>2, <2>3
<1>6. ASSUME NEW x \in ToSet(t) \ old PROVE x \in ToSet(u)
  <2>1. PICK a \in 1..Len(t) : x = t[a]
    BY <1>4 DEF ToSet
  <2>2. PICK i \in 1..m : at[i] = a
    BY <2>1 DEF Rebuilds
  <2>3. u[i] = x /\ i \in DOMAIN u
    BY <1>3, <2>1, <2>2 DEF Rebuilds
  <2> QED
    BY <2>3 DEF ToSet
<1>7. ASSUME NEW x \in ToSet(fresh) PROVE x \in ToSet(u)
  <2>1. PICK k \in 1..Len(fresh) : x = fresh[k]
    BY <1>4 DEF ToSet
  <2>2. u[m + k] = x /\ m + k \in DOMAIN u
    BY <1>3, <2>1 DEF Rebuilds
  <2> QED
    BY <2>2 DEF ToSet
<1> QED
  BY <1>2, <1>3, <1>5, <1>6, <1>7

----------------------------------------------------------------------------
(* The locality of a call *)

\* A request is answered by the same route as before, unless by one of the
\* routes taken or added, or without a route while one of these fits.
LEMMA Locality ==
    ASSUME NEW t \in Seq(Route), NEW u \in Seq(Route), NEW old, NEW fresh \in Seq(Route),
           NEW m, NEW at, Rebuilds(m, at, t, u, old, fresh),
           NEW method, NEW path, NEW own, \A x : x \in own <=> x \in old \/ x \in ToSet(fresh)
    PROVE  LET before == Match(t, method, path)
               after == Match(u, method, path)
           IN \/ before = after
              \/ before.route \in own
              \/ after.route \in own
              \/ /\ before.route = after.route
                 /\ \E x \in own : Fits(x.uri, path)
<1> DEFINE Fitting(table) == {k \in DOMAIN table : Fits(table[k].uri, path)}
           Serving(table) == {k \in Fitting(table) : method \in table[k].methods}
           First(table) == CHOOSE k \in Serving(table) : \A i \in Serving(table) : k <= i
           before == Match(t, method, path)
           after == Match(u, method, path)
<1>1. ASSUME NEW table \in Seq(Route)
      PROVE  IF Serving(table) = {}
             THEN /\ Match(table, method, path).route = NoRoute
                  /\ Match(table, method, path).allowed =
                         UNION {table[k].methods : k \in Fitting(table)}
             ELSE /\ Match(table, method, path) = [route |-> table[First(table)], allowed |-> {}]
                  /\ First(table) \in Serving(table)
                  /\ \A i \in Serving(table) : First(table) <= i
  <2>1. Serving(table) \subseteq Nat
    OBVIOUS
  <2>2. Serving(table) # {} => \E k \in Serving(table) : \A i \in Serving(table) : k <= i
    BY <2>1, LeastNatural
  <2> QED
    BY <2>2 DEF Match
<1>2. DOMAIN t = 1..Len(t) /\ DOMAIN fresh = 1..Len(fresh)
  OBVIOUS
\* What is served by a route that stays was served by it, and the other way round.
<1>3. \A i \in 1..m : i \in DOMAIN u /\ at[i] \in DOMAIN t /\ u[i] = t[at[i]]
  BY <1>2, Origins DEF Rebuilds
<1>4. \A i \in 1..m : (i \in Serving(u) <=> at[i] \in Serving(t))
  BY <1>3
<1>5. \A i \in DOMAIN u : i \in 1..m \/ u[i] \in own
  <2>1. \A k \in 1..Len(fresh) : u[m + k] \in ToSet(fresh)
    BY <1>2 DEF Rebuilds, ToSet
  <2> QED
    BY <2>1, Origins
<1>6. \A a \in DOMAIN t : t[a] \in own \/ \E i \in 1..m : at[i] = a
  BY <1>2 DEF Rebuilds
<1>7. \/ before = after
      \/ before.route \in own
      \/ after.route \in own
      \/ Serving(t) = {} /\ Serving(u) = {}
  <2>1. CASE Serving(t) = {} /\ Serving(u) # {}
    <3>1. First(u) \in Serving(u) /\ after.route = u[First(u)]
      BY <1>1, <2>1
    <3>2. First(u) \notin 1..m
      BY <1>4, <2>1, <3>1
    <3>3. First(u) \in DOMAIN u
      BY <3>1
    <3>4. u[First(u)] \in own
      BY <1>5, <3>2, <3>3
    <3> QED
      BY <3>1, <3>4
  <2>2. CASE Serving(t) # {}
    <3> DEFINE a == First(t)
               j == First(u)
    <3>1. a \in Serving(t) /\ before = [route |-> t[a], allowed |-> {}]
          /\ \A k \in Serving(t) : a <= k
      BY <1>1, <2>2
    <3>2. ASSUME NEW i \in 1..m, at[i] = a PROVE after.route \in own \/ before = after
      <4>1. i \in Serving(u)
        BY <1>4, <3>1, <3>2
      <4>2. j \in Serving(u) /\ after = [route |-> u[j], allowed |-> {}] /\ j <= i
        BY <1>1, <4>1
      <4>3. CASE j \in 1..m
        <5>1. a <= at[j]
          BY <1>4, <3>1, <4>2, <4>3
        <5>2. j < i => at[j] < a
          BY <3>2, <4>3 DEF Rebuilds
        <5>3. j \in Nat /\ i \in Nat /\ at[j] \in Nat /\ a \in Nat
          <6>1. i \in Nat /\ j \in Nat
            BY <4>3
          <6>2. at[j] \in 1..Len(t) /\ at[i] \in 1..Len(t)
            BY <1>2, <1>3, <4>3
          <6> QED
            BY <3>2, <6>1, <6>2
        <5>4. j = i
          BY <4>2, <5>1, <5>2, <5>3
        <5>5. u[j] = t[a]
          BY <1>3, <3>2, <5>4
        <5> QED
          BY <3>1, <4>2, <5>5
      <4>4. CASE j \notin 1..m
        BY <1>5, <4>2, <4>4
      <4> QED
        BY <4>3, <4>4
    <3>3. before.route = t[a] /\ a \in DOMAIN t
      BY <3>1
    <3>4. t[a] \in own \/ \E i \in 1..m : at[i] = a
      BY <1>6, <3>3
    <3>5. before.route \in own \/ after.route \in own \/ before = after
      BY <3>2, <3>3, <3>4
    <3> QED
      BY <3>5
  <2> QED
    BY <2>1, <2>2
<1>8. CASE Serving(t) = {} /\ Serving(u) = {}
  <2>1. /\ before.route = NoRoute /\ after.route = NoRoute
        /\ before = [route |-> NoRoute,
                     allowed |-> UNION {t[k].methods : k \in Fitting(t)}]
        /\ after = [route |-> NoRoute,
                    allowed |-> UNION {u[k].methods : k \in Fitting(u)}]
    BY <1>8 DEF Match
  <2>2. CASE \A x \in own : ~Fits(x.uri, path)
    <3>1. \A k \in Fitting(t) : \E i \in Fitting(u) : u[i].methods = t[k].methods
      BY <1>3, <1>6, <2>2
    <3>2. \A i \in Fitting(u) : \E k \in Fitting(t) : u[i].methods = t[k].methods
      BY <1>3, <1>5, <2>2
    <3>3. {t[k].methods : k \in Fitting(t)} = {u[k].methods : k \in Fitting(u)}
      <4>1. ASSUME NEW M \in {t[k].methods : k \in Fitting(t)}
            PROVE  M \in {u[k].methods : k \in Fitting(u)}
        BY <3>1
      <4>2. ASSUME NEW M \in {u[k].methods : k \in Fitting(u)}
            PROVE  M \in {t[k].methods : k \in Fitting(t)}
        BY <3>2
      <4> QED
        BY <4>1, <4>2
    <3> QED
      BY <2>1, <3>3
  <2>3. CASE \E x \in own : Fits(x.uri, path)
    BY <2>1, <2>3
  <2> QED
    BY <2>2, <2>3
<1> QED
  BY <1>7, <1>8

----------------------------------------------------------------------------
(* What a registrar has in the table *)

Mine(t, g) == {k \in DOMAIN t : t[k].owner = g}

\* x is the route of the entry p of the registrar's table.
From(x, g, r, p) ==
    LET table == Table(g, r)
    IN /\ p \in DOMAIN table
       /\ table[p] \in Picked(g, r)
       /\ x = RouteOf(g, r, table[p])

\* Of a registrar with the fields r, the table t has the routes of the picked
\* entries, each once and in their order.
Lists(t, g, r) ==
    /\ r.round = 0 => Mine(t, g) = {}
    /\ \A i \in Mine(t, g) : \E p : From(t[i], g, r, p)
    /\ \A i, k \in Mine(t, g) : i < k =>
           \E p, q : p < q /\ From(t[i], g, r, p) /\ From(t[k], g, r, q)
    /\ r.round > 0 => \A p \in DOMAIN Table(g, r) : Table(g, r)[p] \in Picked(g, r) =>
           \E i \in Mine(t, g) : From(t[i], g, r, p)

\* It stays so in a table that has the same routes of its own in the same order.
LEMMA ListsCarry ==
    ASSUME NEW t, NEW u, NEW at, NEW g, NEW r, Lists(t, g, r),
           \A i \in Mine(u, g) : at[i] \in Mine(t, g) /\ u[i] = t[at[i]],
           \A i, k \in Mine(u, g) : i < k => at[i] < at[k],
           \A a \in Mine(t, g) : \E i \in Mine(u, g) : at[i] = a
    PROVE  Lists(u, g, r)
<1>1. r.round = 0 => Mine(u, g) = {}
  BY DEF Lists
<1>2. \A i \in Mine(u, g) : \E p : From(u[i], g, r, p)
  BY DEF Lists
<1>3. ASSUME NEW i \in Mine(u, g), NEW k \in Mine(u, g), i < k
      PROVE  \E p, q : p < q /\ From(u[i], g, r, p) /\ From(u[k], g, r, q)
  <2>1. at[i] \in Mine(t, g) /\ at[k] \in Mine(t, g) /\ at[i] < at[k]
    BY <1>3
  <2>2. PICK p, q : p < q /\ From(t[at[i]], g, r, p) /\ From(t[at[k]], g, r, q)
    BY <2>1 DEF Lists
  <2> QED
    BY <2>2
<1>4. ASSUME r.round > 0, NEW p \in DOMAIN Table(g, r), Table(g, r)[p] \in Picked(g, r)
      PROVE  \E i \in Mine(u, g) : From(u[i], g, r, p)
  <2>1. PICK a \in Mine(t, g) : From(t[a], g, r, p)
    BY <1>4 DEF Lists
  <2> QED
    BY <2>1
<1> QED
  BY <1>1, <1>2, <1>3, <1>4 DEF Lists

\* After a call on g, the others have what they had.
LEMMA OthersKeepTheirs ==
    ASSUME NEW t \in Seq(Route), NEW u \in Seq(Route), NEW old, NEW fresh \in Seq(Route),
           NEW m, NEW at, Rebuilds(m, at, t, u, old, fresh),
           NEW g, \A x \in old : x.owner = g, \A x \in ToSet(fresh) : x.owner = g,
           NEW h, h # g, NEW s, Lists(t, h, s)
    PROVE  Lists(u, h, s)
<1>1. DOMAIN t = 1..Len(t) /\ DOMAIN fresh = 1..Len(fresh)
  OBVIOUS
<1>2. ASSUME NEW k \in 1..Len(fresh) PROVE u[m + k].owner = g
  <2>1. u[m + k] = fresh[k]
    BY DEF Rebuilds
  <2>2. fresh[k] \in ToSet(fresh)
    BY <1>1 DEF ToSet
  <2> QED
    BY <2>1, <2>2
<1>3. ASSUME NEW i \in Mine(u, h) PROVE i \in 1..m
  <2>1. i \in 1..m \/ \E k \in 1..Len(fresh) : i = m + k
    BY Origins DEF Mine
  <2>2. u[i].owner # g
    BY DEF Mine
  <2> QED
    BY <1>2, <2>1, <2>2
<1>4. \A i \in Mine(u, h) : at[i] \in Mine(t, h) /\ u[i] = t[at[i]]
  BY <1>1, <1>3 DEF Rebuilds, Mine
<1>5. \A i, k \in Mine(u, h) : i < k => at[i] < at[k]
  BY <1>3 DEF Rebuilds
<1>6. ASSUME NEW a \in Mine(t, h) PROVE \E i \in Mine(u, h) : at[i] = a
  <2>1. a \in 1..Len(t) /\ t[a].owner = h /\ t[a] \notin old
    BY <1>1 DEF Mine
  <2>2. PICK i \in 1..m : at[i] = a
    BY <2>1 DEF Rebuilds
  <2>3. i \in DOMAIN u /\ u[i] = t[a]
    BY <2>2, Origins DEF Rebuilds
  <2> QED
    BY <2>1, <2>2, <2>3 DEF Mine
<1> QED
  BY <1>4, <1>5, <1>6, ListsCarry

\* And g has the routes of the call.
LEMMA CallerHasTheNew ==
    ASSUME NEW t \in Seq(Route), NEW u \in Seq(Route), NEW old, NEW fresh \in Seq(Route),
           NEW m, NEW at, Rebuilds(m, at, t, u, old, fresh),
           NEW g \in Resource, NEW r \in Registrar, r.round > 0,
           \A x : x \in old <=> x \in ToSet(t) /\ x.owner = g,
           NEW from, Follows(from, fresh, g, r)
    PROVE  Lists(u, g, r)
<1>1. DOMAIN t = 1..Len(t) /\ DOMAIN fresh = 1..Len(fresh)
      /\ DOMAIN Table(g, r) \subseteq Nat /\ Len(fresh) \in Nat /\ m \in Nat
  BY Tables DEF InOrder, Rebuilds
<1>2. \A i \in 1..m : i \in DOMAIN u /\ u[i].owner # g
  <2>1. \A i \in 1..m : u[i] \in ToSet(t) /\ u[i] \notin old
    BY <1>1 DEF Rebuilds, ToSet
  <2> QED
    BY <2>1, Origins
<1>3. ASSUME NEW k \in 1..Len(fresh)
      PROVE  m + k \in Mine(u, g) /\ From(u[m + k], g, r, from[k])
  <2>1. u[m + k] = fresh[k] /\ m + k \in DOMAIN u
    BY Origins DEF Rebuilds
  <2>2. From(fresh[k], g, r, from[k])
    BY DEF Follows, From
  <2>3. fresh[k].owner = g
    <3>1. fresh[k] = RouteOf(g, r, Table(g, r)[from[k]])
      BY DEF Follows
    <3> QED
      BY <3>1 DEF RouteOf
  <2> QED
    BY <2>1, <2>2, <2>3 DEF Mine
<1>4. ASSUME NEW i \in Mine(u, g) PROVE \E k \in 1..Len(fresh) : i = m + k
  BY <1>2, Origins DEF Mine
<1>5. \A i \in Mine(u, g) : \E p : From(u[i], g, r, p)
  BY <1>3, <1>4
<1>6. ASSUME NEW i \in Mine(u, g), NEW k \in Mine(u, g), i < k
      PROVE  \E p, q : p < q /\ From(u[i], g, r, p) /\ From(u[k], g, r, q)
  <2>1. PICK a \in 1..Len(fresh) : i = m + a
    BY <1>4
  <2>2. PICK b \in 1..Len(fresh) : k = m + b
    BY <1>4
  <2>3. a < b
    BY <1>1, <1>6, <2>1, <2>2
  <2>4. from[a] < from[b]
    BY <2>3 DEF Follows
  <2> QED
    BY <1>3, <2>1, <2>2, <2>4
<1>7. ASSUME NEW p \in DOMAIN Table(g, r), Table(g, r)[p] \in Picked(g, r)
      PROVE  \E i \in Mine(u, g) : From(u[i], g, r, p)
  <2>1. PICK k \in 1..Len(fresh) : from[k] = p
    BY <1>7 DEF Follows
  <2> QED
    BY <1>3, <2>1
<1>8. ~(r.round = 0)
  OBVIOUS
<1> QED
  BY <1>5, <1>6, <1>7, <1>8 DEF Lists

----------------------------------------------------------------------------
(* Paths *)

\* Without optional parameters a path has as many words as the URI segments.
LEMMA FixedLength ==
    ASSUME NEW uri \in Seq(Fixed), uri # << >>, NEW path, Fits(uri, path)
    PROVE  Len(path) = Len(uri)
<1> DEFINE positions == [k \in DOMAIN uri |-> k]
<1>1. {k \in DOMAIN uri : uri[k].optional} = {}
  BY DEF Fixed
<1>2. Len(Present(uri, {})) = Len(path)
  BY <1>1 DEF Fits
<1>3. positions \in Seq(Nat) /\ Len(positions) = Len(uri) /\ DOMAIN uri = 1..Len(uri)
  OBVIOUS
<1>4. \A i \in 1..Len(positions) : positions[i] \in DOMAIN uri \ {}
  BY <1>3
<1>5. Len(Kept(positions, DOMAIN uri \ {})) = Len(positions)
  <2> HIDE DEF positions
  <2> QED
    BY <1>3, <1>4, KeptWhole
<1> QED
  BY <1>2, <1>3, <1>5 DEF Present

\* The URI u is x followed by the suffix z.
Extends(u, x, z) ==
    /\ x \in Seq(Fixed) /\ z \in Seq(Fixed) /\ u \in Seq(Fixed)
    /\ Len(u) = Len(x) + Len(z)
    /\ \A i \in 1..Len(x) : u[i] = x[i]
    /\ \A i \in 1..Len(z) : u[Len(x) + i] = z[i]

LEMMA UriExtends ==
    ASSUME NEW g \in Resource, NEW r \in Registrar, NEW a \in Entry,
           NEW promoted \in BOOLEAN, promoted = (r.shallow /\ a.name \in MemberActions)
    PROVE  Extends(Uri(g, r, a), Base(g, promoted), a.suffix)
<1> DEFINE x == Base(g, promoted)
           u == Uri(g, r, a)
<1>1. u = x \o a.suffix
  BY DEF Uri, Base
<1>2. x \in Seq(Fixed) /\ a.suffix \in Seq(Fixed)
  BY BaseType DEF Entry
<1> HIDE DEF x, u
<1>3. Extends(u, x, a.suffix)
  BY <1>1, <1>2, Joined DEF Extends
<1> QED
  BY <1>3 DEF x, u

\* A position in u is one of x's or one of the suffix.
LEMMA ExtendsAt ==
    ASSUME NEW u, NEW x, NEW z, Extends(u, x, z), NEW s \in DOMAIN u
    PROVE  \/ s \in 1..Len(x) /\ u[s] = x[s]
           \/ \E i \in 1..Len(z) : s = Len(x) + i /\ u[s] = z[i]
<1>1. s \in 1..(Len(x) + Len(z)) /\ Len(x) \in Nat /\ Len(z) \in Nat
  BY DEF Extends
<1>2. CASE s <= Len(x)
  BY <1>1, <1>2 DEF Extends
<1>3. CASE ~(s <= Len(x))
  <2> DEFINE i == s - Len(x)
  <2>1. i \in 1..Len(z) /\ s = Len(x) + i
    BY <1>1, <1>3
  <2> QED
    BY <2>1 DEF Extends
<1> QED
  BY <1>2, <1>3

\* With the same base, the suffixes' parameters decide.
LEMMA SameBase ==
    ASSUME NEW x, NEW u, NEW v, NEW a, NEW b, Extends(u, x, a), Extends(v, x, b),
           \A s \in DOMAIN a : a[s].param => s \in DOMAIN b /\ b[s].param,
           NEW s \in DOMAIN u, u[s].param
    PROVE  v[s].param
<1>1. CASE s \in 1..Len(x) /\ u[s] = x[s]
  BY <1>1 DEF Extends
<1>2. CASE \E i \in 1..Len(a) : s = Len(x) + i /\ u[s] = a[i]
  <2>1. PICK i \in 1..Len(a) : s = Len(x) + i /\ u[s] = a[i]
    BY <1>2
  <2>2. i \in DOMAIN a /\ a[i].param
    BY <2>1 DEF Extends
  <2>3. i \in DOMAIN b /\ b[i].param
    BY <2>2
  <2>4. i \in 1..Len(b)
    BY <2>3 DEF Extends
  <2>5. v[s] = b[i]
    BY <2>1, <2>4 DEF Extends
  <2> QED
    BY <2>3, <2>5
<1> QED
  BY <1>1, <1>2, ExtendsAt

LEMMA Lengths ==
    ASSUME NEW n \in Nat, NEW c \in Nat, NEW d \in Nat, d = 2 * c, NEW first \in Nat,
           NEW second \in Nat, second = 0 \/ second = 1 \/ second = 2,
           (n + d + 1) + first = (n + 1) + second
    PROVE  d = 0 \/ (d = 2 /\ second = 2)
  OBVIOUS

LEMMA Between ==
    ASSUME NEW n \in Nat, NEW d \in Nat, NEW size, size = n + d + 1,
           NEW s \in 1..size, s # size, s \notin 1..n, NEW P, d = 0 \/ (d = 2 /\ P)
    PROVE  d = 2 /\ P /\ (s = n + 1 \/ s = n + 2)
<1>1. size \in Nat
  OBVIOUS
<1>2. s \in Nat /\ 1 <= s /\ s <= size
  BY <1>1
<1>3. ~(s <= n)
  BY <1>2
<1> QED
  BY <1>2, <1>3

\* Two bases of a registrar: x has the parents and y has not.
Bases(x, y, prefix, above) ==
    /\ prefix \in Seq(Fixed) /\ above \in Seq(Fixed)
    /\ \E c \in Nat : Len(above) = 2 * c
    /\ 1 \in DOMAIN above => ~above[1].param
    /\ Len(x) = Len(prefix) + Len(above) + 1
    /\ Len(y) = Len(prefix) + 1
    /\ \A i \in 1..Len(prefix) : x[i] = prefix[i]
    /\ \A i \in 1..Len(prefix) : y[i] = prefix[i]
    /\ \A i \in 1..Len(above) : x[Len(prefix) + i] = above[i]
    /\ ~x[Len(x)].param

\* The suffixes of a collection action a and of a member action b after it.
Suffixed(a, b) ==
    /\ \A s \in DOMAIN a : ~a[s].param
    /\ Len(b) \in {0, 1, 2}
    /\ Len(b) = 2 => b[1].param

\* With the parents in one and not in the other, URIs of one length have at most
\* one parent, and the other's suffix starts with its parameter.
LEMMA OtherBase ==
    ASSUME NEW prefix, NEW above, NEW x, NEW y, NEW u, NEW v, NEW a, NEW b,
           Bases(x, y, prefix, above), Suffixed(a, b),
           Extends(u, x, a), Extends(v, y, b), Len(u) = Len(v),
           NEW s \in DOMAIN u, u[s].param
    PROVE  v[s].param
<1> DEFINE n == Len(prefix)
           d == Len(above)
<1>1. n \in Nat /\ d \in Nat /\ Len(a) \in Nat /\ Len(b) \in Nat
  BY DEF Extends, Bases
<1>2. Len(u) = Len(x) + Len(a) /\ Len(v) = Len(y) + Len(b)
  BY DEF Extends
<1>3. Len(x) = n + d + 1 /\ Len(y) = n + 1
  BY DEF Bases
<1>4. PICK c \in Nat : d = 2 * c
  BY DEF Bases
<1>5. Len(b) = 0 \/ Len(b) = 1 \/ Len(b) = 2
  BY DEF Suffixed
<1> HIDE DEF n, d
<1>6. (n + d + 1) + Len(a) = (n + 1) + Len(b)
  BY <1>2, <1>3, Zenon
<1>7. d = 0 \/ (d = 2 /\ Len(b) = 2)
  <2> DEFINE first == Len(a)
             second == Len(b)
  <2>1. /\ n \in Nat /\ d \in Nat /\ first \in Nat /\ second \in Nat /\ d = 2 * c
        /\ second = 0 \/ second = 1 \/ second = 2
        /\ (n + d + 1) + first = (n + 1) + second
    BY <1>1, <1>4, <1>5, <1>6
  <2> HIDE DEF first, second
  <2>2. d = 0 \/ (d = 2 /\ second = 2)
    BY <2>1, Lengths
  <2> QED
    BY <2>2 DEF second
<1>8. s \in 1..Len(x) /\ u[s] = x[s]
  <2>1. ASSUME NEW i \in 1..Len(a), u[s] = a[i] PROVE FALSE
    <3>1. i \in DOMAIN a
      BY DEF Extends
    <3> QED
      BY <2>1, <3>1 DEF Suffixed
  <2> QED
    BY <2>1, ExtendsAt
<1>9. x[s].param
  BY <1>8
<1>10. s # Len(x)
  BY <1>9 DEF Bases
<1>11. CASE s \in 1..n
  <2>1. x[s] = prefix[s] /\ y[s] = prefix[s]
    BY <1>11 DEF n, Bases
  <2>2. s \in 1..Len(y)
    BY <1>1, <1>3, <1>11
  <2>3. v[s] = y[s]
    BY <2>2 DEF Extends
  <2> QED
    BY <1>9, <2>1, <2>3
<1>12. CASE s \notin 1..n
  <2>1. d = 2 /\ Len(b) = 2 /\ (s = n + 1 \/ s = n + 2)
    <3> DEFINE size == Len(x)
               P == Len(b) = 2
    <3>1. /\ n \in Nat /\ d \in Nat /\ size = n + d + 1 /\ s \in 1..size /\ s # size
          /\ s \notin 1..n
          /\ d = 0 \/ (d = 2 /\ P)
      BY <1>1, <1>3, <1>7, <1>8, <1>10, <1>12
    <3> HIDE DEF size, P
    <3>2. d = 2 /\ P /\ (s = n + 1 \/ s = n + 2)
      BY <3>1, Between
    <3> QED
      BY <3>2 DEF P
  <2>2. 1 \in 1..Len(above) /\ 1 \in DOMAIN above
    BY <2>1 DEF d, Bases
  <2>3. s = n + 1 => x[s] = above[1]
    BY <2>2 DEF n, Bases
  <2>4. s # n + 1
    BY <1>9, <2>2, <2>3 DEF Bases
  <2>5. s = Len(y) + 1 /\ 1 \in 1..Len(b)
    BY <1>1, <1>3, <2>1, <2>4
  <2>6. v[s] = b[1]
    BY <2>5 DEF Extends
  <2> QED
    BY <2>1, <2>6 DEF Suffixed
<1> QED
  BY <1>11, <1>12

\* Of two entries in a table's order, the first has a parameter only where the
\* second has one.
LEMMA ParamsAlign ==
    ASSUME NEW g \in Resource, NEW r \in Registrar, NEW a \in Entry, NEW b \in Entry,
           Precedes(a, b), a.methods \cap b.methods # {},
           NEW path, Fits(Uri(g, r, a), path), Fits(Uri(g, r, b), path),
           NEW s \in DOMAIN Uri(g, r, a), Uri(g, r, a)[s].param
    PROVE  Uri(g, r, b)[s].param
<1>1. CASE (r.shallow /\ a.name \in MemberActions) = (r.shallow /\ b.name \in MemberActions)
  <2>1. PICK up \in BOOLEAN : up = (r.shallow /\ a.name \in MemberActions)
    OBVIOUS
  <2>2. up = (r.shallow /\ b.name \in MemberActions)
    BY <1>1, <2>1
  <2>3. Extends(Uri(g, r, a), Base(g, up), a.suffix)
    BY <2>1, UriExtends
  <2>4. Extends(Uri(g, r, b), Base(g, up), b.suffix)
    BY <2>2, UriExtends
  <2>5. \A i \in DOMAIN a.suffix : a.suffix[i].param =>
            i \in DOMAIN b.suffix /\ b.suffix[i].param
    BY DEF Precedes
  <2> QED
    BY <2>3, <2>4, <2>5, SameBase
<1>2. CASE (r.shallow /\ a.name \in MemberActions) # (r.shallow /\ b.name \in MemberActions)
  <2>1. r.shallow /\ a.name \notin MemberActions /\ b.name \in MemberActions
    BY <1>2 DEF Precedes, Registrar
  <2> DEFINE u == Uri(g, r, a)
             v == Uri(g, r, b)
             x == Base(g, FALSE)
             y == Base(g, TRUE)
             prefix == Declaration[g].prefix
             above == Parents(g)
  <2>2. Extends(u, x, a.suffix)
    <3>1. FALSE = (r.shallow /\ a.name \in MemberActions)
      BY <2>1
    <3>2. FALSE \in BOOLEAN
      OBVIOUS
    <3> QED
      BY <3>1, <3>2, UriExtends
  <2>3. Extends(v, y, b.suffix)
    <3>1. TRUE = (r.shallow /\ b.name \in MemberActions)
      BY <2>1
    <3>2. TRUE \in BOOLEAN
      OBVIOUS
    <3> QED
      BY <3>1, <3>2, UriExtends
  <2>4. above \in Seq(Fixed) /\ (1 \in DOMAIN above => ~above[1].param)
    BY ParentsType
  <2>5. \E c \in Nat : Len(above) = 2 * c
    BY ParentsType
  <2>6. /\ prefix \in Seq(Fixed)
        /\ Len(x) = Len(prefix) + Len(above) + 1
        /\ \A i \in 1..Len(prefix) : x[i] = prefix[i]
        /\ \A i \in 1..Len(above) : x[Len(prefix) + i] = above[i]
        /\ ~x[Len(x)].param
    BY BaseType
  <2>7. /\ \A i \in 1..Len(prefix) : y[i] = prefix[i]
        /\ Len(y) = Len(prefix) + Len(<< >>) + 1
    BY BaseType
  <2>8. /\ \A i \in DOMAIN a.suffix : ~a.suffix[i].param
        /\ Len(b.suffix) \in {0, 1, 2}
        /\ Len(b.suffix) = 2 => b.suffix[1].param
    BY <2>1 DEF Precedes
  <2>9. u[s].param /\ s \in DOMAIN u /\ Fits(u, path) /\ Fits(v, path)
    OBVIOUS
  <2> HIDE DEF u, v, x, y, prefix, above
  <2>10. Len(y) = Len(prefix) + 1
    BY <2>6, <2>7
  <2>11. Len(u) = Len(v)
    <3>1. Len(u) # 0 /\ Len(v) # 0 /\ u \in Seq(Fixed) /\ v \in Seq(Fixed)
      <4>1. Len(prefix) \in Nat /\ Len(above) \in Nat
        BY <2>4, <2>6
      <4>2. u \in Seq(Fixed) /\ Len(u) = Len(x) + Len(a.suffix) /\ Len(a.suffix) \in Nat
        BY <2>2 DEF Extends
      <4>3. v \in Seq(Fixed) /\ Len(v) = Len(y) + Len(b.suffix) /\ Len(b.suffix) \in Nat
        BY <2>3 DEF Extends
      <4>4. Len(x) \in Nat /\ Len(x) # 0 /\ Len(y) \in Nat /\ Len(y) # 0
        BY <2>6, <2>10, <4>1
      <4> QED
        BY <4>2, <4>3, <4>4
    <3>2. u # << >> /\ v # << >>
      BY <3>1
    <3>3. Len(path) = Len(u)
      BY <2>9, <3>1, <3>2, FixedLength
    <3>4. Len(path) = Len(v)
      BY <2>9, <3>1, <3>2, FixedLength
    <3> QED
      BY <3>3, <3>4
  <2>12. Bases(x, y, prefix, above)
    BY <2>4, <2>5, <2>6, <2>7, <2>10 DEF Bases
  <2>13. Suffixed(a.suffix, b.suffix)
    BY <2>8 DEF Suffixed
  <2>14. v[s].param
    BY <2>2, <2>3, <2>9, <2>11, <2>12, <2>13, OtherBase
  <2> QED
    BY <2>14 DEF v
<1> QED
  BY <1>1, <1>2

\* The positions that a request or a URL has are some of those that are left.
LEMMA PresentPositions ==
    ASSUME NEW uri \in Seq(Segment), NEW absent
    PROVE  Present(uri, absent) \in Seq(DOMAIN uri \ absent)
<1> DEFINE positions == [k \in DOMAIN uri |-> k]
           present == Present(uri, absent)
<1>1. positions \in Seq(Nat) /\ DOMAIN uri = 1..Len(uri)
  OBVIOUS
<1>2. present = Kept(positions, DOMAIN uri \ absent)
  BY DEF Present
<1> HIDE DEF positions, present
<1>3. PICK at : present \in Seq(Nat)
                /\ Embeds(at, present, positions, Len(positions), DOMAIN uri \ absent)
  BY <1>1, <1>2, KeptEmbeds
<1>4. \A i \in 1..Len(present) : present[i] \in DOMAIN uri \ absent
  BY <1>3 DEF Embeds
<1>5. present \in Seq(DOMAIN uri \ absent)
  BY <1>3, <1>4
<1> QED
  BY <1>5 DEF present

\* A URL that is built from values its constraints allow fits its URI.
LEMMA UrlFits ==
    ASSUME NEW uri \in Seq(Segment), NEW v,
           \A k \in DOMAIN uri :
               v[k] \in IF ~uri[k].param THEN {Missing}
                        ELSE uri[k].words \cup (IF uri[k].optional THEN {Missing} ELSE {}),
           BuildUrl(uri, v) # << >>
    PROVE  Fits(uri, BuildUrl(uri, v))
<1> DEFINE absent == {k \in DOMAIN uri : uri[k].param /\ v[k] = Missing}
           present == Present(uri, absent)
           url == BuildUrl(uri, v)
           Here(k) == IF uri[k].param THEN v[k] ELSE CHOOSE w \in uri[k].words : TRUE
<1>1. present \in Seq(DOMAIN uri \ absent)
  BY PresentPositions
<1>2. url = [i \in DOMAIN present |-> Here(present[i])]
  BY DEF BuildUrl
<1>3. ASSUME NEW k \in DOMAIN uri PROVE uri[k] \in Segment
  OBVIOUS
<1>4. ASSUME NEW k \in DOMAIN uri \ absent PROVE Here(k) \in uri[k].words
  <2>1. CASE uri[k].param
    BY <2>1
  <2>2. CASE ~uri[k].param
    <3>1. PICK w \in Word : uri[k] = Static(w)
      BY <1>3, <2>2 DEF Segment
    <3>2. w \in uri[k].words
      BY <3>1 DEF Static
    <3> QED
      BY <2>2, <3>2
  <2> QED
    BY <2>1, <2>2
<1>5. absent \in SUBSET {k \in DOMAIN uri : uri[k].optional}
  <2> SUFFICES ASSUME NEW k \in absent PROVE uri[k].optional
    OBVIOUS
  <2>1. uri[k] \in Segment /\ uri[k].param /\ v[k] = Missing
    BY <1>3
  <2>2. uri[k].words \subseteq Word
    <3>1. \A w \in Word : uri[k] # Static(w)
      BY <2>1, FixedSegments
    <3>2. uri[k] \in [param : {TRUE}, optional : BOOLEAN, words : SUBSET Word]
      BY <2>1, <3>1 DEF Segment
    <3> QED
      BY <3>2
  <2>3. Missing \notin uri[k].words
    BY <2>2, RouterAssumption
  <2> QED
    BY <2>1, <2>3
<1> HIDE DEF absent, present, url, Here
<1>6. DOMAIN present = 1..Len(present) /\ Len(present) \in Nat
  BY <1>1
<1>7. Len(present) = Len(url) /\ DOMAIN url = DOMAIN present
  BY <1>2, <1>6
<1>8. \A i \in DOMAIN url : url[i] \in uri[present[i]].words
  BY <1>1, <1>2, <1>4, <1>6, <1>7
<1>9. \E gone \in SUBSET {k \in DOMAIN uri : uri[k].optional} :
          LET here == Present(uri, gone)
          IN /\ Len(here) = Len(url)
             /\ \A i \in DOMAIN url : url[i] \in uri[here[i]].words
  BY <1>5, <1>7, <1>8 DEF present
<1> QED
  BY <1>9 DEF Fits, url

----------------------------------------------------------------------------
(* The invariant *)

TypeInv ==
    /\ routes \in Seq(Route)
    /\ named \in [Name -> Route \cup {NoRoute}]
    /\ registrar \in [Resource -> Registrar]
    /\ registered \in [Resource -> SUBSET Route]
    /\ wanted \in [Resource -> SUBSET (ActionName \cup UNION Selection)]

\* A registrar knows its routes, and the table has no others of it.
OwnersInv == \A g \in Resource : registered[g] = {x \in ToSet(routes) : x.owner = g}

\* Its fields allow the actions that were asked for.
WantedInv ==
    \A g \in Resource, a \in ActionName : Allowed(registrar[g], a) <=> a \in wanted[g]

NamedInv == \A n \in Name : named[n] \in ToSet(routes) \cup {NoRoute}

\* Its routes are those of its table, for the fields it has now.
ListsInv ==
    \A g \in Resource : \A t, r : t = routes /\ r = registrar[g] => Lists(t, g, r)

RouteInv == TypeInv /\ OwnersInv /\ WantedInv /\ NamedInv /\ ListsInv

\* The tables t and u before and after a call on g that gives it the fields r.
Replaces(t, u, old, fresh, g, r) ==
    /\ t \in Seq(Route)
    /\ \A x : x \in old <=> x \in ToSet(t) /\ x.owner = g
    /\ fresh = NewRoutes(g, r)
    /\ u = RemoveRoutes(t, old) \o fresh

LEMMA Called ==
    ASSUME NEW g \in Resource, NEW r \in Registrar, r.round > 0,
           NEW t, NEW u, NEW old, NEW fresh, Replaces(t, u, old, fresh, g, r)
    PROVE  /\ u \in Seq(Route)
           /\ fresh \in Seq(Route)
           /\ \A x \in ToSet(fresh) : x.owner = g /\ x.round = r.round
           /\ \A x : x \in ToSet(u) <=> (x \in ToSet(t) /\ x \notin old) \/ x \in ToSet(fresh)
           /\ Lists(u, g, r)
           /\ \A h, s : h # g /\ Lists(t, h, s) => Lists(u, h, s)
<1> USE DEF Replaces
<1>1. PICK from : fresh \in Seq(Route) /\ Follows(from, fresh, g, r)
  BY NewRoutesFollow
<1>2. PICK m, at : u \in Seq(Route) /\ Rebuilds(m, at, t, u, old, fresh)
  BY <1>1, Rebuilt
<1>3. ASSUME NEW x \in ToSet(fresh) PROVE x.owner = g /\ x.round = r.round
  <2>1. PICK i \in 1..Len(fresh) : x = fresh[i]
    BY <1>1, <1>3 DEF ToSet
  <2>2. x = RouteOf(g, r, Table(g, r)[from[i]])
    BY <1>1, <2>1 DEF Follows
  <2> QED
    BY <2>2 DEF RouteOf
<1>4. \A x : x \in ToSet(u) <=> (x \in ToSet(t) /\ x \notin old) \/ x \in ToSet(fresh)
  BY <1>1, <1>2, Origins
<1>5. Lists(u, g, r)
  BY <1>1, <1>2, CallerHasTheNew
<1>6. (\A x \in old : x.owner = g) /\ \A x \in ToSet(fresh) : x.owner = g
  BY <1>3
<1>7. ASSUME NEW h, NEW s, h # g, Lists(t, h, s) PROVE Lists(u, h, s)
  BY <1>1, <1>2, <1>6, <1>7, OthersKeepTheirs
<1> QED
  BY <1>1, <1>2, <1>3, <1>4, <1>5, <1>7

LEMMA InitialRoutes == Init => RouteInv
<1> SUFFICES ASSUME Init PROVE RouteInv
  OBVIOUS
<1>1. routes = << >> /\ ToSet(routes) = {} /\ DOMAIN routes = {}
  BY DEF Init, ToSet
<1>2. TypeInv
  <2>1. routes \in Seq(Route)
    BY <1>1
  <2>2. named \in [Name -> Route \cup {NoRoute}]
    BY DEF Init
  <2>3. registrar \in [Resource -> Registrar]
    BY DEF Init, Registrar
  <2>4. registered \in [Resource -> SUBSET Route]
    BY DEF Init
  <2>5. wanted \in [Resource -> SUBSET (ActionName \cup UNION Selection)]
    BY DEF Init
  <2> QED
    BY <2>1, <2>2, <2>3, <2>4, <2>5 DEF TypeInv
<1>3. OwnersInv
  BY <1>1 DEF OwnersInv, Init
<1>4. WantedInv
  BY DEF WantedInv, Init, Allowed
<1>5. NamedInv
  BY DEF NamedInv, Init
<1>6. ListsInv
  <2> SUFFICES ASSUME NEW g \in Resource, NEW t, NEW r, t = routes, r = registrar[g]
               PROVE  Lists(t, g, r)
    BY DEF ListsInv
  <2>1. r.round = 0 /\ Mine(t, g) = {}
    BY <1>1 DEF Init, Mine
  <2> QED
    BY <2>1 DEF Lists
<1> QED
  BY <1>2, <1>3, <1>4, <1>5, <1>6 DEF RouteInv

\* What a call on g does, whatever it asks for.
LEMMA CallPreserves ==
    ASSUME RouteInv, NEW g \in Resource, NEW q \in Registrar,
           q.round = registrar[g].round, Call(g, q),
           wanted' \in [Resource -> SUBSET (ActionName \cup UNION Selection)],
           \A h \in Resource : h # g => wanted'[h] = wanted[h],
           \A a \in ActionName : Allowed(q, a) <=> a \in wanted'[g]
    PROVE  RouteInv'
<1> DEFINE r == [q EXCEPT !.round = @ + 1]
           fresh == NewRoutes(g, r)
           old == registered[g]
<1>1. r \in Registrar /\ r.round > 0
  BY DEF Registrar
<1>2. r.only = q.only /\ r.except = q.except
  BY DEF Registrar
<1>3. /\ routes' = RemoveRoutes(routes, old) \o fresh
      /\ named' = NameRoutes(ForgetNames(named, old), ToSet(fresh))
      /\ registered' = [registered EXCEPT ![g] = ToSet(fresh)]
      /\ registrar' = [registrar EXCEPT ![g] = r]
  BY DEF Call, Register
<1>4. \A x : x \in old <=> x \in ToSet(routes) /\ x.owner = g
  BY DEF RouteInv, OwnersInv
<1>5. routes \in Seq(Route)
  BY DEF RouteInv, TypeInv
<1> HIDE DEF r, old
<1>6. /\ routes' \in Seq(Route)
      /\ fresh \in Seq(Route)
      /\ \A x \in ToSet(fresh) : x.owner = g /\ x.round = r.round
      /\ \A x : x \in ToSet(routes') <=>
             (x \in ToSet(routes) /\ x \notin old) \/ x \in ToSet(fresh)
      /\ Lists(routes', g, r)
      /\ \A h, s : h # g /\ Lists(routes, h, s) => Lists(routes', h, s)
  <2> HIDE DEF fresh
  <2>1. fresh = NewRoutes(g, r)
    BY DEF fresh
  <2>2. Replaces(routes, routes', old, fresh, g, r)
    BY <1>3, <1>4, <1>5, <2>1 DEF Replaces
  <2> QED
    BY <1>1, <2>2, Called
<1> HIDE DEF fresh
<1>7. ToSet(fresh) \subseteq Route
  BY <1>6 DEF ToSet
<1>8. \A n \in Name : named'[n] \in ToSet(routes') \cup {NoRoute}
  <2> SUFFICES ASSUME NEW n \in Name PROVE named'[n] \in ToSet(routes') \cup {NoRoute}
    OBVIOUS
  <2>1. CASE \E x \in ToSet(fresh) : x.name = n
    <3>1. named'[n] \in ToSet(fresh)
      BY <1>3, <2>1 DEF NameRoutes
    <3> QED
      BY <1>6, <3>1
  <2>2. CASE ~\E x \in ToSet(fresh) : x.name = n
    <3>1. named'[n] = IF named[n] \in old THEN NoRoute ELSE named[n]
      BY <1>3, <2>2 DEF NameRoutes, ForgetNames
    <3>2. named[n] \in ToSet(routes) \cup {NoRoute}
      BY DEF RouteInv, NamedInv
    <3> QED
      BY <1>6, <3>1, <3>2
  <2> QED
    BY <2>1, <2>2
<1>9. TypeInv'
  <2>1. \A x \in ToSet(routes') : x \in Route
    BY <1>6 DEF ToSet
  <2>2. named' \in [Name -> Route \cup {NoRoute}]
    <3>1. named' = [n \in Name |-> named'[n]]
      BY <1>3 DEF NameRoutes
    <3> QED
      BY <1>8, <2>1, <3>1
  <2>3. registrar' \in [Resource -> Registrar]
    BY <1>1, <1>3 DEF RouteInv, TypeInv
  <2>4. registered' \in [Resource -> SUBSET Route]
    BY <1>3, <1>7 DEF RouteInv, TypeInv
  <2> QED
    BY <1>6, <2>2, <2>3, <2>4 DEF TypeInv
<1>10. OwnersInv'
  <2> SUFFICES ASSUME NEW h \in Resource
               PROVE  registered'[h] = {x \in ToSet(routes') : x.owner = h}
    BY DEF OwnersInv
  <2>1. CASE h = g
    <3>1. registered'[g] = ToSet(fresh)
      BY <1>3 DEF RouteInv, TypeInv
    <3>2. {x \in ToSet(routes') : x.owner = g} = ToSet(fresh)
      BY <1>4, <1>6
    <3> QED
      BY <2>1, <3>1, <3>2
  <2>2. CASE h # g
    <3>1. registered'[h] = {x \in ToSet(routes) : x.owner = h}
      BY <1>3, <2>2 DEF RouteInv, TypeInv, OwnersInv
    <3>2. {x \in ToSet(routes') : x.owner = h} = {x \in ToSet(routes) : x.owner = h}
      BY <1>4, <1>6, <2>2
    <3> QED
      BY <3>1, <3>2
  <2> QED
    BY <2>1, <2>2
<1>11. WantedInv'
  <2> SUFFICES ASSUME NEW h \in Resource, NEW a \in ActionName
               PROVE  Allowed(registrar[h], a)' <=> a \in wanted'[h]
    BY DEF WantedInv
  <2>1. CASE h = g
    <3>1. registrar'[g] = r
      BY <1>3 DEF RouteInv, TypeInv
    <3>2. Allowed(registrar[g], a)' <=> Allowed(q, a)
      BY <1>2, <3>1 DEF Allowed
    <3> QED
      BY <2>1, <3>2
  <2>2. CASE h # g
    <3>1. registrar'[h] = registrar[h]
      BY <1>3, <2>2 DEF RouteInv, TypeInv
    <3>2. Allowed(registrar[h], a)' <=> Allowed(registrar[h], a)
      BY <3>1 DEF Allowed
    <3>3. Allowed(registrar[h], a) <=> a \in wanted[h]
      BY DEF RouteInv, WantedInv
    <3> QED
      BY <2>2, <3>2, <3>3
  <2> QED
    BY <2>1, <2>2
<1>12. NamedInv'
  BY <1>8 DEF NamedInv
<1>13. ListsInv'
  <2> SUFFICES ASSUME NEW h \in Resource, NEW t, NEW s, t = routes', s = registrar'[h]
               PROVE  Lists(t, h, s)
    BY DEF ListsInv
  <2>1. CASE h = g
    <3>1. s = r
      BY <1>3, <2>1 DEF RouteInv, TypeInv
    <3> QED
      BY <1>6, <2>1, <3>1
  <2>2. CASE h # g
    <3>1. s = registrar[h]
      BY <1>3, <2>2 DEF RouteInv, TypeInv
    <3>2. Lists(routes, h, s)
      BY <3>1 DEF RouteInv, ListsInv
    <3> QED
      BY <1>6, <2>2, <3>2
  <2> QED
    BY <2>1, <2>2
<1> QED
  BY <1>9, <1>10, <1>11, <1>12, <1>13 DEF RouteInv

\* Every call on a registrar keeps the invariant.
LEMMA CallOnPreserves ==
    ASSUME RouteInv, NEW g \in Resource, CallOn(g)
    PROVE  RouteInv'
<1> DEFINE r == registrar[g]
<1>1. r \in Registrar /\ wanted \in [Resource -> SUBSET (ActionName \cup UNION Selection)]
  BY DEF RouteInv, TypeInv
<1>2. \A a \in ActionName : Allowed(r, a) <=> a \in wanted[g]
  BY DEF RouteInv, WantedInv
<1>3. CASE Declare(g)
  <2>1. Call(g, r) /\ wanted' = wanted
    BY <1>3 DEF Declare
  <2> HIDE DEF r
  <2>2. r.round = registrar[g].round
    BY DEF r
  <2> QED
    BY <1>1, <1>2, <2>1, <2>2, CallPreserves
<1>4. ASSUME NEW actions \in Selection, Only(g, actions) PROVE RouteInv'
  <2> DEFINE q == [r EXCEPT !.only = actions, !.except = {}]
             asked == IF actions = {} THEN ActionName ELSE actions
  <2>1. Call(g, q) /\ wanted' = [wanted EXCEPT ![g] = asked]
    BY <1>4 DEF Only
  <2>2. q \in Registrar /\ q.round = registrar[g].round
    BY <1>1 DEF Registrar
  <2>3. q.only = actions /\ q.except = {}
    BY <1>1 DEF Registrar
  <2>4. asked \in SUBSET (ActionName \cup UNION Selection)
    OBVIOUS
  <2>5. \A a \in ActionName : Allowed(q, a) <=> a \in asked
    BY <2>3 DEF Allowed
  <2> HIDE DEF q, asked
  <2>6. wanted' \in [Resource -> SUBSET (ActionName \cup UNION Selection)]
        /\ wanted'[g] = asked
        /\ \A h \in Resource : h # g => wanted'[h] = wanted[h]
    BY <1>1, <2>1, <2>4
  <2>7. \A a \in ActionName : Allowed(q, a) <=> a \in wanted'[g]
    BY <2>5, <2>6
  <2> QED
    BY <2>1, <2>2, <2>6, <2>7, CallPreserves
<1>5. ASSUME NEW actions \in Selection, Except(g, actions) PROVE RouteInv'
  <2> DEFINE q == [r EXCEPT !.except = actions, !.only = {}]
             asked == ActionName \ actions
  <2>1. Call(g, q) /\ wanted' = [wanted EXCEPT ![g] = asked]
    BY <1>5 DEF Except
  <2>2. q \in Registrar /\ q.round = registrar[g].round
    BY <1>1 DEF Registrar
  <2>3. q.except = actions /\ q.only = {}
    BY <1>1 DEF Registrar
  <2>4. asked \in SUBSET (ActionName \cup UNION Selection)
    OBVIOUS
  <2>5. \A a \in ActionName : Allowed(q, a) <=> a \in asked
    BY <2>3 DEF Allowed
  <2> HIDE DEF q, asked
  <2>6. wanted' \in [Resource -> SUBSET (ActionName \cup UNION Selection)]
        /\ wanted'[g] = asked
        /\ \A h \in Resource : h # g => wanted'[h] = wanted[h]
    BY <1>1, <2>1, <2>4
  <2>7. \A a \in ActionName : Allowed(q, a) <=> a \in wanted'[g]
    BY <2>5, <2>6
  <2> QED
    BY <2>1, <2>2, <2>6, <2>7, CallPreserves
<1>6. ASSUME NEW q \in Registrar, q.round = r.round, q.only = r.only, q.except = r.except,
             Call(g, q), wanted' = wanted
      PROVE  RouteInv'
  <2>1. \A a \in ActionName : Allowed(q, a) <=> a \in wanted[g]
    BY <1>2, <1>6 DEF Allowed
  <2> QED
    BY <1>1, <1>6, <2>1, CallPreserves
<1>7. CASE Shallow(g)
  <2> DEFINE q == [r EXCEPT !.shallow = TRUE]
  <2>1. Call(g, q) /\ wanted' = wanted
    BY <1>7 DEF Shallow
  <2>2. q \in Registrar /\ q.round = r.round /\ q.only = r.only /\ q.except = r.except
    BY <1>1 DEF Registrar
  <2> HIDE DEF q
  <2> QED
    BY <1>6, <2>1, <2>2
<1>8. CASE Creatable(g)
  <2> DEFINE q == [r EXCEPT !.creatable = TRUE]
  <2>1. Call(g, q) /\ wanted' = wanted
    BY <1>8 DEF Creatable
  <2>2. q \in Registrar /\ q.round = r.round /\ q.only = r.only /\ q.except = r.except
    BY <1>1 DEF Registrar
  <2> HIDE DEF q
  <2> QED
    BY <1>6, <2>1, <2>2
<1> QED
  BY <1>3, <1>4, <1>5, <1>7, <1>8 DEF CallOn

\* A plain route goes to the end of the table and belongs to no registrar.
LEMMA AddRoutePreserves ==
    ASSUME RouteInv, NEW p \in Plain, AddRoute(p)
    PROVE  RouteInv'
<1> DEFINE route == [owner |-> p, action |-> "none", round |-> 1,
                     methods |-> PlainRoute[p].methods,
                     uri |-> PlainRoute[p].uri, name |-> PlainRoute[p].name]
<1>1. route \in Route
  <2>1. PlainRoute[p].methods \in SUBSET Method /\ PlainRoute[p].uri \in Seq(Segment)
    BY DeclarationAssumption
  <2>2. PlainRoute[p].name \in Name
    BY DEF Name
  <2> QED
    BY <2>1, <2>2 DEF Route
<1>2. /\ routes' = Append(routes, route)
      /\ named' = NameRoutes(named, {route})
      /\ registrar' = registrar /\ registered' = registered /\ wanted' = wanted
  BY DEF AddRoute
<1>3. route.owner \notin Resource
  BY RouterAssumption
<1> HIDE DEF route
<1>4. routes \in Seq(Route)
  BY DEF RouteInv, TypeInv
<1>5. /\ routes' \in Seq(Route)
      /\ DOMAIN routes = 1..Len(routes) /\ Len(routes) \in Nat
      /\ DOMAIN routes' = 1..(Len(routes) + 1)
      /\ \A i \in DOMAIN routes : i \in DOMAIN routes' /\ routes'[i] = routes[i]
      /\ Len(routes) + 1 \in DOMAIN routes' /\ routes'[Len(routes) + 1] = route
  BY <1>1, <1>2, <1>4
<1>6. \A x : x \in ToSet(routes') <=> x \in ToSet(routes) \/ x = route
  <2>1. \A i \in DOMAIN routes' : i \in DOMAIN routes \/ i = Len(routes) + 1
    BY <1>5
  <2>2. ASSUME NEW x \in ToSet(routes') PROVE x \in ToSet(routes) \/ x = route
    <3>1. PICK i \in DOMAIN routes' : x = routes'[i]
      BY DEF ToSet
    <3> QED
      BY <1>5, <2>1, <3>1 DEF ToSet
  <2>3. ASSUME NEW x \in ToSet(routes) PROVE x \in ToSet(routes')
    <3>1. PICK i \in DOMAIN routes : x = routes[i]
      BY DEF ToSet
    <3> QED
      BY <1>5, <3>1 DEF ToSet
  <2>4. route \in ToSet(routes')
    BY <1>5 DEF ToSet
  <2> QED
    BY <2>2, <2>3, <2>4
<1>7. \A n \in Name : named'[n] = route \/ named'[n] = named[n]
  BY <1>2 DEF NameRoutes
<1>8. TypeInv'
  <2>1. named' = [n \in Name |-> named'[n]]
    BY <1>2 DEF NameRoutes
  <2>2. \A n \in Name : named'[n] \in Route \cup {NoRoute}
    BY <1>1, <1>7 DEF RouteInv, TypeInv
  <2>3. named' \in [Name -> Route \cup {NoRoute}]
    BY <2>1, <2>2
  <2> QED
    BY <1>2, <1>5, <2>3 DEF RouteInv, TypeInv
<1>9. OwnersInv'
  <2> SUFFICES ASSUME NEW g \in Resource
               PROVE  registered'[g] = {x \in ToSet(routes') : x.owner = g}
    BY DEF OwnersInv
  <2>1. registered'[g] = {x \in ToSet(routes) : x.owner = g}
    BY <1>2 DEF RouteInv, OwnersInv
  <2> QED
    BY <1>3, <1>6, <2>1
<1>10. WantedInv'
  BY <1>2 DEF RouteInv, WantedInv, Allowed
<1>11. NamedInv'
  BY <1>6, <1>7 DEF RouteInv, NamedInv
<1>12. ListsInv'
  <2> SUFFICES ASSUME NEW g \in Resource, NEW u, NEW s, u = routes', s = registrar'[g]
               PROVE  Lists(u, g, s)
    BY DEF ListsInv
  <2>1. PICK t : t = routes
    OBVIOUS
  <2>2. Lists(t, g, s)
    BY <1>2, <2>1 DEF RouteInv, ListsInv
  <2> DEFINE at == [i \in DOMAIN t |-> i]
  <2>3. Mine(u, g) = Mine(t, g)
    <3>1. \A i \in DOMAIN u : i \in DOMAIN t \/ i = Len(t) + 1
      BY <1>5, <2>1
    <3>2. u[Len(t) + 1].owner # g
      BY <1>3, <1>5, <2>1
    <3>3. \A i \in DOMAIN t : i \in DOMAIN u /\ u[i] = t[i]
      BY <1>5, <2>1
    <3> QED
      BY <3>1, <3>2, <3>3 DEF Mine
  <2>4. \A i \in Mine(u, g) : at[i] = i /\ u[i] = t[i]
    BY <1>5, <2>1, <2>3 DEF Mine
  <2> HIDE DEF at
  <2> QED
    BY <2>2, <2>3, <2>4, ListsCarry
<1> QED
  BY <1>8, <1>9, <1>10, <1>11, <1>12 DEF RouteInv

LEMMA StutterKeeps == RouteInv /\ UNCHANGED vars => RouteInv'
<1> SUFFICES ASSUME RouteInv, UNCHANGED vars PROVE RouteInv'
  OBVIOUS
<1> USE DEF vars, RouteInv
<1>1. TypeInv' /\ OwnersInv'
  BY DEF TypeInv, OwnersInv
<1>2. WantedInv' /\ NamedInv'
  BY DEF WantedInv, NamedInv, Allowed
<1>3. ListsInv'
  BY DEF ListsInv
<1> QED
  BY <1>1, <1>2, <1>3

LEMMA RouteInvHolds == Spec => []RouteInv
<1>1. Init => RouteInv
  BY InitialRoutes
<1>2. RouteInv /\ [Next]_vars => RouteInv'
  BY CallOnPreserves, AddRoutePreserves, StutterKeeps DEF Next
<1> QED
  BY <1>1, <1>2, PTL DEF Spec

----------------------------------------------------------------------------
(* The properties *)

\* What From says of a route, apart from the entry it comes from.
LEMMA FromFacts ==
    ASSUME NEW g \in Resource, NEW r, NEW x, NEW p, From(x, g, r, p)
    PROVE  LET a == Table(g, r)[p]
           IN /\ p \in DOMAIN Table(g, r) /\ a \in Entry /\ a \in ToSet(Table(g, r))
              /\ a.name \in ActionName
              /\ Allowed(r, a.name) /\ a.name \in Declaration[g].has
              /\ x.action = a.name /\ x.methods = a.methods /\ x.uri = Uri(g, r, a)
              /\ x.owner = g /\ x.round = r.round
<1> DEFINE table == Table(g, r)
           a == table[p]
<1>1. p \in DOMAIN table /\ a \in Picked(g, r) /\ x = RouteOf(g, r, a)
  BY DEF From
<1>2. table \in Seq(Entry)
  BY Tables DEF InOrder
<1>3. a \in Entry /\ a \in ToSet(table)
  <2> HIDE DEF table
  <2> QED
    BY <1>1, <1>2 DEF ToSet
<1>4. a.name \in ActionName
  BY <1>3 DEF Entry
<1>5. Allowed(r, a.name) /\ a.name \in Declaration[g].has
  BY <1>1 DEF Picked
<1>6. x.action = a.name /\ x.methods = a.methods /\ x.uri = Uri(g, r, a)
      /\ x.owner = g /\ x.round = r.round
  BY <1>1 DEF RouteOf
<1> QED
  BY <1>1, <1>3, <1>4, <1>5, <1>6

\* Two routes of a registrar come from entries in the table's order.
LEMMA PairFacts ==
    ASSUME NEW g \in Resource, NEW r, NEW t \in Seq(Route), Lists(t, g, r),
           NEW i \in Mine(t, g), NEW k \in Mine(t, g), i < k
    PROVE  \E p, q : /\ From(t[i], g, r, p) /\ From(t[k], g, r, q)
                     /\ Precedes(Table(g, r)[p], Table(g, r)[q])
<1>1. PICK p, q : p < q /\ From(t[i], g, r, p) /\ From(t[k], g, r, q)
  BY DEF Lists
<1>2. p \in DOMAIN Table(g, r) /\ q \in DOMAIN Table(g, r)
  BY <1>1 DEF From
<1>3. Precedes(Table(g, r)[p], Table(g, r)[q])
  BY <1>1, <1>2, Tables DEF InOrder
<1> QED
  BY <1>1, <1>3

\* A registrar's routes are exactly those of the actions asked for that its
\* controller has, each once and all of the last call (register): the invariant
\* says that they are the picked entries of the table in their order, and the
\* entries of a table have different names.
THEOREM TableIsExact == Spec => []ExactRoutes
<1>1. RouteInv => ExactRoutes
  <2> SUFFICES ASSUME RouteInv, NEW g \in Resource, Declared(g)
               PROVE  /\ {routes[k].action : k \in Own(g)} =
                             {a.name : a \in ToSet(Table(g, registrar[g]))}
                             \cap wanted[g] \cap Declaration[g].has
                      /\ \A k \in Own(g) : routes[k].round = registrar[g].round
                      /\ \A i, k \in Own(g) : routes[i].action = routes[k].action => i = k
    BY DEF ExactRoutes
  <2>1. PICK t, r, w : t = routes /\ r = registrar[g] /\ w = wanted[g]
    OBVIOUS
  <2>2. Lists(t, g, r) /\ t \in Seq(Route) /\ r.round > 0
    BY <2>1 DEF RouteInv, ListsInv, TypeInv, Declared
  <2>3. \A a \in ActionName : Allowed(r, a) <=> a \in w
    BY <2>1 DEF RouteInv, WantedInv
  <2>4. Own(g) = Mine(t, g)
    BY <2>1 DEF Own, Mine
  <2>5. ASSUME NEW k \in Mine(t, g)
        PROVE  /\ t[k].round = r.round
               /\ t[k].action \in {a.name : a \in ToSet(Table(g, r))} \cap w \cap Declaration[g].has
    <3>1. PICK p : From(t[k], g, r, p)
      BY <2>2 DEF Lists
    <3> QED
      BY <2>3, <3>1, FromFacts
  <2>6. ASSUME NEW a \in ToSet(Table(g, r)), a.name \in w, a.name \in Declaration[g].has
        PROVE  \E k \in Mine(t, g) : t[k].action = a.name
    <3>1. PICK p \in DOMAIN Table(g, r) : a = Table(g, r)[p]
      BY DEF ToSet
    <3>2. a.name \in ActionName
      <4>1. Table(g, r) \in Seq(Entry)
        BY Tables DEF InOrder
      <4>2. a \in Entry
        BY <3>1, <4>1
      <4> QED
        BY <4>2 DEF Entry
    <3>3. a \in Picked(g, r)
      BY <2>3, <2>6, <3>2 DEF Picked
    <3>4. PICK k \in Mine(t, g) : From(t[k], g, r, p)
      BY <2>2, <3>1, <3>3 DEF Lists
    <3> QED
      BY <3>1, <3>4, FromFacts
  <2>7. ASSUME NEW i \in Mine(t, g), NEW k \in Mine(t, g), i < k
        PROVE  t[i].action # t[k].action
    <3>1. PICK p, q : /\ From(t[i], g, r, p) /\ From(t[k], g, r, q)
                      /\ Precedes(Table(g, r)[p], Table(g, r)[q])
      BY <2>2, <2>7, PairFacts
    <3>2. Table(g, r)[p].name # Table(g, r)[q].name
      BY <3>1 DEF Precedes
    <3> QED
      BY <3>1, <3>2, FromFacts
  <2>8. ASSUME NEW i \in Mine(t, g), NEW k \in Mine(t, g), t[i].action = t[k].action
        PROVE  i = k
    <3>1. i \in Nat /\ k \in Nat
      BY <2>2 DEF Mine
    <3> QED
      BY <2>7, <2>8, <3>1
  <2>9. {t[k].action : k \in Mine(t, g)} =
            {a.name : a \in ToSet(Table(g, r))} \cap w \cap Declaration[g].has
    BY <2>5, <2>6
  <2> QED
    BY <2>1, <2>4, <2>5, <2>8, <2>9
<1> QED
  BY <1>1, RouteInvHolds, PTL

\* A parameter never shadows a static segment of a later route of the same
\* resource (docs/controllers.md): the tables are in an order in which an action
\* with a parameter comes after those with a static segment in its place, and
\* where Shallow moves the member routes but not the others, two URIs of one
\* length have at most one parent.
THEOREM StaticComesFirst == Spec => []StaticFirst
<1>1. RouteInv => StaticFirst
  <2> SUFFICES ASSUME RouteInv, NEW g \in Resource, NEW i \in Own(g), NEW k \in Own(g),
                      i < k, routes[i].methods \cap routes[k].methods # {},
                      NEW path \in Path, Fits(routes[i].uri, path), Fits(routes[k].uri, path),
                      NEW s \in DOMAIN routes[i].uri, routes[i].uri[s].param
               PROVE  routes[k].uri[s].param
    BY DEF StaticFirst
  <2>1. PICK t, r : t = routes /\ r = registrar[g]
    OBVIOUS
  <2>2. Lists(t, g, r) /\ t \in Seq(Route) /\ r \in Registrar
    BY <2>1 DEF RouteInv, ListsInv, TypeInv
  <2>3. i \in Mine(t, g) /\ k \in Mine(t, g)
    BY <2>1 DEF Own, Mine
  <2>4. PICK p, q : /\ From(t[i], g, r, p) /\ From(t[k], g, r, q)
                    /\ Precedes(Table(g, r)[p], Table(g, r)[q])
    BY <2>2, <2>3, PairFacts
  <2>5. PICK a, b : a = Table(g, r)[p] /\ b = Table(g, r)[q]
    OBVIOUS
  <2>6. a \in Entry /\ t[i].methods = a.methods /\ t[i].uri = Uri(g, r, a)
    BY <2>4, <2>5, FromFacts
  <2>7. b \in Entry /\ t[k].methods = b.methods /\ t[k].uri = Uri(g, r, b)
    BY <2>4, <2>5, FromFacts
  <2>8. Precedes(a, b) /\ a.methods \cap b.methods # {}
    BY <2>1, <2>4, <2>5, <2>6, <2>7
  <2>9. Fits(Uri(g, r, a), path) /\ Fits(Uri(g, r, b), path)
    BY <2>1, <2>6, <2>7
  <2>10. s \in DOMAIN Uri(g, r, a) /\ Uri(g, r, a)[s].param
    BY <2>1, <2>6
  <2>11. Uri(g, r, b)[s].param
    BY <2>2, <2>6, <2>7, <2>8, <2>9, <2>10, ParamsAlign
  <2> QED
    BY <2>1, <2>7, <2>11
<1> QED
  BY <1>1, RouteInvHolds, PTL

\* A path whose words a URL writes as they are is the path of its request.
LEMMA VerbatimIsRequested ==
    ASSUME NEW url \in Seq(Word), \A i \in DOMAIN url : Verbatim(url[i])
    PROVE  Requested(url) = url
<1>1. \A i \in DOMAIN url : \A j \in 1 .. i - 1 : url[j] \notin Cut
  BY DEF Verbatim
<1>2. Requested(url) = [i \in DOMAIN url |-> Unescaped[url[i]]]
  BY <1>1 DEF Requested
<1>3. Requested(url) = [i \in DOMAIN url |-> url[i]]
  BY <1>2 DEF Verbatim
<1> QED
  BY <1>3

\* The words of a URL are words.
LEMMA UrlWords ==
    ASSUME NEW uri \in Seq(Segment), NEW v,
           \A k \in DOMAIN uri :
               v[k] \in IF ~uri[k].param THEN {Missing}
                        ELSE uri[k].words \cup (IF uri[k].optional THEN {Missing} ELSE {})
    PROVE  BuildUrl(uri, v) \in Seq(Word)
<1> DEFINE absent == {k \in DOMAIN uri : uri[k].param /\ v[k] = Missing}
           present == Present(uri, absent)
           word(k) == IF uri[k].param THEN v[k] ELSE CHOOSE w \in uri[k].words : TRUE
<1>1. present \in Seq(DOMAIN uri \ absent)
  BY PresentPositions
<1>2. BuildUrl(uri, v) = [i \in DOMAIN present |-> word(present[i])]
  BY DEF BuildUrl
<1>3. ASSUME NEW k \in DOMAIN uri \ absent PROVE word(k) \in Word
  <2>1. uri[k] \in Segment
    OBVIOUS
  <2>2. CASE uri[k].param
    <3>1. v[k] \in uri[k].words
      BY <1>3, <2>2
    <3>2. uri[k] \notin {Static(w) : w \in Word}
      BY <2>2 DEF Static
    <3>3. PICK segment : segment = uri[k]
      OBVIOUS
    <3>4. segment \in [param : {TRUE}, optional : BOOLEAN, words : SUBSET Word]
      BY <2>1, <3>2, <3>3 DEF Segment
    <3>5. segment.words \subseteq Word
      BY <3>4
    <3> QED
      BY <2>2, <3>1, <3>3, <3>5
  <2>3. CASE ~uri[k].param
    <3>1. PICK w \in Word : uri[k] = Static(w)
      BY <2>1, <2>3 DEF Segment
    <3>2. uri[k].words = {w}
      BY <3>1 DEF Static
    <3>3. word(k) = CHOOSE u \in {w} : TRUE
      BY <2>3, <3>2
    <3> QED
      BY <3>3
  <2> QED
    BY <2>2, <2>3
<1> HIDE DEF present, absent, word
<1>4. DOMAIN present = 1..Len(present) /\ Len(present) \in Nat
      /\ \A i \in DOMAIN present : word(present[i]) \in Word
  BY <1>1, <1>3
<1> QED
  BY <1>2, <1>4

\* A request for a URL built from values that the constraints allow, and that a URL
\* writes as they are, fits the route it was built for (buildURL, compilePattern):
\* what the URL leaves out is what the pattern may leave out, in the same order.
THEOREM BuiltUrlsMatch == Spec => []UrlsMatch
<1>1. RouteInv => UrlsMatch
  <2> SUFFICES ASSUME RouteInv, NEW x \in ToSet(routes), NEW v,
                      \A k \in DOMAIN x.uri :
                          v[k] \in IF ~x.uri[k].param THEN {Missing}
                                   ELSE (x.uri[k].words \cap Value)
                                        \cup (IF x.uri[k].optional THEN {Missing} ELSE {}),
                      NEW url, url = BuildUrl(x.uri, v), url # << >>,
                      \A i \in DOMAIN url : Verbatim(url[i])
               PROVE  Fits(x.uri, Requested(url))
    BY DEF UrlsMatch
  <2>1. x \in Route
    BY DEF RouteInv, TypeInv, ToSet
  <2>2. PICK uri : uri = x.uri
    OBVIOUS
  <2>3. uri \in Seq(Segment)
    BY <2>1, <2>2 DEF Route
  <2>4. ASSUME NEW k \in DOMAIN uri
        PROVE  v[k] \in IF ~uri[k].param THEN {Missing}
                        ELSE uri[k].words \cup (IF uri[k].optional THEN {Missing} ELSE {})
    BY <2>2
  <2>5. Fits(uri, url)
    BY <2>2, <2>3, <2>4, UrlFits
  <2>6. url \in Seq(Word)
    BY <2>2, <2>3, <2>4, UrlWords
  <2>7. Requested(url) = url
    BY <2>6, VerbatimIsRequested
  <2> QED
    BY <2>2, <2>5, <2>7
<1> QED
  BY <1>1, RouteInvHolds, PTL

\* What a call on g does, with the fields r that it gives it.
LEMMA CallFacts ==
    ASSUME RouteInv, NEW g \in Resource, CallOn(g)
    PROVE  \E r \in Registrar :
               LET fresh == NewRoutes(g, r)
               IN /\ r.round = registrar[g].round + 1
                  /\ Replaces(routes, routes', registered[g], fresh, g, r)
                  /\ named' = NameRoutes(ForgetNames(named, registered[g]), ToSet(fresh))
                  /\ registered'[g] = ToSet(fresh)
                  /\ \A h \in Resource : h # g => registrar'[h] = registrar[h]
<1> DEFINE s == registrar[g]
<1>1. s \in Registrar
  BY DEF RouteInv, TypeInv
<1>2. \E q \in Registrar : q.round = s.round /\ Call(g, q)
  <2>1. CASE Declare(g)
    BY <1>1, <2>1 DEF Declare
  <2>2. ASSUME NEW actions \in Selection, Only(g, actions)
        PROVE  \E q \in Registrar : q.round = s.round /\ Call(g, q)
    <3> DEFINE q == [s EXCEPT !.only = actions, !.except = {}]
    <3>1. q \in Registrar /\ q.round = s.round
      BY <1>1 DEF Registrar
    <3>2. Call(g, q)
      BY <2>2 DEF Only
    <3> QED
      BY <3>1, <3>2
  <2>3. ASSUME NEW actions \in Selection, Except(g, actions)
        PROVE  \E q \in Registrar : q.round = s.round /\ Call(g, q)
    <3> DEFINE q == [s EXCEPT !.except = actions, !.only = {}]
    <3>1. q \in Registrar /\ q.round = s.round
      BY <1>1 DEF Registrar
    <3>2. Call(g, q)
      BY <2>3 DEF Except
    <3> QED
      BY <3>1, <3>2
  <2>4. CASE Shallow(g)
    <3> DEFINE q == [s EXCEPT !.shallow = TRUE]
    <3>1. q \in Registrar /\ q.round = s.round
      BY <1>1 DEF Registrar
    <3>2. Call(g, q)
      BY <2>4 DEF Shallow
    <3> QED
      BY <3>1, <3>2
  <2>5. CASE Creatable(g)
    <3> DEFINE q == [s EXCEPT !.creatable = TRUE]
    <3>1. q \in Registrar /\ q.round = s.round
      BY <1>1 DEF Registrar
    <3>2. Call(g, q)
      BY <2>5 DEF Creatable
    <3> QED
      BY <3>1, <3>2
  <2> QED
    BY <2>1, <2>2, <2>3, <2>4, <2>5 DEF CallOn
<1>3. PICK q \in Registrar : q.round = s.round /\ Call(g, q)
  BY <1>2
<1> DEFINE r == [q EXCEPT !.round = @ + 1]
           fresh == NewRoutes(g, r)
<1>4. r \in Registrar /\ r.round = registrar[g].round + 1
  BY <1>3 DEF Registrar
<1>5. /\ routes' = RemoveRoutes(routes, registered[g]) \o fresh
      /\ named' = NameRoutes(ForgetNames(named, registered[g]), ToSet(fresh))
      /\ registered' = [registered EXCEPT ![g] = ToSet(fresh)]
      /\ registrar' = [registrar EXCEPT ![g] = r]
  BY <1>3 DEF Call, Register
<1> HIDE DEF r
<1>6. Replaces(routes, routes', registered[g], fresh, g, r)
  BY <1>5 DEF RouteInv, TypeInv, OwnersInv, Replaces
<1>7. registered'[g] = ToSet(fresh) /\ \A h \in Resource : h # g => registrar'[h] = registrar[h]
  BY <1>5 DEF RouteInv, TypeInv
<1> QED
  BY <1>4, <1>5, <1>6, <1>7

\* A call on one registrar leaves the answers of the others alone: the routes
\* that stay keep their order, so the first of them that served a request still
\* is, unless a route of the call itself comes before it or was it (Locality).
THEOREM CallsStayLocal == Spec => CallsAreLocal
<1>1. ASSUME RouteInv, [Next]_vars, NEW g \in Resource, registrar'[g] # registrar[g],
             NEW method \in Method, NEW path \in Path
      PROVE  LET before == Match(routes, method, path)
                 after == Match(routes', method, path)
                 own == registered[g] \cup registered'[g]
             IN \/ before = after
                \/ before.route \in own
                \/ after.route \in own
                \/ /\ before.route = after.route
                   /\ \E x \in own : Fits(x.uri, path)
  <2>1. CallOn(g)
    <3>1. ASSUME NEW h \in Resource, CallOn(h) PROVE h = g
      BY <1>1, <3>1, CallFacts
    <3>2. ~\E p \in Plain : AddRoute(p)
      BY <1>1 DEF AddRoute
    <3>3. ~UNCHANGED vars
      BY <1>1 DEF vars
    <3> QED
      BY <1>1, <3>1, <3>2, <3>3 DEF Next
  <2>2. PICK r \in Registrar :
            /\ Replaces(routes, routes', registered[g], NewRoutes(g, r), g, r)
            /\ registered'[g] = ToSet(NewRoutes(g, r))
    BY <1>1, <2>1, CallFacts
  <2>3. PICK t, u, old, fresh : /\ t = routes /\ u = routes' /\ old = registered[g]
                                /\ fresh = NewRoutes(g, r)
    OBVIOUS
  <2>4. t \in Seq(Route) /\ fresh \in Seq(Route)
    BY <1>1, <2>3, NewRoutesFollow DEF RouteInv, TypeInv
  <2>5. u = RemoveRoutes(t, old) \o fresh
    BY <2>2, <2>3 DEF Replaces
  <2>6. PICK m, at : u \in Seq(Route) /\ Rebuilds(m, at, t, u, old, fresh)
    BY <2>4, <2>5, Rebuilt
  <2>7. PICK own : own = old \cup ToSet(fresh)
    OBVIOUS
  <2>8. \A x : x \in own <=> x \in old \/ x \in ToSet(fresh)
    BY <2>7
  <2>9. LET before == Match(t, method, path)
            after == Match(u, method, path)
        IN \/ before = after
           \/ before.route \in own
           \/ after.route \in own
           \/ /\ before.route = after.route
              /\ \E x \in own : Fits(x.uri, path)
    BY <2>4, <2>6, <2>8, Locality
  <2>10. own = registered[g] \cup registered'[g]
    BY <2>2, <2>3, <2>7
  <2> QED
    BY <2>3, <2>9, <2>10
<1>2. RouteInv /\ [Next]_vars =>
          [\A g \in Resource : registrar'[g] # registrar[g] =>
               \A method \in Method, path \in Path :
                   LET before == Match(routes, method, path)
                       after == Match(routes', method, path)
                       own == registered[g] \cup registered'[g]
                   IN \/ before = after
                      \/ before.route \in own
                      \/ after.route \in own
                      \/ /\ before.route = after.route
                         /\ \E x \in own : Fits(x.uri, path)]_vars
  BY <1>1
<1> QED
  BY <1>2, RouteInvHolds, PTL DEF Spec, CallsAreLocal

\* A name reaches a route of the table, and a call takes it from a route that
\* stays only to give it to one that it has just registered: what a call forgets are
\* the names of the registrar's routes of the call before, which have all gone.
THEOREM NamesStay == Spec => NamesReachRoutes
<1>1. ASSUME RouteInv, RouteInv', [Next]_vars, NEW n \in Name
      PROVE  /\ named'[n] \in ToSet(routes') \cup {NoRoute}
             /\ named'[n] = NoRoute => named[n] \notin ToSet(routes')
             /\ named'[n] # named[n] => named'[n] \notin ToSet(routes)
  <2>1. named'[n] \in ToSet(routes') \cup {NoRoute}
    BY <1>1 DEF RouteInv, NamedInv
  <2>2. NoRoute \notin Route /\ NoRoute \notin ToSet(routes')
    <3>1. NoRoute \notin Route
      BY DeclarationAssumption
    <3>2. \A x \in ToSet(routes') : x \in Route
      BY <1>1 DEF RouteInv, TypeInv, ToSet
    <3> QED
      BY <3>1, <3>2
  <2>3. CASE UNCHANGED vars
    BY <2>1, <2>2, <2>3 DEF vars
  <2>4. ASSUME NEW p \in Plain, AddRoute(p)
        PROVE  /\ named'[n] = NoRoute => named[n] \notin ToSet(routes')
               /\ named'[n] # named[n] => named'[n] \notin ToSet(routes)
    <3>1. PICK route : /\ routes' = Append(routes, route) /\ named' = NameRoutes(named, {route})
                       /\ route.owner = p /\ \A x \in ToSet(routes) : x.owner # p
      BY <2>4 DEF AddRoute
    <3>2. route \in ToSet(routes')
      <4>1. routes \in Seq(Route)
        BY <1>1 DEF RouteInv, TypeInv
      <4>2. Len(routes) + 1 \in DOMAIN routes' /\ routes'[Len(routes) + 1] = route
        BY <3>1, <4>1
      <4> QED
        BY <4>2 DEF ToSet
    <3>3. route \notin ToSet(routes)
      BY <2>4, <3>1
    <3>4. named'[n] = route \/ named'[n] = named[n]
      BY <3>1 DEF NameRoutes
    <3>5. CASE named'[n] = route
      BY <2>2, <3>2, <3>3, <3>5
    <3>6. CASE named'[n] = named[n]
      BY <2>2, <3>6
    <3> QED
      BY <3>4, <3>5, <3>6
  <2>5. ASSUME NEW g \in Resource, CallOn(g)
        PROVE  /\ named'[n] = NoRoute => named[n] \notin ToSet(routes')
               /\ named'[n] # named[n] => named'[n] \notin ToSet(routes)
    <3>1. PICK r \in Registrar :
              /\ r.round = registrar[g].round + 1
              /\ Replaces(routes, routes', registered[g], NewRoutes(g, r), g, r)
              /\ named' = NameRoutes(ForgetNames(named, registered[g]), ToSet(NewRoutes(g, r)))
      BY <1>1, <2>5, CallFacts
    <3>2. PICK t, u, old, fresh, s : /\ t = routes /\ u = routes' /\ old = registered[g]
                                     /\ fresh = NewRoutes(g, r) /\ s = registrar[g]
      OBVIOUS
    <3>3. Replaces(t, u, old, fresh, g, r)
      BY <3>1, <3>2
    <3>4. s \in Registrar /\ r.round = s.round + 1 /\ r.round > 0
      BY <1>1, <3>1, <3>2 DEF RouteInv, TypeInv, Registrar
    <3>5. /\ \A x \in ToSet(fresh) : x.owner = g /\ x.round = r.round
          /\ \A x : x \in ToSet(u) <=> (x \in ToSet(t) /\ x \notin old) \/ x \in ToSet(fresh)
      BY <3>3, <3>4, Called
    <3>6. ASSUME NEW x \in ToSet(t), x.owner = g PROVE x.round = s.round
      <4>1. PICK i \in DOMAIN t : x = t[i]
        BY DEF ToSet
      <4>2. i \in Mine(t, g)
        BY <3>6, <4>1 DEF Mine
      <4>3. Lists(t, g, s)
        BY <1>1, <3>2 DEF RouteInv, ListsInv
      <4>4. PICK p : From(t[i], g, s, p)
        BY <4>2, <4>3 DEF Lists
      <4> QED
        BY <4>1, <4>4, FromFacts
    <3>7. \A x \in ToSet(fresh) : x \notin ToSet(t) /\ x \notin old
      <4>1. s.round \in Nat /\ r.round # s.round
        BY <3>4 DEF Registrar
      <4>2. \A x \in old : x \in ToSet(t)
        BY <3>3 DEF Replaces
      <4> QED
        BY <3>5, <3>6, <4>1, <4>2
    <3>8. CASE \E x \in ToSet(fresh) : x.name = n
      <4>1. named'[n] \in ToSet(fresh)
        BY <3>1, <3>2, <3>8 DEF NameRoutes
      <4>2. named'[n] # NoRoute
        BY <2>2, <3>2, <3>5, <4>1
      <4> QED
        BY <3>2, <3>7, <4>1, <4>2
    <3>9. CASE ~\E x \in ToSet(fresh) : x.name = n
      <4>1. named'[n] = IF named[n] \in old THEN NoRoute ELSE named[n]
        BY <3>1, <3>2, <3>9 DEF NameRoutes, ForgetNames
      <4>2. NoRoute \notin ToSet(routes)
        <5>1. \A x \in ToSet(routes) : x \in Route
          BY <1>1 DEF RouteInv, TypeInv, ToSet
        <5> QED
          BY <2>2, <5>1
      <4>3. named[n] \in old => named[n] \notin ToSet(u)
        BY <3>5, <3>7
      <4>4. CASE named[n] \in old
        BY <3>2, <4>1, <4>2, <4>3, <4>4
      <4>5. CASE named[n] \notin old
        BY <2>2, <4>1, <4>5
      <4> QED
        BY <4>4, <4>5
    <3> QED
      BY <3>8, <3>9
  <2> QED
    BY <1>1, <2>1, <2>3, <2>4, <2>5 DEF Next
<1>2. RouteInv /\ RouteInv' /\ [Next]_vars =>
          [\A n \in Name :
               /\ named'[n] \in ToSet(routes') \cup {NoRoute}
               /\ named'[n] = NoRoute => named[n] \notin ToSet(routes')
               /\ named'[n] # named[n] => named'[n] \notin ToSet(routes)]_vars
  BY <1>1
<1> QED
  BY <1>2, RouteInvHolds, PTL DEF Spec, NamesReachRoutes
=============================================================================
