----------------------- MODULE MiddlewareStackProofs -----------------------
(* Proofs about MiddlewareStack: for any middleware, lists and numbers of   *)
(* groups, routes and calls, no append reaches the list of another owner,   *)
(* and a route runs what was asked for it, in the order of the priorities.  *)
EXTENDS MiddlewareStack, SequenceTheorems, FiniteSetTheorems, WellFoundedInduction, TLAPS

USE PlainAssumption, BoundAssumption

\* What the arrays hold.
Cell == Entry \cup {Blank}
Heap == Seq(Seq(Cell))

\* A function on 1..n is a sequence.
LEMMA FunctionIsSeq ==
    ASSUME NEW S, NEW n \in Nat, NEW f \in [1..n -> S]
    PROVE  f \in Seq(S) /\ Len(f) = n
<1>1. f \in Seq(S)
  BY SeqDef
<1>2. DOMAIN f = 1..n /\ DOMAIN f = 1..Len(f) /\ Len(f) \in Nat
  BY <1>1, LenProperties
<1> QED
  BY <1>1, <1>2

----------------------------------------------------------------------------
(* Flattened sequences.  What holds of each of them is proved by induction on *)
(* how much has been flattened, with a set of naturals.                       *)

LEMMA Induction ==
    ASSUME NEW S, 0 \in S, \A n \in Nat : n \in S => n + 1 \in S
    PROVE  Nat \subseteq S
<1> DEFINE T == Nat \ S
           R == OpToRel(<, Nat)
<1> SUFFICES ASSUME T # {} PROVE FALSE
  OBVIOUS
<1>1. IsWellFoundedOn(R, Nat)
  BY NatLessThanWellFounded
<1>2. \A x, y \in Nat : <<y, x>> \in R <=> y < x
  BY DEF OpToRel
<1>3. T \subseteq Nat
  OBVIOUS
<1> HIDE DEF R, T
<1>4. PICK x \in T : \A y \in T : <<y, x>> \notin R
  BY <1>1, <1>3, WFMin
<1>5. x \in Nat /\ x \notin S
  BY <1>3 DEF T
<1>6. x # 0 /\ x - 1 \in Nat /\ (x - 1) + 1 = x /\ x - 1 < x
  BY <1>5
<1>7. x - 1 \in T
  BY <1>5, <1>6 DEF T
<1>8. <<x - 1, x>> \in R
  BY <1>2, <1>5, <1>6
<1> QED
  BY <1>4, <1>7, <1>8

\* f[i] is the first i of the sequences in q, one after the other.
Sums(f, q) == f[0] = <<>> /\ \A i \in 1..Len(q) : f[i] = f[i - 1] \o q[i]

\* One step of the recursion in FlattenSeq, and what solves it up to n.
Longer(q, f, i) == IF i = 1 THEN q[i] ELSE f[i - 1] \o q[i]
Solves(f, q, n) == f = [i \in 1..n |-> Longer(q, f, i)]

LEMMA SomeSolves ==
    ASSUME NEW q, NEW n \in Nat
    PROVE  \E f : Solves(f, q, n)
<1> DEFINE Good == {m \in Nat : \E f : Solves(f, q, m)}
<1>1. 0 \in Good
  <2>1. Solves([i \in 1..0 |-> Longer(q, <<>>, i)], q, 0)
    BY DEF Solves
  <2> QED
    BY <2>1
<1>2. ASSUME NEW m \in Nat, m \in Good PROVE m + 1 \in Good
  <2>1. PICK f : Solves(f, q, m)
    BY <1>2
  <2> DEFINE g == [i \in 1..(m + 1) |-> IF i = m + 1 THEN Longer(q, f, i) ELSE f[i]]
  <2>2. \A i \in 1..(m + 1) : g[i] = Longer(q, g, i)
    <3> SUFFICES ASSUME NEW i \in 1..(m + 1) PROVE g[i] = Longer(q, g, i)
      OBVIOUS
    <3>1. i # 1 => i - 1 \in 1..m /\ g[i - 1] = f[i - 1]
      OBVIOUS
    <3>2. i \in 1..m => f[i] = Longer(q, f, i)
      BY <2>1 DEF Solves
    <3>3. g[i] = Longer(q, f, i)
      BY <3>2
    <3> QED
      BY <3>1, <3>3 DEF Longer
  <2>3. g = [i \in 1..(m + 1) |-> g[i]]
    OBVIOUS
  <2> HIDE DEF g
  <2>4. Solves(g, q, m + 1)
    BY <2>2, <2>3 DEF Solves
  <2> QED
    BY <2>4
<1> HIDE DEF Good
<1>3. n \in Good
  BY <1>1, <1>2, Induction
<1> QED
  BY <1>3 DEF Good

\* FlattenSeq is the last of such sums.
LEMMA FlatSums ==
    ASSUME NEW S, NEW q \in Seq(Seq(S))
    PROVE  \E f : Sums(f, q) /\ FlattenSeq(q) = f[Len(q)]
<1>0. Len(q) \in Nat /\ \A i \in 1..Len(q) : q[i] \in Seq(S)
  BY LenProperties, ElementOfSeq
<1>1. CASE Len(q) = 0
  <2>1. FlattenSeq(q) = <<>>
    BY <1>1, EmptySeq DEF FlattenSeq
  <2>2. Sums([i \in {0} |-> <<>>], q)
    BY <1>1 DEF Sums
  <2> QED
    BY <1>1, <2>1, <2>2
<1>2. CASE Len(q) # 0
  <2>1. \E f : Solves(f, q, Len(q))
    BY <1>0, SomeSolves
  <2> DEFINE f == CHOOSE h : h = [i \in 1..Len(q) |->
                                     IF i = 1 THEN q[i] ELSE h[i - 1] \o q[i]]
  <2>2. f = [i \in 1..Len(q) |-> IF i = 1 THEN q[i] ELSE f[i - 1] \o q[i]]
    BY <2>1 DEF Solves, Longer
  <2>3. FlattenSeq(q) = f[Len(q)]
    BY <1>2 DEF FlattenSeq
  <2> HIDE DEF f
  <2> DEFINE g == [i \in 0..Len(q) |-> IF i = 0 THEN <<>> ELSE f[i]]
  <2>4. g[0] = <<>> /\ \A i \in 1..Len(q) : g[i] = f[i]
    BY <1>0
  <2> HIDE DEF g
  <2>5. ASSUME NEW i \in 1..Len(q) PROVE g[i] = g[i - 1] \o q[i]
    <3>1. g[i] = IF i = 1 THEN q[i] ELSE f[i - 1] \o q[i]
      <4>1. f[i] = IF i = 1 THEN q[i] ELSE f[i - 1] \o q[i]
        BY <2>2
      <4> QED
        BY <2>4, <4>1
    <3>2. CASE i = 1
      <4>1. q[i] = <<>> \o q[i]
        BY <1>0, ConcatEmptySeq
      <4>2. g[i - 1] = <<>>
        BY <2>4, <3>2
      <4> QED
        BY <3>1, <3>2, <4>1, <4>2
    <3>3. CASE i # 1
      <4>1. i - 1 \in 1..Len(q)
        BY <1>0, <3>3
      <4> QED
        BY <2>4, <3>1, <3>3, <4>1
    <3> QED
      BY <3>2, <3>3
  <2>6. g[Len(q)] = f[Len(q)]
    BY <1>0, <1>2, <2>4
  <2> QED
    BY <2>3, <2>4, <2>5, <2>6 DEF Sums
<1> QED
  BY <1>1, <1>2

\* The sums are sequences of what q's sequences consist of.
LEMMA SumsType ==
    ASSUME NEW S, NEW q \in Seq(Seq(S)), NEW f, Sums(f, q), NEW i \in 0..Len(q)
    PROVE  f[i] \in Seq(S)
<1>0. Len(q) \in Nat /\ \A k \in 1..Len(q) : q[k] \in Seq(S)
  BY LenProperties, ElementOfSeq
<1> DEFINE Good == {m \in Nat : m <= Len(q) => f[m] \in Seq(S)}
<1>1. 0 \in Good
  <2>1. <<>> \in Seq(S)
    OBVIOUS
  <2> QED
    BY <2>1 DEF Sums
<1>2. ASSUME NEW m \in Nat, m \in Good PROVE m + 1 \in Good
  <2> SUFFICES ASSUME m + 1 <= Len(q) PROVE f[m + 1] \in Seq(S)
    OBVIOUS
  <2>1. m + 1 \in 1..Len(q) /\ (m + 1) - 1 = m /\ m <= Len(q)
    BY <1>0
  <2>2. f[m] \in Seq(S) /\ q[m + 1] \in Seq(S)
    BY <1>0, <1>2, <2>1
  <2>3. f[m] \o q[m + 1] \in Seq(S)
    BY <2>2, ConcatProperties
  <2>4. f[m + 1] = f[m] \o q[m + 1]
    BY <2>1 DEF Sums
  <2> QED
    BY <2>3, <2>4
<1> HIDE DEF Good
<1>3. i \in Nat
  BY <1>0
<1>4. i \in Good
  BY <1>1, <1>2, <1>3, Induction
<1> QED
  BY <1>0, <1>4 DEF Good

LEMMA FlatType ==
    ASSUME NEW S, NEW q \in Seq(Seq(S))
    PROVE  FlattenSeq(q) \in Seq(S)
<1>1. PICK f : Sums(f, q) /\ FlattenSeq(q) = f[Len(q)]
  BY FlatSums
<1>2. Len(q) \in 0..Len(q)
  BY LenProperties
<1>3. f[Len(q)] \in Seq(S)
  BY <1>1, <1>2, SumsType
<1> QED
  BY <1>1, <1>3

\* What a concatenation contains.
LEMMA ConcatElements ==
    ASSUME NEW S, NEW s \in Seq(S), NEW t \in Seq(S), NEW x
    PROVE  x \in ToSet(s \o t) <=> x \in ToSet(s) \/ x \in ToSet(t)
<1>1. /\ Len(s) \in Nat /\ DOMAIN s = 1..Len(s) /\ Len(t) \in Nat /\ DOMAIN t = 1..Len(t)
      /\ DOMAIN (s \o t) = 1..(Len(s) + Len(t))
      /\ \A i \in 1..(Len(s) + Len(t)) : (s \o t)[i] = IF i <= Len(s) THEN s[i] ELSE t[i - Len(s)]
  BY ConcatProperties, LenProperties
<1>2. ASSUME x \in ToSet(s \o t) PROVE x \in ToSet(s) \/ x \in ToSet(t)
  BY <1>1, <1>2 DEF ToSet
<1>3. ASSUME NEW i \in 1..Len(s), x = s[i] PROVE x \in ToSet(s \o t)
  BY <1>1, <1>3 DEF ToSet
<1>4. ASSUME NEW i \in 1..Len(t), x = t[i] PROVE x \in ToSet(s \o t)
  <2>1. PICK j \in 1..(Len(s) + Len(t)) : j = Len(s) + i
    BY <1>1
  <2>2. (s \o t)[j] = t[i]
    BY <1>1, <2>1
  <2> QED
    BY <1>1, <1>4, <2>2 DEF ToSet
<1> QED
  BY <1>1, <1>2, <1>3, <1>4 DEF ToSet

\* The sums contain what the summed sequences contain.
LEMMA SumsElements ==
    ASSUME NEW S, NEW q \in Seq(Seq(S)), NEW f, Sums(f, q), NEW i \in 0..Len(q), NEW x
    PROVE  x \in ToSet(f[i]) <=> \E k \in 1..i : x \in ToSet(q[k])
<1>0. Len(q) \in Nat /\ \A k \in 1..Len(q) : q[k] \in Seq(S)
  BY LenProperties, ElementOfSeq
<1> DEFINE Holds(m) == x \in ToSet(f[m]) <=> \E k \in 1..m : x \in ToSet(q[k])
           Good == {m \in Nat : m <= Len(q) => Holds(m)}
<1>1. 0 \in Good
  BY DEF Sums, ToSet
<1>2. ASSUME NEW m \in Nat, m \in Good PROVE m + 1 \in Good
  <2> SUFFICES ASSUME m + 1 <= Len(q) PROVE Holds(m + 1)
    OBVIOUS
  <2>1. m + 1 \in 1..Len(q) /\ (m + 1) - 1 = m /\ m \in 0..Len(q)
    BY <1>0
  <2>2. f[m] \in Seq(S) /\ q[m + 1] \in Seq(S)
    BY <1>0, <2>1, SumsType
  <2>3. f[m + 1] = f[m] \o q[m + 1]
    BY <2>1 DEF Sums
  <2>4. x \in ToSet(f[m] \o q[m + 1]) <=> x \in ToSet(f[m]) \/ x \in ToSet(q[m + 1])
    BY <2>2, ConcatElements
  <2>5. Holds(m)
    BY <1>2, <2>1
  <2>6. \A k \in 1..(m + 1) : k \in 1..m \/ k = m + 1
    OBVIOUS
  <2>7. \A k \in 1..m : k \in 1..(m + 1)
    OBVIOUS
  <2>8. m + 1 \in 1..(m + 1)
    OBVIOUS
  <2> QED
    BY <2>3, <2>4, <2>5, <2>6, <2>7, <2>8
<1> HIDE DEF Good
<1>3. i \in Nat
  BY <1>0
<1>4. i \in Good
  BY <1>1, <1>2, <1>3, Induction
<1> QED
  BY <1>0, <1>4 DEF Good

LEMMA FlatElements ==
    ASSUME NEW S, NEW q \in Seq(Seq(S)), NEW x
    PROVE  x \in ToSet(FlattenSeq(q)) <=> \E k \in 1..Len(q) : x \in ToSet(q[k])
<1>1. PICK f : Sums(f, q) /\ FlattenSeq(q) = f[Len(q)]
  BY FlatSums
<1>2. PICK n : n = Len(q) /\ n \in 0..Len(q)
  BY LenProperties
<1>3. x \in ToSet(f[n]) <=> \E k \in 1..n : x \in ToSet(q[k])
  <2>1. Sums(f, q) /\ n \in 0..Len(q)
    BY <1>1, <1>2
  <2> QED
    BY <2>1, SumsElements
<1> QED
  BY <1>1, <1>2, <1>3

\* The middleware that the rules give an action are specs.
LEMMA RuleLists == \A action \in Action : MiddlewareForAction(action) \in Seq(Entry)
<1> SUFFICES ASSUME NEW action \in Action PROVE MiddlewareForAction(action) \in Seq(Entry)
  OBVIOUS
<1> DEFINE q == [k \in DOMAIN Rules |->
                    IF AppliesTo(Rules[k], action) THEN <<Rules[k].entry>> ELSE <<>>]
<1>1. /\ Len(Rules) \in Nat /\ DOMAIN Rules = 1..Len(Rules)
      /\ \A k \in 1..Len(Rules) : Rules[k].entry \in Entry
  <2>1. Rules \in Seq(RuleType)
    BY RulesAssumption
  <2>2. Len(Rules) \in Nat /\ DOMAIN Rules = 1..Len(Rules)
    BY <2>1, LenProperties
  <2>3. \A k \in 1..Len(Rules) : Rules[k] \in RuleType
    BY <2>1, ElementOfSeq
  <2>4. \A rule \in RuleType : rule.entry \in Entry
    BY DEF RuleType
  <2> QED
    BY <2>2, <2>3, <2>4
<1>2. ASSUME NEW k \in 1..Len(Rules)
      PROVE  (IF AppliesTo(Rules[k], action) THEN <<Rules[k].entry>> ELSE <<>>) \in Seq(Entry)
  <2>1. PICK e \in Entry : e = Rules[k].entry
    BY <1>1
  <2>2. <<e>> \in Seq(Entry) /\ <<>> \in Seq(Entry)
    OBVIOUS
  <2> QED
    BY <2>1, <2>2
<1>3. q \in [1..Len(Rules) -> Seq(Entry)]
  BY <1>1, <1>2
<1> HIDE DEF q
<1>4. q \in Seq(Seq(Entry))
  BY <1>1, <1>3, FunctionIsSeq
<1>5. FlattenSeq(q) \in Seq(Entry)
  BY <1>4, FlatType
<1> QED
  BY <1>5 DEF q, MiddlewareForAction

----------------------------------------------------------------------------
(* Slices *)

\* A slice lies in an array of the heap.
Views(heap, s) == s \in Slice /\ s.at \in 1..Len(heap) /\ s.len =< Len(heap[s.at])

\* What a slice of an array holds.
LEMMA PrefixOfSeq ==
    ASSUME NEW S, NEW q \in Seq(S), NEW n \in 0..Len(q)
    PROVE  /\ SubSeq(q, 1, n) \in Seq(S)
           /\ Len(SubSeq(q, 1, n)) = n
           /\ \A i \in 1..n : SubSeq(q, 1, n)[i] = q[i]
<1>1. n \in Int /\ \A i \in 1..n : q[i] \in S
  BY ElementOfSeq, LenProperties
<1>2. /\ SubSeq(q, 1, n) \in Seq(S)
      /\ Len(SubSeq(q, 1, n)) = IF 1 <= n THEN n - 1 + 1 ELSE 0
      /\ \A i \in 1..(n - 1 + 1) : SubSeq(q, 1, n)[i] = q[1 + i - 1]
  BY <1>1, SubSeqProperties
<1>3. n \in Nat
  BY LenProperties
<1> QED
  BY <1>2, <1>3

\* make and copy: one more array, viewed by the new slice alone.
LEMMA FreshFacts ==
    ASSUME NEW heap \in Heap, NEW xs \in Seq(Cell)
    PROVE  /\ Fresh(heap, xs).heap \in Heap
           /\ Len(Fresh(heap, xs).heap) = Len(heap) + 1
           /\ \A k \in 1..Len(heap) : Fresh(heap, xs).heap[k] = heap[k]
           /\ Fresh(heap, xs).heap[Len(heap) + 1] = xs
           /\ Fresh(heap, xs).slice.at = Len(heap) + 1
           /\ Fresh(heap, xs).slice.len = Len(xs)
           /\ Views(Fresh(heap, xs).heap, Fresh(heap, xs).slice)
           /\ SubSeq(xs, 1, Len(xs)) = xs
<1>1. Len(heap) \in Nat /\ Len(xs) \in Nat
  BY LenProperties DEF Heap
<1>2. /\ Append(heap, xs) \in Heap
      /\ Len(Append(heap, xs)) = Len(heap) + 1
      /\ \A k \in 1..Len(heap) : Append(heap, xs)[k] = heap[k]
      /\ Append(heap, xs)[Len(heap) + 1] = xs
  BY <1>1 DEF Heap
<1>3. Fresh(heap, xs).heap = Append(heap, xs)
      /\ Fresh(heap, xs).slice = [at |-> Len(heap) + 1, len |-> Len(xs)]
  BY DEF Fresh
<1>4. SubSeq(xs, 1, Len(xs)) = xs
  BY SubSeqFull
<1> QED
  BY <1>1, <1>2, <1>3, <1>4 DEF Views, Slice

\* The slice is extended, in its own array or in a new one; other arrays, and the
\* lengths of all, stay as they are.
Extends(heap, s, xs, new, t) ==
    /\ new \in Heap
    /\ Len(heap) =< Len(new)
    /\ \A k \in 1..Len(heap) : /\ Len(new[k]) = Len(heap[k])
                               /\ k # t.at => new[k] = heap[k]
    /\ (t.at = s.at \/ t.at = Len(heap) + 1)
    /\ Views(new, t)
    /\ SubSeq(new[t.at], 1, t.len) = SubSeq(heap[s.at], 1, s.len) \o xs

\* An array that has grown is another one.
LEMMA GrownExtends ==
    ASSUME NEW heap \in Heap, NEW s, NEW xs, NEW f \in Seq(Cell), NEW n \in 0..Len(f),
           SubSeq(f, 1, n) = SubSeq(heap[s.at], 1, s.len) \o xs
    PROVE  Extends(heap, s, xs, Append(heap, f), [at |-> Len(heap) + 1, len |-> n])
<1>1. Len(heap) \in Nat /\ Len(f) \in Nat
  BY LenProperties DEF Heap
<1>2. PICK new, t : new = Append(heap, f) /\ t = [at |-> Len(heap) + 1, len |-> n]
  OBVIOUS
<1>3. /\ new \in Heap /\ Len(new) = Len(heap) + 1
      /\ \A k \in 1..Len(heap) : new[k] = heap[k]
      /\ new[Len(heap) + 1] = f
  BY <1>1, <1>2 DEF Heap
<1>4. t.at = Len(heap) + 1 /\ t.len = n /\ t \in Slice
  BY <1>1, <1>2 DEF Slice
<1>5. Views(new, t)
  BY <1>1, <1>3, <1>4 DEF Views
<1>6. new[t.at] = f
  BY <1>3, <1>4
<1>7. SubSeq(new[t.at], 1, t.len) = SubSeq(heap[s.at], 1, s.len) \o xs
  BY <1>4, <1>6
<1>8. Len(heap) =< Len(new)
  BY <1>1, <1>3
<1>9. \A k \in 1..Len(heap) : /\ Len(new[k]) = Len(heap[k])
                             /\ k # t.at => new[k] = heap[k]
  BY <1>3
<1>10. Extends(heap, s, xs, new, t)
  BY <1>3, <1>4, <1>5, <1>7, <1>8, <1>9 DEF Extends
<1> QED
  BY <1>2, <1>10

\* That is what append does.
LEMMA ExtendedFacts ==
    ASSUME NEW heap \in Heap, NEW s, Views(heap, s), NEW xs \in Seq(Cell)
    PROVE  Extends(heap, s, xs, Extended(heap, s, xs).heap, Extended(heap, s, xs).slice)
<1> DEFINE e == Extended(heap, s, xs)
           old == heap[s.at]
           needed == s.len + Len(xs)
           room == Len(heap[s.at])
           cap == Capacity(room, needed)
           filled(k) == IF k =< s.len THEN old[k]
                        ELSE IF k =< needed THEN xs[k - s.len]
                        ELSE IF k =< room THEN old[k] ELSE Blank
           both == SubSeq(old, 1, s.len) \o xs
<1>1. /\ s \in Slice /\ s.at \in 1..Len(heap) /\ s.len \in Nat /\ s.len =< room
      /\ Len(heap) \in Nat /\ old \in Seq(Cell) /\ room \in Nat /\ Len(xs) \in Nat
      /\ needed \in Nat
  BY LenProperties, ElementOfSeq DEF Views, Slice, Heap
<1>2. /\ SubSeq(old, 1, s.len) \in Seq(Cell) /\ Len(SubSeq(old, 1, s.len)) = s.len
      /\ \A i \in 1..s.len : SubSeq(old, 1, s.len)[i] = old[i]
  BY <1>1, PrefixOfSeq
<1>3. /\ both \in Seq(Cell) /\ Len(both) = needed
      /\ \A i \in 1..needed : both[i] = IF i =< s.len THEN old[i] ELSE xs[i - s.len]
  BY <1>1, <1>2, ConcatProperties
<1>4. \A k \in 1..room : old[k] \in Cell
  BY <1>1, ElementOfSeq
<1>5. \A k \in 1..Len(xs) : xs[k] \in Cell
  BY ElementOfSeq
<1>6. ASSUME NEW n \in Nat PROVE [k \in 1..n |-> filled(k)] \in [1..n -> Cell]
  BY <1>1, <1>4, <1>5 DEF Cell
<1>7. ASSUME NEW n \in Nat, needed =< n
      PROVE  SubSeq([k \in 1..n |-> filled(k)], 1, needed) = both
  <2> DEFINE f == [k \in 1..n |-> filled(k)]
  <2>1. f \in Seq(Cell) /\ Len(f) = n
    BY <1>6, FunctionIsSeq
  <2>2. \A i \in 1..needed : f[i] = both[i]
    BY <1>1, <1>3, <1>7
  <2> HIDE DEF f, needed, both
  <2>3. /\ SubSeq(f, 1, needed) \in Seq(Cell) /\ Len(SubSeq(f, 1, needed)) = needed
        /\ \A i \in 1..needed : SubSeq(f, 1, needed)[i] = f[i]
    BY <1>1, <1>7, <2>1, PrefixOfSeq
  <2> QED
    BY <1>3, <2>2, <2>3, SeqEqual DEF f
<1>8. CASE needed =< room
  <2> DEFINE f == [k \in 1..room |-> filled(k)]
             h == [heap EXCEPT ![s.at] = f]
  <2>1. e.heap = h /\ e.slice = [s EXCEPT !.len = needed]
    BY <1>8 DEF Extended
  <2>2. f \in Seq(Cell) /\ Len(f) = room
    BY <1>1, <1>6, FunctionIsSeq
  <2>3. SubSeq(f, 1, needed) = both
    BY <1>1, <1>7, <1>8
  <2>4. e.slice.at = s.at /\ e.slice.len = needed /\ e.slice \in Slice
    BY <1>1, <2>1 DEF Slice
  <2> HIDE DEF f, needed, both
  <2>5. /\ h \in Heap /\ Len(h) = Len(heap)
        /\ \A k \in 1..Len(heap) : h[k] = IF k = s.at THEN f ELSE heap[k]
    BY <1>1, <2>2, ExceptSeq DEF Heap
  <2> HIDE DEF h, e
  <2>6. e.heap \in Heap /\ Len(e.heap) = Len(heap) /\ e.heap[e.slice.at] = f
    BY <1>1, <2>1, <2>4, <2>5
  <2>7. \A k \in 1..Len(heap) : /\ Len(e.heap[k]) = Len(heap[k])
                                /\ k # e.slice.at => e.heap[k] = heap[k]
    BY <1>1, <2>1, <2>2, <2>4, <2>5
  <2>8. Views(e.heap, e.slice)
    BY <1>1, <1>8, <2>2, <2>4, <2>6 DEF Views
  <2>9. SubSeq(e.heap[e.slice.at], 1, e.slice.len) = both
    BY <2>3, <2>4, <2>6
  <2>10. Extends(heap, s, xs, e.heap, e.slice)
    <3>1. SubSeq(e.heap[e.slice.at], 1, e.slice.len) = SubSeq(heap[s.at], 1, s.len) \o xs
      BY <2>9 DEF both
    <3>2. e.heap \in Heap /\ Len(heap) =< Len(e.heap)
      BY <1>1, <2>6
    <3>3. e.slice.at = s.at
      BY <2>4
    <3> QED
      BY <2>7, <2>8, <3>1, <3>2, <3>3 DEF Extends
  <2> QED
    BY <2>10 DEF e
<1>9. CASE ~(needed =< room)
  <2> DEFINE f == [k \in 1..cap |-> filled(k)]
  <2>1. e.heap = Append(heap, f) /\ e.slice = [at |-> Len(heap) + 1, len |-> needed]
    BY <1>9 DEF Extended
  <2>2. cap \in Nat /\ needed =< cap
    BY <1>1, <1>9 DEF Capacity
  <2> HIDE DEF cap
  <2>3. f \in Seq(Cell) /\ Len(f) = cap
    BY <1>6, <2>2, FunctionIsSeq
  <2>4. SubSeq(f, 1, needed) = both
    BY <1>7, <2>2
  <2> HIDE DEF f, needed, both
  <2>5. SubSeq(f, 1, needed) = SubSeq(old, 1, s.len) \o xs
    BY <2>4 DEF both
  <2>6. needed \in 0..Len(f)
    BY <1>1, <2>2, <2>3
  <2> HIDE DEF e
  <2>7. Extends(heap, s, xs, Append(heap, f), [at |-> Len(heap) + 1, len |-> needed])
    BY <2>3, <2>5, <2>6, GrownExtends
  <2>8. Extends(heap, s, xs, e.heap, e.slice)
    BY <2>1, <2>7
  <2> QED
    BY <2>8 DEF e
<1> QED
  BY <1>8, <1>9

----------------------------------------------------------------------------
(* The lists *)

\* Those that own a list: groups, routes and names.
owners == ({"group"} \X DOMAIN groups) \cup ({"route"} \X DOMAIN routes) \cup ({"named"} \X Name)

\* Their slices, and what their calls gave them.
view == [o \in owners |-> IF o[1] = "group" THEN groups[o[2]]
                          ELSE IF o[1] = "route" THEN routes[o[2]] ELSE members[o[2]]]
asks == [o \in owners |-> IF o[1] = "group" THEN asked.groups[o[2]]
                          ELSE IF o[1] = "route" THEN asked.routes[o[2]]
                          ELSE asked.members[o[2]]]

ListTypes ==
    /\ arrays \in Heap
    /\ groups \in Seq(Slice)
    /\ routes \in Seq(Slice)
    /\ members \in [Name -> Slice]
    /\ asked \in [groups : Seq(Seq(Entry)), routes : Seq(Seq(Entry)),
                  members : [Name -> Seq(Entry)]]
    /\ Len(asked.groups) = Len(groups)
    /\ Len(asked.routes) = Len(routes)

\* Each slice shows what was asked for, and an array has one owner unless it has
\* no room for anything.
ListsApart ==
    /\ \A o \in owners : /\ Views(arrays, view[o])
                         /\ SubSeq(arrays[view[o].at], 1, view[o].len) = asks[o]
    /\ \A o, p \in owners : o # p /\ view[o].at = view[p].at => Len(arrays[view[o].at]) = 0

StackInv == ListTypes /\ ListsApart

\* A step that gives one owner the slice t, for the list ys.
Relists(o, t, ys) ==
    /\ o \in owners' /\ view'[o] = t /\ asks'[o] = ys
    /\ \A p \in owners' \ {o} : p \in owners /\ view'[p] = view[p] /\ asks'[p] = asks[p]

\* It may be a slice of a new array, or of the one that this owner has already.
LEMMA RelistedApart ==
    ASSUME ListTypes, ListsApart, NEW o, NEW t, NEW ys, Relists(o, t, ys),
           Len(arrays) =< Len(arrays'), arrays' \in Heap,
           \A k \in 1..Len(arrays) : /\ Len(arrays'[k]) = Len(arrays[k])
                                     /\ k # t.at => arrays'[k] = arrays[k],
           Views(arrays', t),
           SubSeq(arrays'[t.at], 1, t.len) = ys,
           (t.at > Len(arrays) \/ (o \in owners /\ t.at = view[o].at))
    PROVE  ListsApart'
<1>1. Len(arrays) \in Nat /\ Len(arrays') \in Nat
  BY LenProperties DEF ListTypes, Heap
<1>2. ASSUME NEW p \in owners' \ {o}, view[p].at = t.at
      PROVE  /\ Len(arrays[t.at]) = 0 /\ Len(arrays'[t.at]) = 0
             /\ t.at \in 1..Len(arrays) /\ view[p].len = 0
  <2>1. p \in owners /\ Views(arrays, view[p])
    BY DEF Relists, ListsApart
  <2>2. t.at \in 1..Len(arrays) /\ view[p].len =< Len(arrays[t.at]) /\ view[p].len \in Nat
    BY <1>2, <2>1 DEF Views, Slice
  <2>3. o \in owners /\ t.at = view[o].at
    BY <1>1, <2>2
  <2>4. Len(arrays[t.at]) = 0
    BY <1>2, <2>1, <2>3 DEF ListsApart
  <2> QED
    BY <2>2, <2>4
<1>3. ASSUME NEW p \in owners' \ {o}
      PROVE  /\ view'[p] = view[p] /\ Views(arrays', view[p])
             /\ Len(arrays'[view[p].at]) = Len(arrays[view[p].at])
             /\ SubSeq(arrays'[view[p].at], 1, view[p].len) = asks'[p]
  <2>1. /\ p \in owners /\ view'[p] = view[p] /\ asks'[p] = asks[p]
        /\ Views(arrays, view[p])
        /\ SubSeq(arrays[view[p].at], 1, view[p].len) = asks[p]
    BY DEF Relists, ListsApart
  <2>2. /\ view[p].at \in 1..Len(arrays) /\ view[p] \in Slice
        /\ view[p].len =< Len(arrays[view[p].at])
    BY <2>1 DEF Views
  <2>3. Len(arrays'[view[p].at]) = Len(arrays[view[p].at])
    BY <2>2
  <2>4. Views(arrays', view[p])
    BY <1>1, <2>2, <2>3 DEF Views
  <2>5. CASE view[p].at # t.at
    BY <2>1, <2>2, <2>3, <2>4, <2>5
  <2>6. CASE view[p].at = t.at
    <3>1. view[p].len = 0
      BY <1>2, <2>6
    <3>2. /\ SubSeq(arrays'[view[p].at], 1, 0) = <<>>
          /\ SubSeq(arrays[view[p].at], 1, 0) = <<>>
      BY SubSeqEmpty
    <3> QED
      BY <2>1, <2>3, <2>4, <3>1, <3>2
  <2> QED
    BY <2>5, <2>6
<1>4. view'[o] = t /\ asks'[o] = ys
  BY DEF Relists
<1>5. ASSUME NEW p \in owners'
      PROVE  /\ Views(arrays', view'[p])
             /\ SubSeq(arrays'[view'[p].at], 1, view'[p].len) = asks'[p]
  BY <1>3, <1>4
<1>6. ASSUME NEW p \in owners', NEW q \in owners', p # q, view'[p].at = view'[q].at
      PROVE  Len(arrays'[view'[p].at]) = 0
  <2>1. CASE p # o /\ q # o
    <3>1. p \in owners /\ q \in owners /\ view'[p] = view[p] /\ view'[q] = view[q]
      BY <2>1 DEF Relists
    <3>2. Len(arrays[view[p].at]) = 0
      BY <1>6, <3>1 DEF ListsApart
    <3> QED
      BY <1>3, <2>1, <3>1, <3>2
  <2>2. CASE p = o
    <3>1. view'[q] = view[q] /\ view[q].at = t.at
      BY <1>3, <1>4, <1>6, <2>2
    <3> QED
      BY <1>2, <1>4, <1>6, <2>2, <3>1
  <2>3. CASE q = o
    <3>1. view'[p] = view[p] /\ view[p].at = t.at
      BY <1>3, <1>4, <1>6, <2>3
    <3> QED
      BY <1>2, <1>6, <2>3, <3>1
  <2> QED
    BY <2>1, <2>2, <2>3
<1> QED
  BY <1>5, <1>6 DEF ListsApart

----------------------------------------------------------------------------
(* The calls *)

\* What owners are, one kind at a time.
OwnerFacts ==
    /\ \A g : <<"group", g>> \in owners <=> g \in 1..Len(groups)
    /\ \A r : <<"route", r>> \in owners <=> r \in 1..Len(routes)
    /\ \A n : <<"named", n>> \in owners <=> n \in Name
    /\ \A o \in owners : \/ o[1] = "group" /\ o = <<"group", o[2]>>
                         \/ o[1] = "route" /\ o = <<"route", o[2]>>
                         \/ o[1] = "named" /\ o = <<"named", o[2]>>
    /\ \A g \in 1..Len(groups) : /\ view[<<"group", g>>] = groups[g]
                                 /\ asks[<<"group", g>>] = asked.groups[g]
    /\ \A r \in 1..Len(routes) : /\ view[<<"route", r>>] = routes[r]
                                 /\ asks[<<"route", r>>] = asked.routes[r]
    /\ \A n \in Name : /\ view[<<"named", n>>] = members[n]
                       /\ asks[<<"named", n>>] = asked.members[n]

LEMMA OwnersAre == ListTypes => OwnerFacts
<1> SUFFICES ASSUME ListTypes PROVE OwnerFacts
  OBVIOUS
<1>1. DOMAIN groups = 1..Len(groups) /\ DOMAIN routes = 1..Len(routes)
  BY LenProperties DEF ListTypes
<1>2. /\ \A g : <<"group", g>> \in owners <=> g \in 1..Len(groups)
      /\ \A r : <<"route", r>> \in owners <=> r \in 1..Len(routes)
      /\ \A n : <<"named", n>> \in owners <=> n \in Name
  BY <1>1 DEF owners
<1>3. \A o \in owners : \/ o[1] = "group" /\ o = <<"group", o[2]>>
                        \/ o[1] = "route" /\ o = <<"route", o[2]>>
                        \/ o[1] = "named" /\ o = <<"named", o[2]>>
  BY DEF owners
<1>4. /\ \A g \in 1..Len(groups) : /\ view[<<"group", g>>] = groups[g]
                                   /\ asks[<<"group", g>>] = asked.groups[g]
      /\ \A r \in 1..Len(routes) : /\ view[<<"route", r>>] = routes[r]
                                   /\ asks[<<"route", r>>] = asked.routes[r]
      /\ \A n \in Name : /\ view[<<"named", n>>] = members[n]
                         /\ asks[<<"named", n>>] = asked.members[n]
  BY <1>2 DEF view, asks
<1> QED
  BY <1>2, <1>3, <1>4 DEF OwnerFacts

\* So they are after a step.
LEMMA OwnersWillBe == ListTypes' => OwnerFacts'
BY OwnersAre, PTL

\* A group is added.
LEMMA GroupAdded ==
    ASSUME ListTypes, NEW t \in Slice, NEW ys \in Seq(Entry), arrays' \in Heap,
           groups' = Append(groups, t), routes' = routes, members' = members,
           asked' = [asked EXCEPT !.groups = Append(asked.groups, ys)]
    PROVE  ListTypes' /\ Relists(<<"group", Len(groups) + 1>>, t, ys)
<1> DEFINE o == <<"group", Len(groups) + 1>>
<1>1. /\ Len(groups) \in Nat /\ Len(asked.groups) = Len(groups)
      /\ groups \in Seq(Slice) /\ asked.groups \in Seq(Seq(Entry))
  BY LenProperties DEF ListTypes
<1>2. /\ groups' \in Seq(Slice) /\ Len(groups') = Len(groups) + 1
      /\ groups'[Len(groups) + 1] = t
      /\ \A g \in 1..Len(groups) : groups'[g] = groups[g]
  BY <1>1
<1>3. /\ asked'.routes = asked.routes /\ asked'.members = asked.members
      /\ asked'.groups = Append(asked.groups, ys)
  BY DEF ListTypes
<1>4. /\ asked'.groups \in Seq(Seq(Entry)) /\ Len(asked'.groups) = Len(groups) + 1
      /\ asked'.groups[Len(groups) + 1] = ys
      /\ \A g \in 1..Len(groups) : asked'.groups[g] = asked.groups[g]
  BY <1>1, <1>3
<1>5. asked' \in [groups : Seq(Seq(Entry)), routes : Seq(Seq(Entry)),
                  members : [Name -> Seq(Entry)]]
  BY <1>1, <1>4 DEF ListTypes
<1>6. ListTypes'
  BY <1>2, <1>3, <1>4, <1>5 DEF ListTypes
<1>7. OwnerFacts /\ OwnerFacts'
  BY <1>6, OwnersAre, OwnersWillBe
<1>8. o \in owners' /\ view'[o] = t /\ asks'[o] = ys
  BY <1>1, <1>2, <1>4, <1>6, <1>7 DEF OwnerFacts
<1>9. ASSUME NEW p \in owners' \ {o}
      PROVE  p \in owners /\ view'[p] = view[p] /\ asks'[p] = asks[p]
  <2>1. \/ p[1] = "group" /\ p = <<"group", p[2]>>
        \/ p[1] = "route" /\ p = <<"route", p[2]>>
        \/ p[1] = "named" /\ p = <<"named", p[2]>>
    BY <1>6, <1>7 DEF OwnerFacts
  <2>2. CASE p = <<"group", p[2]>>
    <3>1. p[2] \in 1..(Len(groups) + 1) /\ p[2] # Len(groups) + 1
      BY <1>2, <1>6, <2>2, <1>7 DEF OwnerFacts
    <3>2. p[2] \in 1..Len(groups)
      BY <1>1, <3>1
    <3> QED
      BY <1>2, <1>4, <1>6, <2>2, <3>1, <3>2, <1>7 DEF OwnerFacts
  <2>3. CASE p = <<"route", p[2]>>
    BY <1>3, <1>6, <2>3, <1>7 DEF OwnerFacts
  <2>4. CASE p = <<"named", p[2]>>
    BY <1>3, <1>6, <2>4, <1>7 DEF OwnerFacts
  <2> QED
    BY <2>1, <2>2, <2>3, <2>4
<1> QED
  BY <1>6, <1>8, <1>9 DEF Relists

\* A route is added.
LEMMA RouteAdded ==
    ASSUME ListTypes, NEW t \in Slice, NEW ys \in Seq(Entry), arrays' \in Heap,
           routes' = Append(routes, t), groups' = groups, members' = members,
           asked' = [asked EXCEPT !.routes = Append(asked.routes, ys)]
    PROVE  ListTypes' /\ Relists(<<"route", Len(routes) + 1>>, t, ys)
<1> DEFINE o == <<"route", Len(routes) + 1>>
<1>1. /\ Len(routes) \in Nat /\ Len(asked.routes) = Len(routes)
      /\ routes \in Seq(Slice) /\ asked.routes \in Seq(Seq(Entry))
  BY LenProperties DEF ListTypes
<1>2. /\ routes' \in Seq(Slice) /\ Len(routes') = Len(routes) + 1
      /\ routes'[Len(routes) + 1] = t
      /\ \A r \in 1..Len(routes) : routes'[r] = routes[r]
  BY <1>1
<1>3. /\ asked'.groups = asked.groups /\ asked'.members = asked.members
      /\ asked'.routes = Append(asked.routes, ys)
  BY DEF ListTypes
<1>4. /\ asked'.routes \in Seq(Seq(Entry)) /\ Len(asked'.routes) = Len(routes) + 1
      /\ asked'.routes[Len(routes) + 1] = ys
      /\ \A r \in 1..Len(routes) : asked'.routes[r] = asked.routes[r]
  BY <1>1, <1>3
<1>5. asked' \in [groups : Seq(Seq(Entry)), routes : Seq(Seq(Entry)),
                  members : [Name -> Seq(Entry)]]
  BY <1>1, <1>4 DEF ListTypes
<1>6. ListTypes'
  BY <1>2, <1>3, <1>4, <1>5 DEF ListTypes
<1>7. OwnerFacts /\ OwnerFacts'
  BY <1>6, OwnersAre, OwnersWillBe
<1>8. o \in owners' /\ view'[o] = t /\ asks'[o] = ys
  BY <1>1, <1>2, <1>4, <1>6, <1>7 DEF OwnerFacts
<1>9. ASSUME NEW p \in owners' \ {o}
      PROVE  p \in owners /\ view'[p] = view[p] /\ asks'[p] = asks[p]
  <2>1. \/ p[1] = "group" /\ p = <<"group", p[2]>>
        \/ p[1] = "route" /\ p = <<"route", p[2]>>
        \/ p[1] = "named" /\ p = <<"named", p[2]>>
    BY <1>6, <1>7 DEF OwnerFacts
  <2>2. CASE p = <<"route", p[2]>>
    <3>1. p[2] \in 1..(Len(routes) + 1) /\ p[2] # Len(routes) + 1
      BY <1>2, <1>6, <2>2, <1>7 DEF OwnerFacts
    <3>2. p[2] \in 1..Len(routes)
      BY <1>1, <3>1
    <3> QED
      BY <1>2, <1>4, <1>6, <2>2, <3>1, <3>2, <1>7 DEF OwnerFacts
  <2>3. CASE p = <<"group", p[2]>>
    BY <1>3, <1>6, <2>3, <1>7 DEF OwnerFacts
  <2>4. CASE p = <<"named", p[2]>>
    BY <1>3, <1>6, <2>4, <1>7 DEF OwnerFacts
  <2> QED
    BY <2>1, <2>2, <2>3, <2>4
<1> QED
  BY <1>6, <1>8, <1>9 DEF Relists

\* The list of a route is replaced.
LEMMA RouteSet ==
    ASSUME ListTypes, NEW r \in 1..Len(routes), NEW t \in Slice, NEW ys \in Seq(Entry),
           arrays' \in Heap, routes' = [routes EXCEPT ![r] = t], groups' = groups,
           members' = members, asked' = [asked EXCEPT !.routes[r] = ys]
    PROVE  ListTypes' /\ Relists(<<"route", r>>, t, ys)
<1> DEFINE o == <<"route", r>>
<1>1. /\ Len(asked.routes) = Len(routes) /\ routes \in Seq(Slice)
      /\ asked.routes \in Seq(Seq(Entry))
  BY DEF ListTypes
<1>2. /\ routes' \in Seq(Slice) /\ Len(routes') = Len(routes)
      /\ \A q \in 1..Len(routes) : routes'[q] = IF q = r THEN t ELSE routes[q]
  BY <1>1, ExceptSeq
<1>3. /\ asked'.groups = asked.groups /\ asked'.members = asked.members
      /\ asked'.routes = [asked.routes EXCEPT ![r] = ys]
  BY DEF ListTypes
<1>4. /\ asked'.routes \in Seq(Seq(Entry)) /\ Len(asked'.routes) = Len(routes)
      /\ \A q \in 1..Len(routes) : asked'.routes[q] = IF q = r THEN ys ELSE asked.routes[q]
  BY <1>1, <1>3, ExceptSeq
<1>5. asked' \in [groups : Seq(Seq(Entry)), routes : Seq(Seq(Entry)),
                  members : [Name -> Seq(Entry)]]
  BY <1>1, <1>4 DEF ListTypes
<1>6. ListTypes'
  BY <1>2, <1>3, <1>4, <1>5 DEF ListTypes
<1>7. OwnerFacts /\ OwnerFacts'
  BY <1>6, OwnersAre, OwnersWillBe
<1>8. o \in owners' /\ view'[o] = t /\ asks'[o] = ys
  BY <1>1, <1>2, <1>4, <1>6, <1>7 DEF OwnerFacts
<1>9. ASSUME NEW p \in owners' \ {o}
      PROVE  p \in owners /\ view'[p] = view[p] /\ asks'[p] = asks[p]
  <2>1. \/ p[1] = "group" /\ p = <<"group", p[2]>>
        \/ p[1] = "route" /\ p = <<"route", p[2]>>
        \/ p[1] = "named" /\ p = <<"named", p[2]>>
    BY <1>6, <1>7 DEF OwnerFacts
  <2>2. CASE p = <<"route", p[2]>>
    <3>1. p[2] \in 1..Len(routes) /\ p[2] # r
      BY <1>2, <1>7, <2>2 DEF OwnerFacts
    <3>2. routes'[p[2]] = routes[p[2]] /\ asked'.routes[p[2]] = asked.routes[p[2]]
      BY <1>2, <1>4, <3>1
    <3> QED
      BY <1>2, <1>7, <2>2, <3>1, <3>2 DEF OwnerFacts
  <2>3. CASE p = <<"group", p[2]>>
    BY <1>3, <1>6, <2>3, <1>7 DEF OwnerFacts
  <2>4. CASE p = <<"named", p[2]>>
    BY <1>3, <1>6, <2>4, <1>7 DEF OwnerFacts
  <2> QED
    BY <2>1, <2>2, <2>3, <2>4
<1> QED
  BY <1>6, <1>8, <1>9 DEF Relists

\* The list of a named group is replaced.
LEMMA MembersSet ==
    ASSUME ListTypes, NEW n \in Name, NEW t \in Slice, NEW ys \in Seq(Entry),
           arrays' \in Heap, members' = [members EXCEPT ![n] = t], groups' = groups,
           routes' = routes, asked' = [asked EXCEPT !.members[n] = ys]
    PROVE  ListTypes' /\ Relists(<<"named", n>>, t, ys)
<1> DEFINE o == <<"named", n>>
<1>1. members \in [Name -> Slice] /\ asked.members \in [Name -> Seq(Entry)]
  BY DEF ListTypes
<1>2. /\ members' \in [Name -> Slice]
      /\ \A m \in Name : members'[m] = IF m = n THEN t ELSE members[m]
  BY <1>1
<1>3. /\ asked'.groups = asked.groups /\ asked'.routes = asked.routes
      /\ asked'.members = [asked.members EXCEPT ![n] = ys]
  BY DEF ListTypes
<1>4. /\ asked'.members \in [Name -> Seq(Entry)]
      /\ \A m \in Name : asked'.members[m] = IF m = n THEN ys ELSE asked.members[m]
  BY <1>1, <1>3
<1>5. asked' \in [groups : Seq(Seq(Entry)), routes : Seq(Seq(Entry)),
                  members : [Name -> Seq(Entry)]]
  BY <1>1, <1>4 DEF ListTypes
<1>6. ListTypes'
  BY <1>2, <1>3, <1>4, <1>5 DEF ListTypes
<1>7. OwnerFacts /\ OwnerFacts'
  BY <1>6, OwnersAre, OwnersWillBe
<1>8. o \in owners' /\ view'[o] = t /\ asks'[o] = ys
  BY <1>1, <1>2, <1>4, <1>6, <1>7 DEF OwnerFacts
<1>9. ASSUME NEW p \in owners' \ {o}
      PROVE  p \in owners /\ view'[p] = view[p] /\ asks'[p] = asks[p]
  <2>1. \/ p[1] = "group" /\ p = <<"group", p[2]>>
        \/ p[1] = "route" /\ p = <<"route", p[2]>>
        \/ p[1] = "named" /\ p = <<"named", p[2]>>
    BY <1>6, <1>7 DEF OwnerFacts
  <2>2. CASE p = <<"route", p[2]>>
    BY <1>3, <1>6, <2>2, <1>7 DEF OwnerFacts
  <2>3. CASE p = <<"group", p[2]>>
    BY <1>3, <1>6, <2>3, <1>7 DEF OwnerFacts
  <2>4. CASE p = <<"named", p[2]>>
    BY <1>2, <1>4, <1>6, <2>4, <1>7 DEF OwnerFacts
  <2> QED
    BY <2>1, <2>2, <2>3, <2>4
<1> QED
  BY <1>6, <1>8, <1>9 DEF Relists

\* A slice that append has extended becomes somebody's.
LEMMA ExtendedApart ==
    ASSUME ListTypes, ListsApart, NEW s, Views(arrays, s), NEW xs \in Seq(Entry),
           NEW o, NEW ys,
           LET e == Extended(arrays, s, xs) IN
               arrays' = e.heap /\ Relists(o, e.slice, ys),
           ys = SubSeq(arrays[s.at], 1, s.len) \o xs,
           o \in owners /\ s = view[o]
    PROVE  ListsApart'
<1> DEFINE e == Extended(arrays, s, xs)
<1>1. arrays \in Heap /\ xs \in Seq(Cell)
  BY SeqMonotonic DEF ListTypes, Cell
<1>2. Extends(arrays, s, xs, e.heap, e.slice)
  BY <1>1, ExtendedFacts
<1>3. arrays' = e.heap /\ Relists(o, e.slice, ys)
  OBVIOUS
<1>4. Len(arrays) \in Nat
  BY <1>1, LenProperties DEF Heap
<1>5. PICK t : t = e.slice
  OBVIOUS
<1> HIDE DEF e
<1>6. Extends(arrays, s, xs, arrays', t) /\ Relists(o, t, ys)
  BY <1>2, <1>3, <1>5
<1>7. /\ arrays' \in Heap /\ Len(arrays) =< Len(arrays')
      /\ \A k \in 1..Len(arrays) : /\ Len(arrays'[k]) = Len(arrays[k])
                                   /\ k # t.at => arrays'[k] = arrays[k]
      /\ Views(arrays', t)
      /\ SubSeq(arrays'[t.at], 1, t.len) = ys
  BY <1>6 DEF Extends
<1>8. (t.at > Len(arrays) \/ (o \in owners /\ t.at = view[o].at))
  <2>1. (t.at = s.at \/ t.at = Len(arrays) + 1)
    BY <1>6 DEF Extends
  <2> QED
    BY <1>4, <2>1
<1> QED
  BY <1>6, <1>7, <1>8, RelistedApart

\* A copy becomes the slice of a new owner.
LEMMA FreshApart ==
    ASSUME ListTypes, ListsApart, NEW xs \in Seq(Cell), NEW o,
           LET g == Fresh(arrays, xs) IN arrays' = g.heap /\ Relists(o, g.slice, xs)
    PROVE  ListsApart'
<1>1. arrays \in Heap /\ Len(arrays) \in Nat
  BY LenProperties DEF ListTypes, Heap
<1>2. PICK t : t = Fresh(arrays, xs).slice
  OBVIOUS
<1>3. arrays' = Fresh(arrays, xs).heap /\ Relists(o, t, xs)
  BY <1>2
<1>4. /\ arrays' \in Heap /\ Len(arrays') = Len(arrays) + 1
      /\ \A k \in 1..Len(arrays) : arrays'[k] = arrays[k]
      /\ arrays'[Len(arrays) + 1] = xs
      /\ t.at = Len(arrays) + 1 /\ t.len = Len(xs)
      /\ Views(arrays', t) /\ SubSeq(xs, 1, Len(xs)) = xs
  BY <1>1, <1>2, <1>3, FreshFacts
<1>5. SubSeq(arrays'[t.at], 1, t.len) = xs
  BY <1>4
<1>6. /\ Len(arrays) =< Len(arrays') /\ t.at > Len(arrays)
      /\ \A k \in 1..Len(arrays) : /\ Len(arrays'[k]) = Len(arrays[k])
                                   /\ k # t.at => arrays'[k] = arrays[k]
  BY <1>1, <1>4
<1> QED
  BY <1>3, <1>4, <1>5, <1>6, RelistedApart

\* What an owner's list is, is a list of specs.
LEMMA ListOf ==
    ASSUME StackInv
    PROVE  /\ \A g \in 1..Len(groups) : /\ Elements(groups[g]) = asked.groups[g]
                                        /\ asked.groups[g] \in Seq(Entry)
                                        /\ Views(arrays, groups[g])
           /\ \A r \in 1..Len(routes) : /\ Elements(routes[r]) = asked.routes[r]
                                        /\ asked.routes[r] \in Seq(Entry)
                                        /\ Views(arrays, routes[r])
           /\ \A n \in Name : /\ Elements(members[n]) = asked.members[n]
                              /\ asked.members[n] \in Seq(Entry)
                              /\ Views(arrays, members[n])
<1>1. OwnerFacts
  BY OwnersAre DEF StackInv
<1>2. \A o \in owners : /\ Views(arrays, view[o])
                        /\ SubSeq(arrays[view[o].at], 1, view[o].len) = asks[o]
  BY DEF StackInv, ListsApart
<1>3. /\ Len(asked.groups) = Len(groups) /\ Len(asked.routes) = Len(routes)
      /\ asked.groups \in Seq(Seq(Entry)) /\ asked.routes \in Seq(Seq(Entry))
      /\ asked.members \in [Name -> Seq(Entry)]
  BY DEF StackInv, ListTypes
<1>4. ASSUME NEW g \in 1..Len(groups)
      PROVE  /\ Elements(groups[g]) = asked.groups[g] /\ asked.groups[g] \in Seq(Entry)
             /\ Views(arrays, groups[g])
  <2>1. /\ <<"group", g>> \in owners /\ view[<<"group", g>>] = groups[g]
        /\ asks[<<"group", g>>] = asked.groups[g]
    BY <1>1 DEF OwnerFacts
  <2>2. asked.groups[g] \in Seq(Entry)
    BY <1>3, ElementOfSeq
  <2> QED
    BY <1>2, <2>1, <2>2 DEF Elements
<1>5. ASSUME NEW r \in 1..Len(routes)
      PROVE  /\ Elements(routes[r]) = asked.routes[r] /\ asked.routes[r] \in Seq(Entry)
             /\ Views(arrays, routes[r])
  <2>1. /\ <<"route", r>> \in owners /\ view[<<"route", r>>] = routes[r]
        /\ asks[<<"route", r>>] = asked.routes[r]
    BY <1>1 DEF OwnerFacts
  <2>2. asked.routes[r] \in Seq(Entry)
    BY <1>3, ElementOfSeq
  <2> QED
    BY <1>2, <2>1, <2>2 DEF Elements
<1>6. ASSUME NEW n \in Name
      PROVE  /\ Elements(members[n]) = asked.members[n] /\ asked.members[n] \in Seq(Entry)
             /\ Views(arrays, members[n])
  BY <1>1, <1>2, <1>3 DEF OwnerFacts, Elements
<1> QED
  BY <1>4, <1>5, <1>6

LEMMA NewGroupKeeps ==
    ASSUME StackInv, NEW xs \in Seq(Entry), NewGroup(xs)
    PROVE  StackInv'
<1> DEFINE g == Fresh(arrays, xs)
<1>1. /\ arrays' = g.heap /\ groups' = Append(groups, g.slice) /\ routes' = routes
      /\ members' = members /\ asked' = [asked EXCEPT !.groups = Append(asked.groups, xs)]
  BY DEF NewGroup
<1>2. ListTypes /\ ListsApart /\ xs \in Seq(Cell) /\ arrays \in Heap
  BY SeqMonotonic DEF StackInv, ListTypes, Cell
<1>3. g.heap \in Heap /\ g.slice \in Slice
  BY <1>2, FreshFacts DEF Views
<1> HIDE DEF g
<1>4. ListTypes' /\ Relists(<<"group", Len(groups) + 1>>, g.slice, xs)
  BY <1>1, <1>2, <1>3, GroupAdded
<1> QED
  BY <1>1, <1>2, <1>4, FreshApart DEF StackInv, g

LEMMA AddRouteKeeps ==
    ASSUME StackInv, NEW g \in {0} \cup DOMAIN groups, AddRoute(g)
    PROVE  StackInv'
<1> DEFINE given == IF g = 0 THEN <<>> ELSE Elements(groups[g])
           own == Fresh(arrays, given)
<1>1. ListTypes /\ ListsApart /\ arrays \in Heap /\ DOMAIN groups = 1..Len(groups)
  BY LenProperties DEF StackInv, ListTypes
<1>2. given \in Seq(Entry) /\ given = IF g = 0 THEN <<>> ELSE asked.groups[g]
  BY <1>1, ListOf
<1>3. /\ arrays' = own.heap /\ routes' = Append(routes, own.slice) /\ groups' = groups
      /\ members' = members
      /\ asked' = [asked EXCEPT !.routes = Append(asked.routes, given)]
  BY <1>2 DEF AddRoute
<1> HIDE DEF given
<1>4. given \in Seq(Cell)
  BY <1>2, SeqMonotonic DEF Cell
<1>5. own.heap \in Heap /\ own.slice \in Slice
  BY <1>1, <1>4, FreshFacts DEF Views
<1> HIDE DEF own
<1>6. ListTypes' /\ Relists(<<"route", Len(routes) + 1>>, own.slice, given)
  BY <1>1, <1>2, <1>3, <1>5, RouteAdded
<1> QED
  BY <1>1, <1>3, <1>4, <1>6, FreshApart DEF StackInv, own

LEMMA SubGroupKeeps ==
    ASSUME StackInv, NEW g \in DOMAIN groups, NEW xs \in Seq(Entry), SubGroup(g, xs)
    PROVE  StackInv'
<1> DEFINE base == Elements(groups[g])
           clone == Fresh(arrays, base)
           child == Extended(clone.heap, clone.slice, xs)
           ys == asked.groups[g] \o xs
<1>1. /\ ListTypes /\ ListsApart /\ arrays \in Heap /\ g \in 1..Len(groups)
      /\ Len(arrays) \in Nat
  BY LenProperties DEF StackInv, ListTypes, Heap
<1>2. base = asked.groups[g] /\ base \in Seq(Entry) /\ ys = base \o xs
  BY <1>1, ListOf
<1>3. base \in Seq(Cell) /\ xs \in Seq(Cell) /\ ys \in Seq(Entry)
  BY <1>2, SeqMonotonic, ConcatProperties DEF Cell
<1>4. /\ arrays' = child.heap /\ groups' = Append(groups, child.slice) /\ routes' = routes
      /\ members' = members /\ asked' = [asked EXCEPT !.groups = Append(asked.groups, ys)]
  BY DEF SubGroup
<1> HIDE DEF base, ys
<1>5. /\ clone.heap \in Heap /\ Len(clone.heap) = Len(arrays) + 1
      /\ \A k \in 1..Len(arrays) : clone.heap[k] = arrays[k]
      /\ clone.heap[Len(arrays) + 1] = base
      /\ clone.slice.at = Len(arrays) + 1 /\ clone.slice.len = Len(base)
      /\ Views(clone.heap, clone.slice) /\ SubSeq(base, 1, Len(base)) = base
  BY <1>1, <1>3, FreshFacts
<1> HIDE DEF clone
<1>6. Extends(clone.heap, clone.slice, xs, child.heap, child.slice)
  BY <1>3, <1>5, ExtendedFacts
<1>7. PICK t : t = child.slice
  OBVIOUS
<1> HIDE DEF child
<1>8. Extends(clone.heap, clone.slice, xs, arrays', t)
  BY <1>4, <1>6, <1>7
<1>9. /\ arrays' \in Heap /\ Views(arrays', t) /\ Len(arrays) + 1 =< Len(arrays')
      /\ SubSeq(arrays'[t.at], 1, t.len) = ys
  BY <1>2, <1>5, <1>8 DEF Extends
<1>10. t.at = Len(arrays) + 1 \/ t.at = Len(arrays) + 2
  BY <1>1, <1>5, <1>8 DEF Extends
<1>11. \A k \in 1..Len(arrays) : /\ Len(arrays'[k]) = Len(arrays[k])
                                 /\ k # t.at => arrays'[k] = arrays[k]
  <2> SUFFICES ASSUME NEW k \in 1..Len(arrays)
               PROVE  /\ Len(arrays'[k]) = Len(arrays[k])
                      /\ k # t.at => arrays'[k] = arrays[k]
    OBVIOUS
  <2>1. k \in 1..Len(clone.heap) /\ clone.heap[k] = arrays[k]
    BY <1>1, <1>5
  <2> QED
    BY <1>8, <2>1 DEF Extends
<1>12. Len(arrays) =< Len(arrays') /\ t.at > Len(arrays) /\ t \in Slice
  <2>1. Len(arrays') \in Nat
    BY <1>9, LenProperties DEF Heap
  <2> QED
    BY <1>1, <1>9, <1>10, <2>1 DEF Views
<1>13. ListTypes' /\ Relists(<<"group", Len(groups) + 1>>, t, ys)
  BY <1>1, <1>3, <1>4, <1>7, <1>9, <1>12, GroupAdded
<1> QED
  BY <1>1, <1>9, <1>11, <1>12, <1>13, RelistedApart DEF StackInv

LEMMA MiddlewareKeeps ==
    ASSUME StackInv, NEW r \in DOMAIN routes, NEW xs \in Seq(Entry), Middleware(r, xs)
    PROVE  StackInv'
<1> DEFINE own == Extended(arrays, routes[r], xs)
           ys == asked.routes[r] \o xs
<1>1. /\ ListTypes /\ ListsApart /\ arrays \in Heap /\ r \in 1..Len(routes)
  BY LenProperties DEF StackInv, ListTypes
<1>2. /\ Views(arrays, routes[r]) /\ asked.routes[r] \in Seq(Entry)
      /\ asked.routes[r] = SubSeq(arrays[routes[r].at], 1, routes[r].len)
  BY <1>1, ListOf DEF Elements
<1>3. xs \in Seq(Cell) /\ ys \in Seq(Entry)
  BY <1>2, SeqMonotonic, ConcatProperties DEF Cell
<1>4. /\ arrays' = own.heap /\ routes' = [routes EXCEPT ![r] = own.slice] /\ groups' = groups
      /\ members' = members /\ asked' = [asked EXCEPT !.routes[r] = ys]
  BY DEF Middleware
<1>5. ys = SubSeq(arrays[routes[r].at], 1, routes[r].len) \o xs
  BY <1>2
<1> HIDE DEF ys
<1>6. own.heap \in Heap /\ own.slice \in Slice
  BY <1>1, <1>2, <1>3, ExtendedFacts DEF Extends, Views
<1>7. <<"route", r>> \in owners /\ routes[r] = view[<<"route", r>>]
  BY <1>1, OwnersAre DEF OwnerFacts
<1> HIDE DEF own
<1>8. ListTypes' /\ Relists(<<"route", r>>, own.slice, ys)
  BY <1>1, <1>3, <1>4, <1>6, RouteSet
<1> QED
  BY <1>1, <1>2, <1>4, <1>5, <1>7, <1>8, ExtendedApart DEF StackInv, own

LEMMA MiddlewareGroupKeeps ==
    ASSUME StackInv, NEW n \in Name, NEW xs \in Seq(Entry), MiddlewareGroup(n, xs)
    PROVE  StackInv'
<1> DEFINE own == Extended(arrays, members[n], xs)
           ys == asked.members[n] \o xs
<1>1. ListTypes /\ ListsApart /\ arrays \in Heap
  BY DEF StackInv, ListTypes
<1>2. /\ Views(arrays, members[n]) /\ asked.members[n] \in Seq(Entry)
      /\ asked.members[n] = SubSeq(arrays[members[n].at], 1, members[n].len)
  BY ListOf DEF Elements
<1>3. xs \in Seq(Cell) /\ ys \in Seq(Entry)
  BY <1>2, SeqMonotonic, ConcatProperties DEF Cell
<1>4. /\ arrays' = own.heap /\ members' = [members EXCEPT ![n] = own.slice]
      /\ groups' = groups /\ routes' = routes /\ asked' = [asked EXCEPT !.members[n] = ys]
  BY DEF MiddlewareGroup
<1>5. ys = SubSeq(arrays[members[n].at], 1, members[n].len) \o xs
  BY <1>2
<1> HIDE DEF ys
<1>6. own.heap \in Heap /\ own.slice \in Slice
  BY <1>1, <1>2, <1>3, ExtendedFacts DEF Extends, Views
<1>7. <<"named", n>> \in owners /\ members[n] = view[<<"named", n>>]
  BY <1>1, OwnersAre DEF OwnerFacts
<1> HIDE DEF own
<1>8. ListTypes' /\ Relists(<<"named", n>>, own.slice, ys)
  BY <1>1, <1>3, <1>4, <1>6, MembersSet
<1> QED
  BY <1>1, <1>2, <1>4, <1>5, <1>7, <1>8, ExtendedApart DEF StackInv, own

\* A step that touches no list.
LEMMA ListsKept ==
    ASSUME StackInv, UNCHANGED <<arrays, groups, routes, members, asked>>
    PROVE  StackInv'
<1>1. owners' = owners
  BY DEF owners
<1>2. view' = view /\ asks' = asks
  BY <1>1 DEF view, asks
<1>3. ListTypes'
  BY DEF StackInv, ListTypes
<1>4. ListsApart'
  BY <1>1, <1>2 DEF StackInv, ListsApart
<1> QED
  BY <1>3, <1>4 DEF StackInv

----------------------------------------------------------------------------
(* The invariant and its consequence *)

LEMMA StackInit == Init => StackInv
<1> SUFFICES ASSUME Init PROVE StackInv
  OBVIOUS
<1>1. Web \in Seq(Entry) /\ Len(Web) = 2 /\ Web \in Seq(Cell) /\ <<>> \in Seq(Cell)
  BY NameAssumption DEF Web, Entry, Cell
<1>2. arrays \in Heap /\ Len(arrays) = 2 /\ arrays[1] = <<>> /\ arrays[2] = Web
  BY <1>1 DEF Init, Heap
<1>3. groups = <<>> /\ routes = <<>> /\ asked.groups = <<>> /\ asked.routes = <<>>
  BY DEF Init
<1>4. \A n \in Name : /\ members[n] = IF n = "web" THEN [at |-> 2, len |-> 2] ELSE Nil
                      /\ asked.members[n] = IF n = "web" THEN Web ELSE <<>>
  BY DEF Init
<1>5. members \in [Name -> Slice] /\ asked.members \in [Name -> Seq(Entry)]
  BY <1>1 DEF Init, Slice, Nil
<1>6. asked \in [groups : Seq(Seq(Entry)), routes : Seq(Seq(Entry)),
                 members : [Name -> Seq(Entry)]]
  BY <1>3, <1>5 DEF Init
<1>7. ListTypes
  BY <1>2, <1>3, <1>5, <1>6 DEF ListTypes
<1>8. OwnerFacts
  BY <1>7, OwnersAre
<1>9. \A o \in owners : /\ o[2] \in Name /\ o = <<"named", o[2]>>
                        /\ view[o] = members[o[2]] /\ asks[o] = asked.members[o[2]]
  BY <1>3, <1>8 DEF OwnerFacts
<1>10. SubSeq(Web, 1, 2) = Web /\ SubSeq(<<>>, 1, 0) = <<>>
  BY <1>1, SubSeqFull, SubSeqEmpty
<1>11. \A o \in owners : /\ Views(arrays, view[o])
                         /\ SubSeq(arrays[view[o].at], 1, view[o].len) = asks[o]
  <2> SUFFICES ASSUME NEW n \in Name
               PROVE  /\ Views(arrays, members[n])
                      /\ SubSeq(arrays[members[n].at], 1, members[n].len) = asked.members[n]
    BY <1>9
  <2>1. CASE n = "web"
    <3>1. members[n] = [at |-> 2, len |-> 2] /\ asked.members[n] = Web
      BY <1>4, <2>1
    <3> QED
      BY <1>1, <1>2, <1>10, <3>1 DEF Views, Slice
  <2>2. CASE n # "web"
    <3>1. members[n].at = 1 /\ members[n].len = 0 /\ members[n] \in Slice
          /\ asked.members[n] = <<>>
      BY <1>4, <2>2 DEF Nil, Slice
    <3>2. Len(arrays[1]) = 0
      BY <1>2
    <3> QED
      BY <1>2, <1>10, <3>1, <3>2 DEF Views
  <2> QED
    BY <2>1, <2>2
<1>12. \A o, p \in owners : o # p /\ view[o].at = view[p].at => Len(arrays[view[o].at]) = 0
  BY <1>2, <1>4, <1>9 DEF Nil
<1> QED
  BY <1>7, <1>11, <1>12 DEF StackInv, ListsApart

LEMMA StackStep == StackInv /\ [Next]_vars => StackInv'
<1> SUFFICES ASSUME StackInv, [Next]_vars PROVE StackInv'
  OBVIOUS
<1>0. \A xs \in Lists \cup {<<>>} : xs \in Seq(Entry)
  <2>1. <<>> \in Seq(Entry)
    BY EmptySeq
  <2> QED
    BY <2>1, ListsAssumption
<1>1. ASSUME NEW xs \in Lists \cup {<<>>}, NewGroup(xs) PROVE StackInv'
  BY <1>0, <1>1, NewGroupKeeps
<1>2. ASSUME NEW xs \in Lists \cup {<<>>}, NEW g \in DOMAIN groups, SubGroup(g, xs)
      PROVE  StackInv'
  BY <1>0, <1>2, SubGroupKeeps
<1>3. ASSUME NEW g \in {0} \cup DOMAIN groups, AddRoute(g) PROVE StackInv'
  BY <1>3, AddRouteKeeps
<1>4. ASSUME NEW xs \in Lists, NEW r \in DOMAIN routes, Middleware(r, xs) PROVE StackInv'
  BY <1>0, <1>4, MiddlewareKeeps
<1>5. ASSUME NEW action \in Action, NEW r \in DOMAIN routes,
             ApplyControllerMiddleware(r, action)
      PROVE  StackInv'
  BY <1>5, RuleLists, MiddlewareKeeps DEF ApplyControllerMiddleware
<1>6. ASSUME NEW xs \in Lists, NEW r \in DOMAIN routes, WithoutMiddleware(r, xs)
      PROVE  StackInv'
  BY <1>6, ListsKept DEF WithoutMiddleware
<1>7. ASSUME NEW r \in DOMAIN routes, WithMiddleware(r) PROVE StackInv'
  BY <1>7, ListsKept DEF WithMiddleware
<1>8. ASSUME NEW call \in GroupCalls, MiddlewareGroup(call[1], call[2]) PROVE StackInv'
  BY <1>8, GroupCallsAssumption, MiddlewareGroupKeeps
<1>9. ASSUME NEW n \in Aliases, AliasMiddleware(n) PROVE StackInv'
  BY <1>9, ListsKept DEF AliasMiddleware
<1>10. CASE UNCHANGED vars
  BY <1>10, ListsKept DEF vars
<1> QED
  BY <1>1, <1>2, <1>3, <1>4, <1>5, <1>6, <1>7, <1>8, <1>9, <1>10 DEF Next

\* The slices of groups, routes and named groups show what was asked for, and each
\* lies in an array of its own.
THEOREM StackInvHolds == Spec => []StackInv
BY StackInit, StackStep, PTL DEF Spec

\* No call that configures one group, route or named group changes the middleware
\* of another (RouteGroup.clone, addRoute, MiddlewareGroup and append).
THEOREM ListsStayApart == Spec => []ConfigurationsApart
<1>1. StackInv => ConfigurationsApart
  <2> SUFFICES ASSUME StackInv PROVE ConfigurationsApart
    OBVIOUS
  <2>1. DOMAIN groups = 1..Len(groups) /\ DOMAIN routes = 1..Len(routes)
    BY LenProperties DEF StackInv, ListTypes
  <2> QED
    BY <2>1, ListOf DEF ConfigurationsApart
<1> QED
  BY <1>1, StackInvHolds, PTL

\* Sums over sequences that begin alike.
LEMMA SumsAgree ==
    ASSUME NEW q, NEW u, NEW n \in Nat, n <= Len(q), n <= Len(u), Len(q) \in Nat, Len(u) \in Nat,
           \A k \in 1..n : q[k] = u[k],
           NEW f, NEW g, Sums(f, q), Sums(g, u)
    PROVE  f[n] = g[n]
<1> DEFINE Good == {m \in Nat : m <= n => f[m] = g[m]}
<1>1. 0 \in Good
  BY DEF Sums
<1>2. ASSUME NEW m \in Nat, m \in Good PROVE m + 1 \in Good
  <2> SUFFICES ASSUME m + 1 <= n PROVE f[m + 1] = g[m + 1]
    OBVIOUS
  <2>1. m + 1 \in 1..Len(q) /\ m + 1 \in 1..Len(u) /\ m + 1 \in 1..n /\ (m + 1) - 1 = m
    OBVIOUS
  <2>2. f[m + 1] = f[m] \o q[m + 1] /\ g[m + 1] = g[m] \o u[m + 1]
    BY <2>1 DEF Sums
  <2>3. f[m] = g[m] /\ q[m + 1] = u[m + 1]
    BY <1>2, <2>1
  <2> QED
    BY <2>2, <2>3
<1> HIDE DEF Good
<1>3. n \in Good
  BY <1>1, <1>2, Induction
<1> QED
  BY <1>3 DEF Good

LEMMA FlatConcat ==
    ASSUME NEW S, NEW a \in Seq(Seq(S)), NEW b \in Seq(Seq(S))
    PROVE  FlattenSeq(a \o b) = FlattenSeq(a) \o FlattenSeq(b)
<1>1. PICK u : u = a \o b
  OBVIOUS
<1>2. /\ u \in Seq(Seq(S))
      /\ Len(u) = Len(a) + Len(b)
      /\ \A i \in 1..(Len(a) + Len(b)) : u[i] = IF i <= Len(a) THEN a[i] ELSE b[i - Len(a)]
  BY <1>1, ConcatProperties
<1>3. PICK f : Sums(f, a) /\ FlattenSeq(a) = f[Len(a)]
  BY FlatSums
<1>4. PICK g : Sums(g, b) /\ FlattenSeq(b) = g[Len(b)]
  BY FlatSums
<1>5. PICK h : Sums(h, u) /\ FlattenSeq(u) = h[Len(u)]
  BY <1>2, FlatSums
<1>6. PICK n \in Nat, m \in Nat : n = Len(a) /\ m = Len(b)
  BY LenProperties
<1>7. h[n] = f[n]
  <2>1. \A k \in 1..n : a[k] = u[k]
    BY <1>2, <1>6
  <2>2. n <= Len(a) /\ n <= Len(u) /\ Len(a) \in Nat /\ Len(u) \in Nat
    BY <1>2, <1>6
  <2> QED
    BY <1>3, <1>5, <2>1, <2>2, SumsAgree
<1>8. f[n] \in Seq(S)
  BY <1>3, <1>6, FlatType
<1> DEFINE Reaches(i) == h[n + i] = f[n] \o g[i]
           Good == {i \in Nat : i <= m => Reaches(i)}
<1>9. 0 \in Good
  <2>1. g[0] = <<>> /\ n + 0 = n
    BY <1>4 DEF Sums
  <2>2. f[n] \o <<>> = f[n]
    BY <1>8, ConcatEmptySeq
  <2>3. Reaches(0)
    BY <1>7, <2>1, <2>2
  <2> QED
    BY <2>3
<1>10. ASSUME NEW i \in Nat, i \in Good PROVE i + 1 \in Good
  <2> HIDE DEF Reaches
  <2> SUFFICES ASSUME i + 1 <= m PROVE Reaches(i + 1)
    OBVIOUS
  <2>1. PICK j \in Nat : j = n + (i + 1)
    OBVIOUS
  <2>2. j \in 1..Len(u) /\ j - 1 = n + i /\ j \in 1..(Len(a) + Len(b)) /\ ~(j <= Len(a)) /\ j - Len(a) = i + 1
    BY <1>2, <1>6, <2>1
  <2>3. h[j] = h[n + i] \o u[j] /\ u[j] = b[i + 1]
    BY <1>2, <1>5, <2>2 DEF Sums
  <2>4. i + 1 \in 1..Len(b) /\ (i + 1) - 1 = i /\ i \in 0..Len(b)
    BY <1>6
  <2>5. g[i + 1] = g[i] \o b[i + 1]
    BY <1>4, <2>4 DEF Sums
  <2>6. Reaches(i)
    BY <1>10
  <2>7. b[i + 1] \in Seq(S) /\ g[i] \in Seq(S)
    BY <1>4, <2>4, ElementOfSeq, SumsType
  <2>8. PICK x \in Seq(S), y \in Seq(S), z \in Seq(S) : x = f[n] /\ y = g[i] /\ z = b[i + 1]
    BY <1>8, <2>7
  <2>9. (x \o y) \o z = x \o (y \o z)
    BY ConcatAssociative
  <2> QED
    BY <2>1, <2>3, <2>5, <2>6, <2>8, <2>9 DEF Reaches
<1> HIDE DEF Good, Reaches
<1>11. m \in Good
  BY <1>9, <1>10, Induction
<1>12. Reaches(m)
  BY <1>11 DEF Good
<1> QED
  BY <1>1, <1>2, <1>3, <1>4, <1>5, <1>6, <1>12 DEF Reaches

----------------------------------------------------------------------------
(* What is kept of a sequence *)

Singles(s, T) == [k \in DOMAIN s |-> IF s[k] \in T THEN <<s[k]>> ELSE <<>>]

LEMMA SinglesType ==
    ASSUME NEW S, NEW s \in Seq(S), NEW T
    PROVE  /\ Singles(s, T) \in Seq(Seq(S))
           /\ Len(Singles(s, T)) = Len(s)
           /\ Len(s) \in Nat /\ DOMAIN s = 1..Len(s)
           /\ \A k \in 1..Len(s) : /\ s[k] \in S
                                   /\ Singles(s, T)[k] = IF s[k] \in T THEN <<s[k]>> ELSE <<>>
<1>1. Len(s) \in Nat /\ DOMAIN s = 1..Len(s) /\ \A k \in 1..Len(s) : s[k] \in S
  BY LenProperties, ElementOfSeq
<1>2. ASSUME NEW k \in 1..Len(s) PROVE (IF s[k] \in T THEN <<s[k]>> ELSE <<>>) \in Seq(S)
  BY <1>1
<1>3. Singles(s, T) \in [1..Len(s) -> Seq(S)]
  BY <1>1, <1>2 DEF Singles
<1>4. Singles(s, T) \in Seq(Seq(S)) /\ Len(Singles(s, T)) = Len(s)
  BY <1>1, <1>3, FunctionIsSeq
<1> QED
  BY <1>1, <1>4 DEF Singles

LEMMA KeptType ==
    ASSUME NEW S, NEW s \in Seq(S), NEW T
    PROVE  Kept(s, T) \in Seq(S)
<1>1. Singles(s, T) \in Seq(Seq(S))
  BY SinglesType
<1>2. FlattenSeq(Singles(s, T)) \in Seq(S)
  BY <1>1, FlatType
<1> QED
  BY <1>2 DEF Kept, Singles

LEMMA KeptElements ==
    ASSUME NEW S, NEW s \in Seq(S), NEW T, NEW x
    PROVE  x \in ToSet(Kept(s, T)) <=> x \in ToSet(s) /\ x \in T
<1>1. /\ Singles(s, T) \in Seq(Seq(S))
      /\ Len(Singles(s, T)) = Len(s)
      /\ DOMAIN s = 1..Len(s)
      /\ \A k \in 1..Len(s) : Singles(s, T)[k] = IF s[k] \in T THEN <<s[k]>> ELSE <<>>
  BY SinglesType
<1>2. x \in ToSet(FlattenSeq(Singles(s, T))) <=>
          \E k \in 1..Len(Singles(s, T)) : x \in ToSet(Singles(s, T)[k])
  BY <1>1, FlatElements
<1>3. ASSUME NEW k \in 1..Len(s)
      PROVE  x \in ToSet(Singles(s, T)[k]) <=> x = s[k] /\ s[k] \in T
  <2>1. x \notin ToSet(<<>>) /\ (x \in ToSet(<<s[k]>>) <=> x = s[k])
    BY DEF ToSet
  <2>2. Singles(s, T)[k] = IF s[k] \in T THEN <<s[k]>> ELSE <<>>
    BY <1>1
  <2> QED
    BY <2>1, <2>2
<1>4. x \in ToSet(s) <=> \E k \in 1..Len(s) : x = s[k]
  BY <1>1 DEF ToSet
<1>5. Kept(s, T) = FlattenSeq(Singles(s, T))
  BY DEF Kept, Singles
<1> QED
  BY <1>1, <1>2, <1>3, <1>4, <1>5

\* Nothing is kept of what is not wanted.
LEMMA KeptNone ==
    ASSUME NEW S, NEW s \in Seq(S), NEW T, \A x \in ToSet(s) : x \notin T
    PROVE  Kept(s, T) = <<>>
<1>1. PICK k : k = Kept(s, T) /\ k \in Seq(S)
  BY KeptType
<1>2. \A x : x \notin ToSet(k)
  BY <1>1, KeptElements
<1>3. Len(k) = 0
  <2>1. Len(k) \in Nat /\ DOMAIN k = 1..Len(k)
    BY <1>1, LenProperties
  <2>2. ASSUME Len(k) # 0 PROVE FALSE
    <3>1. 1 \in DOMAIN k
      BY <2>1, <2>2
    <3>2. k[1] \in ToSet(k)
      BY <3>1 DEF ToSet
    <3> QED
      BY <1>2, <3>2
  <2> QED
    BY <2>1, <2>2
<1> QED
  BY <1>1, <1>3, EmptySeq

\* All is kept of what is wanted.
LEMMA KeptAll ==
    ASSUME NEW S, NEW s \in Seq(S), NEW T, \A x \in ToSet(s) : x \in T
    PROVE  Kept(s, T) = s
<1>1. /\ Singles(s, T) \in Seq(Seq(S))
      /\ Len(Singles(s, T)) = Len(s)
      /\ Len(s) \in Nat /\ DOMAIN s = 1..Len(s)
      /\ \A k \in 1..Len(s) : /\ s[k] \in S
                              /\ Singles(s, T)[k] = IF s[k] \in T THEN <<s[k]>> ELSE <<>>
  BY SinglesType
<1>2. PICK q : q = Singles(s, T)
  OBVIOUS
<1>3. /\ q \in Seq(Seq(S)) /\ Len(q) = Len(s)
      /\ \A k \in 1..Len(s) : q[k] = <<s[k]>>
  BY <1>1, <1>2 DEF ToSet
<1>4. PICK f : Sums(f, q) /\ FlattenSeq(q) = f[Len(q)]
  BY <1>3, FlatSums
<1> DEFINE Prefix(m) == Len(f[m]) = m /\ \A i \in 1..m : f[m][i] = s[i]
           Good == {m \in Nat : m <= Len(s) => Prefix(m)}
<1>5. 0 \in Good
  BY <1>4 DEF Sums
<1>6. ASSUME NEW m \in Nat, m \in Good PROVE m + 1 \in Good
  <2> SUFFICES ASSUME m + 1 <= Len(s) PROVE Prefix(m + 1)
    OBVIOUS
  <2>1. m + 1 \in 1..Len(q) /\ m + 1 \in 1..Len(s) /\ (m + 1) - 1 = m /\ m \in 0..Len(q)
    BY <1>1, <1>3
  <2>2. Prefix(m)
    BY <1>6, <2>1
  <2>3. f[m + 1] = f[m] \o <<s[m + 1]>> /\ s[m + 1] \in S
    BY <1>1, <1>3, <1>4, <2>1 DEF Sums
  <2>4. f[m] \in Seq(S)
    BY <1>3, <1>4, <2>1, SumsType
  <2>5. f[m + 1] = Append(f[m], s[m + 1])
    BY <2>3, <2>4, AppendIsConcat
  <2>6. /\ Len(f[m + 1]) = Len(f[m]) + 1
        /\ \A i \in 1..Len(f[m]) : f[m + 1][i] = f[m][i]
        /\ f[m + 1][Len(f[m]) + 1] = s[m + 1]
    BY <2>3, <2>4, <2>5, AppendProperties
  <2>7. \A i \in 1..(m + 1) : i \in 1..m \/ i = m + 1
    OBVIOUS
  <2> QED
    BY <2>2, <2>6, <2>7
<1> HIDE DEF Good
<1>7. Len(s) \in Good
  BY <1>1, <1>5, <1>6, Induction
<1>8. Prefix(Len(s))
  BY <1>1, <1>7 DEF Good
<1>9. Kept(s, T) = f[Len(s)] /\ f[Len(s)] \in Seq(S)
  <2>1. Kept(s, T) = f[Len(s)]
    BY <1>2, <1>3, <1>4 DEF Kept, Singles
  <2>2. Kept(s, T) \in Seq(S)
    BY KeptType
  <2> QED
    BY <2>1, <2>2
<1> QED
  BY <1>8, <1>9, SeqEqual

\* What is kept of two sequences together.
LEMMA KeptConcat ==
    ASSUME NEW S, NEW s \in Seq(S), NEW t \in Seq(S), NEW T
    PROVE  Kept(s \o t, T) = Kept(s, T) \o Kept(t, T)
<1>1. PICK u : u = s \o t
  OBVIOUS
<1>2. /\ u \in Seq(S) /\ Len(u) = Len(s) + Len(t) /\ Len(s) \in Nat /\ Len(t) \in Nat
      /\ \A i \in 1..(Len(s) + Len(t)) : u[i] = IF i <= Len(s) THEN s[i] ELSE t[i - Len(s)]
  BY <1>1, ConcatProperties, LenProperties
<1>3. PICK a, b, c : a = Singles(s, T) /\ b = Singles(t, T) /\ c = Singles(u, T)
  OBVIOUS
<1>4. /\ a \in Seq(Seq(S)) /\ Len(a) = Len(s)
      /\ \A k \in 1..Len(s) : a[k] = IF s[k] \in T THEN <<s[k]>> ELSE <<>>
  BY <1>3, SinglesType
<1>5. /\ b \in Seq(Seq(S)) /\ Len(b) = Len(t)
      /\ \A k \in 1..Len(t) : b[k] = IF t[k] \in T THEN <<t[k]>> ELSE <<>>
  BY <1>3, SinglesType
<1>6. /\ c \in Seq(Seq(S)) /\ Len(c) = Len(u)
      /\ \A k \in 1..Len(u) : c[k] = IF u[k] \in T THEN <<u[k]>> ELSE <<>>
  <2>1. u \in Seq(S)
    BY <1>2
  <2>2. /\ Singles(u, T) \in Seq(Seq(S)) /\ Len(Singles(u, T)) = Len(u)
        /\ \A k \in 1..Len(u) : Singles(u, T)[k] = IF u[k] \in T THEN <<u[k]>> ELSE <<>>
    BY <2>1, SinglesType
  <2> QED
    BY <1>3, <2>2
<1>7. PICK d : d = a \o b
  OBVIOUS
<1>8. /\ d \in Seq(Seq(S)) /\ Len(d) = Len(a) + Len(b)
      /\ \A i \in 1..(Len(a) + Len(b)) : d[i] = IF i <= Len(a) THEN a[i] ELSE b[i - Len(a)]
  <2>1. a \in Seq(Seq(S)) /\ b \in Seq(Seq(S))
    BY <1>4, <1>5
  <2> QED
    BY <1>7, <2>1, ConcatProperties
<1>9. ASSUME NEW i \in 1..Len(c) PROVE c[i] = d[i]
  <2>1. i \in 1..(Len(s) + Len(t)) /\ i \in Nat
    BY <1>2, <1>6
  <2>2. c[i] = (IF u[i] \in T THEN <<u[i]>> ELSE <<>>)
        /\ u[i] = (IF i <= Len(s) THEN s[i] ELSE t[i - Len(s)])
        /\ d[i] = IF i <= Len(s) THEN a[i] ELSE b[i - Len(s)]
    BY <1>2, <1>4, <1>5, <1>6, <1>8, <2>1
  <2>3. CASE i <= Len(s)
    <3>1. i \in 1..Len(s)
      BY <1>2, <2>1, <2>3
    <3> QED
      BY <1>4, <2>2, <2>3, <3>1
  <2>4. CASE ~(i <= Len(s))
    <3>1. PICK j \in 1..Len(t) : j = i - Len(s)
      BY <1>2, <2>1, <2>4
    <3> QED
      BY <1>5, <2>2, <2>4, <3>1
  <2> QED
    BY <2>3, <2>4
<1>10. c = d
  <2>1. Len(c) = Len(d)
    BY <1>2, <1>4, <1>5, <1>6, <1>8
  <2> QED
    BY <1>6, <1>8, <1>9, <2>1, SeqEqual
<1>11. FlattenSeq(a \o b) = FlattenSeq(a) \o FlattenSeq(b)
  BY <1>4, <1>5, FlatConcat
<1>12. /\ Kept(s, T) = FlattenSeq(a) /\ Kept(t, T) = FlattenSeq(b)
       /\ Kept(u, T) = FlattenSeq(c)
  BY <1>3 DEF Kept, Singles
<1> QED
  BY <1>1, <1>7, <1>10, <1>11, <1>12

----------------------------------------------------------------------------
(* The order of a stack *)

Behind == Len(Priority) + 1

\* A listed name has its place for rank, and the others the last one.
LEMMA RankFacts ==
    /\ Len(Priority) \in Nat /\ Behind \in Nat
    /\ \A n : /\ Rank(n) \in 1..Behind
              /\ n \in ToSet(Priority) <=> Rank(n) < Behind
    /\ \A k \in DOMAIN Priority : Rank(Priority[k]) = k
<1>1. Len(Priority) \in Nat /\ DOMAIN Priority = 1..Len(Priority)
  BY PriorityAssumption, LenProperties
<1>2. ASSUME NEW n, n \in ToSet(Priority)
      PROVE  Rank(n) \in DOMAIN Priority /\ Priority[Rank(n)] = n
  <2>1. \E k \in DOMAIN Priority : Priority[k] = n
    BY <1>2 DEF ToSet
  <2> QED
    BY <1>2, <2>1 DEF Rank
<1>3. ASSUME NEW n, n \notin ToSet(Priority) PROVE Rank(n) = Behind
  BY <1>3 DEF Rank, Behind
<1>4. ASSUME NEW k \in DOMAIN Priority PROVE Rank(Priority[k]) = k
  <2>1. Priority[k] \in ToSet(Priority)
    BY DEF ToSet
  <2>2. Rank(Priority[k]) \in DOMAIN Priority /\ Priority[Rank(Priority[k])] = Priority[k]
    BY <1>2, <2>1
  <2> QED
    BY <2>2, PriorityAssumption DEF IsInjective
<1>5. Behind \in Nat
  BY <1>1 DEF Behind
<1>6. ASSUME NEW n PROVE Rank(n) \in 1..Behind /\ (n \in ToSet(Priority) <=> Rank(n) < Behind)
  BY <1>1, <1>2, <1>3 DEF Behind
<1> QED
  BY <1>1, <1>4, <1>5, <1>6

Ranked(k) == {e \in Entry : Rank(e.name) = k}
Buckets(s) == [k \in 1..Behind |-> Kept(s, Ranked(k))]

LEMMA BucketFacts ==
    ASSUME NEW s \in Seq(Entry)
    PROVE  /\ Buckets(s) \in Seq(Seq(Entry))
           /\ Len(Buckets(s)) = Behind
           /\ \A k \in 1..Behind : Buckets(s)[k] = Kept(s, Ranked(k))
<1>1. \A k \in 1..Behind : Kept(s, Ranked(k)) \in Seq(Entry)
  BY KeptType
<1>2. Buckets(s) \in [1..Behind -> Seq(Entry)]
  BY <1>1 DEF Buckets
<1>3. Buckets(s) \in Seq(Seq(Entry)) /\ Len(Buckets(s)) = Behind
  BY <1>2, RankFacts, FunctionIsSeq
<1> QED
  BY <1>3 DEF Buckets

\* The entries of s that are in one of the first i buckets.
LEMMA BucketElements ==
    ASSUME NEW s \in Seq(Entry), NEW f, Sums(f, Buckets(s)), NEW i \in 0..Behind, NEW x
    PROVE  x \in ToSet(f[i]) <=> x \in ToSet(s) /\ x \in Entry /\ Rank(x.name) <= i
<1>1. PICK q : q = Buckets(s)
  OBVIOUS
<1>2. q \in Seq(Seq(Entry)) /\ Len(q) = Behind /\ \A k \in 1..Behind : q[k] = Kept(s, Ranked(k))
  BY <1>1, BucketFacts
<1>3. x \in ToSet(f[i]) <=> \E k \in 1..i : x \in ToSet(q[k])
  <2>1. Sums(f, q) /\ q \in Seq(Seq(Entry)) /\ i \in 0..Len(q)
    BY <1>1, <1>2
  <2> QED
    BY <2>1, SumsElements
<1>4. \A k \in 1..i : x \in ToSet(q[k]) <=> x \in ToSet(s) /\ x \in Entry /\ Rank(x.name) = k
  <2> SUFFICES ASSUME NEW k \in 1..i
               PROVE  x \in ToSet(q[k]) <=> x \in ToSet(s) /\ x \in Entry /\ Rank(x.name) = k
    OBVIOUS
  <2>1. q[k] = Kept(s, Ranked(k))
    BY <1>2, RankFacts
  <2>2. x \in ToSet(Kept(s, Ranked(k))) <=> x \in ToSet(s) /\ x \in Ranked(k)
    BY KeptElements
  <2> QED
    BY <2>1, <2>2 DEF Ranked
<1>5. x \in Entry => Rank(x.name) \in 1..Behind
  BY RankFacts
<1> QED
  BY <1>3, <1>4, <1>5, RankFacts

Ordered(s) == \A i, j \in 1..Len(s) : i < j => Rank(s[i].name) <= Rank(s[j].name)

\* To put in front of a sequence what has no higher rank keeps it in order.
LEMMA OrderedConcat ==
    ASSUME NEW s \in Seq(Entry), NEW t \in Seq(Entry), Ordered(s), NEW m \in Nat,
           \A x \in ToSet(s) : Rank(x.name) <= m,
           \A x \in ToSet(t) : Rank(x.name) = m + 1
    PROVE  Ordered(s \o t)
<1>1. PICK u : u = s \o t
  OBVIOUS
<1>2. /\ Len(u) = Len(s) + Len(t) /\ Len(s) \in Nat /\ Len(t) \in Nat
      /\ \A i \in 1..(Len(s) + Len(t)) : u[i] = IF i <= Len(s) THEN s[i] ELSE t[i - Len(s)]
  BY <1>1, ConcatProperties, LenProperties
<1>3. \A i \in 1..Len(s) : s[i] \in ToSet(s)
  BY LenProperties DEF ToSet
<1>4. \A i \in 1..Len(t) : t[i] \in ToSet(t)
  BY LenProperties DEF ToSet
<1>5. \A n : Rank(n) \in Nat
  BY RankFacts
<1>6. ASSUME NEW i \in 1..Len(u), NEW j \in 1..Len(u), i < j
      PROVE  Rank(u[i].name) <= Rank(u[j].name)
  <2>1. i \in 1..(Len(s) + Len(t)) /\ j \in 1..(Len(s) + Len(t))
    BY <1>2
  <2>2. CASE j <= Len(s)
    <3>1. i \in 1..Len(s) /\ j \in 1..Len(s) /\ i <= Len(s)
      BY <1>2, <1>6, <2>1, <2>2
    <3>2. u[i] = s[i] /\ u[j] = s[j]
      BY <1>2, <2>1, <2>2, <3>1
    <3> QED
      BY <1>6, <3>1, <3>2 DEF Ordered
  <2>3. CASE ~(j <= Len(s))
    <3>1. PICK k \in 1..Len(t) : k = j - Len(s)
      BY <1>2, <2>1, <2>3
    <3>2. Rank(u[j].name) = m + 1
      BY <1>2, <1>4, <2>1, <2>3, <3>1
    <3>3. CASE i <= Len(s)
      <4>1. i \in 1..Len(s) /\ u[i] = s[i]
        BY <1>2, <2>1, <3>3
      <4>2. Rank(u[i].name) <= m
        BY <1>3, <4>1
      <4> QED
        BY <1>5, <3>2, <4>2
    <3>4. CASE ~(i <= Len(s))
      <4>1. PICK h \in 1..Len(t) : h = i - Len(s)
        BY <1>2, <2>1, <3>4
      <4>2. Rank(u[i].name) = m + 1
        BY <1>2, <1>4, <2>1, <3>4, <4>1
      <4> QED
        BY <3>2, <4>2
    <3> QED
      BY <3>3, <3>4
  <2> QED
    BY <2>2, <2>3
<1> QED
  BY <1>1, <1>6 DEF Ordered

\* The first i buckets are in order.
LEMMA BucketsOrdered ==
    ASSUME NEW s \in Seq(Entry), NEW f, Sums(f, Buckets(s)), NEW i \in 0..Behind
    PROVE  Ordered(f[i])
<1>1. PICK q : q = Buckets(s)
  OBVIOUS
<1>2. /\ q \in Seq(Seq(Entry)) /\ Len(q) = Behind /\ Behind \in Nat
      /\ \A k \in 1..Behind : q[k] = Kept(s, Ranked(k))
  BY <1>1, BucketFacts, RankFacts
<1> DEFINE Good == {m \in Nat : m <= Behind => Ordered(f[m])}
<1>3. 0 \in Good
  <2>1. f[0] = <<>>
    BY <1>1 DEF Sums
  <2>2. Ordered(<<>>)
    BY DEF Ordered
  <2> QED
    BY <2>1, <2>2
<1>4. ASSUME NEW m \in Nat, m \in Good PROVE m + 1 \in Good
  <2> SUFFICES ASSUME m + 1 <= Behind PROVE Ordered(f[m + 1])
    OBVIOUS
  <2>1. m + 1 \in 1..Len(q) /\ m + 1 \in 1..Behind /\ (m + 1) - 1 = m /\ m \in 0..Len(q) /\ m \in 0..Behind
    BY <1>2
  <2>2. f[m + 1] = f[m] \o q[m + 1]
    BY <1>1, <2>1 DEF Sums
  <2>3. Ordered(f[m])
    BY <1>4, <2>1
  <2>4. f[m] \in Seq(Entry)
    BY <1>1, <1>2, <2>1, SumsType
  <2>5. q[m + 1] \in Seq(Entry)
    BY <1>2, <2>1, ElementOfSeq
  <2>6. \A x \in ToSet(f[m]) : Rank(x.name) <= m
    BY <2>1, BucketElements
  <2>7. \A x \in ToSet(q[m + 1]) : Rank(x.name) = m + 1
    <3>1. \A x \in ToSet(Kept(s, Ranked(m + 1))) : x \in Ranked(m + 1)
      BY KeptElements
    <3>2. q[m + 1] = Kept(s, Ranked(m + 1))
      BY <1>2, <2>1
    <3> QED
      BY <3>1, <3>2 DEF Ranked
  <2>8. PICK a \in Seq(Entry), b \in Seq(Entry) : a = f[m] /\ b = q[m + 1]
    BY <2>4, <2>5
  <2>9. Ordered(a \o b)
    BY <2>3, <2>6, <2>7, <2>8, OrderedConcat
  <2> QED
    BY <2>2, <2>8, <2>9
<1> HIDE DEF Good
<1>5. i \in Nat
  OBVIOUS
<1>6. i \in Good
  BY <1>3, <1>4, <1>5, Induction
<1> QED
  BY <1>2, <1>6 DEF Good

\* The stable sort: what it contains, its order, and that it keeps the order of
\* what is not listed.
LEMMA SortFacts ==
    ASSUME NEW s \in Seq(Entry)
    PROVE  /\ FlattenSeq(Buckets(s)) \in Seq(Entry)
           /\ Ordered(FlattenSeq(Buckets(s)))
           /\ \A x : x \in ToSet(FlattenSeq(Buckets(s))) <=> x \in ToSet(s)
           /\ Kept(FlattenSeq(Buckets(s)), Ranked(Behind)) = Kept(s, Ranked(Behind))
<1>1. PICK q : q = Buckets(s)
  OBVIOUS
<1>2. /\ q \in Seq(Seq(Entry)) /\ Len(q) = Behind /\ Behind \in Nat
      /\ \A k \in 1..Behind : q[k] = Kept(s, Ranked(k))
  BY <1>1, BucketFacts, RankFacts
<1>3. PICK f : Sums(f, q) /\ FlattenSeq(q) = f[Len(q)]
  BY <1>2, FlatSums
<1>4. PICK t : t = f[Behind] /\ FlattenSeq(Buckets(s)) = t
  BY <1>1, <1>2, <1>3
<1>5. Behind \in 0..Behind
  BY <1>2
<1>6. t \in Seq(Entry)
  BY <1>2, <1>3, <1>4, FlatType
<1>7. Ordered(t)
  BY <1>1, <1>3, <1>4, <1>5, BucketsOrdered
<1>8. ASSUME NEW x PROVE x \in ToSet(t) <=> x \in ToSet(s)
  <2>1. x \in ToSet(t) <=> x \in ToSet(s) /\ x \in Entry /\ Rank(x.name) <= Behind
    BY <1>1, <1>3, <1>4, <1>5, BucketElements
  <2>2. x \in ToSet(s) => x \in Entry
    BY LenProperties, ElementOfSeq DEF ToSet
  <2>3. Rank(x.name) <= Behind
    BY RankFacts
  <2> QED
    BY <2>1, <2>2, <2>3
<1>9. Kept(t, Ranked(Behind)) = Kept(s, Ranked(Behind))
  <2>1. PICK m \in Nat : m + 1 = Behind
    <3>1. Len(Priority) \in Nat
      BY RankFacts
    <3> QED
      BY <3>1 DEF Behind
  <2>2. m \in 0..Behind /\ Behind \in 1..Len(q) /\ Behind - 1 = m /\ m \in 0..Len(q) /\ Behind \in 1..Behind
    <3>1. PICK n : n = Behind
      OBVIOUS
    <3>2. n \in Nat /\ m + 1 = n
      BY <1>2, <2>1, <3>1
    <3>3. m \in 0..n /\ n \in 1..n /\ n - 1 = m
      BY <3>2
    <3>4. Len(q) = n
      BY <1>2, <3>1
    <3> QED
      BY <3>1, <3>3, <3>4
  <2>3. PICK a, b : a = f[m] /\ b = Kept(s, Ranked(Behind))
    OBVIOUS
  <2>4. a \in Seq(Entry) /\ b \in Seq(Entry)
    <3>1. f[m] \in Seq(Entry)
      BY <1>2, <1>3, <2>2, SumsType
    <3>2. Kept(s, Ranked(Behind)) \in Seq(Entry)
      BY KeptType
    <3> QED
      BY <2>3, <3>1, <3>2
  <2>5. t = a \o b
    <3>1. f[Behind] = f[m] \o q[Behind]
      BY <1>3, <2>2 DEF Sums
    <3> QED
      BY <1>2, <1>4, <2>2, <2>3, <3>1
  <2>6. \A x \in ToSet(a) : x \notin Ranked(Behind)
    <3> SUFFICES ASSUME NEW x \in ToSet(a) PROVE x \notin Ranked(Behind)
      OBVIOUS
    <3>1. Rank(x.name) <= m
      BY <1>1, <1>3, <2>2, <2>3, BucketElements
    <3> QED
      BY <2>1, <3>1 DEF Ranked
  <2>7. Kept(a, Ranked(Behind)) = <<>>
    BY <2>4, <2>6, KeptNone
  <2>8. \A x \in ToSet(b) : x \in Ranked(Behind)
    BY <2>3, KeptElements
  <2>9. Kept(b, Ranked(Behind)) = b
    BY <2>4, <2>8, KeptAll
  <2>10. Kept(a \o b, Ranked(Behind)) = Kept(a, Ranked(Behind)) \o Kept(b, Ranked(Behind))
    BY <2>4, KeptConcat
  <2>11. <<>> \o b = b
    BY <2>4, ConcatEmptySeq
  <2> QED
    BY <2>3, <2>5, <2>7, <2>9, <2>10, <2>11
<1> QED
  BY <1>4, <1>6, <1>7, <1>8, <1>9

----------------------------------------------------------------------------
(* Groups in groups.  expandMiddlewareNames ends because the names it is inside *)
(* of become more: facts about it are proved by induction on how many are left.  *)

Inside(n) == Elements(members[n])

LEMMA InsideType ==
    ASSUME StackInv, NEW n \in Name
    PROVE  /\ Inside(n) = asked.members[n] /\ Inside(n) \in Seq(Entry)
           /\ Len(Inside(n)) \in Nat /\ DOMAIN Inside(n) = 1..Len(Inside(n))
           /\ \A k \in 1..Len(Inside(n)) : Inside(n)[k] \in Entry
<1>1. Inside(n) = asked.members[n] /\ Inside(n) \in Seq(Entry)
  BY ListOf DEF Inside
<1>2. PICK s \in Seq(Entry) : s = Inside(n)
  BY <1>1
<1>3. Len(s) \in Nat /\ DOMAIN s = 1..Len(s) /\ \A k \in 1..Len(s) : s[k] \in Entry
  BY LenProperties, ElementOfSeq
<1> QED
  BY <1>1, <1>2, <1>3

LEMMA Fewer ==
    ASSUME NEW v \in SUBSET Name, NEW n \in Name, n \notin v
    PROVE  /\ v \cup {n} \in SUBSET Name
           /\ Cardinality(Name \ v) \in Nat /\ Cardinality(Name \ (v \cup {n})) \in Nat
           /\ Cardinality(Name \ (v \cup {n})) + 1 = Cardinality(Name \ v)
<1>1. PICK S : S = Name \ v
  OBVIOUS
<1>2. IsFiniteSet(S)
  <2>1. IsFiniteSet(Name) /\ S \in SUBSET Name
    BY <1>1, NameAssumption
  <2> QED
    BY <2>1, FS_Subset
<1>3. IsFiniteSet(S \ {n}) /\ Cardinality(S \ {n}) = Cardinality(S) - 1
  <2>1. n \in S
    BY <1>1
  <2> QED
    BY <1>2, <2>1, FS_RemoveElement
<1>4. Cardinality(S) \in Nat /\ Cardinality(S \ {n}) \in Nat
  BY <1>2, <1>3, FS_CardinalityType
<1>5. S \ {n} = Name \ (v \cup {n})
  BY <1>1
<1>6. Cardinality(S \ {n}) + 1 = Cardinality(S)
  BY <1>3, <1>4
<1> QED
  BY <1>1, <1>4, <1>5, <1>6

LEMMA NamesLeft ==
    ASSUME NEW v \in SUBSET Name
    PROVE  /\ Cardinality(Name \ v) \in Nat
           /\ Cardinality(Name \ v) <= Cardinality(Name)
           /\ Cardinality(Name) \in Nat
           /\ Cardinality(Name \ v) <= 0 => \A n \in Name : n \in v
<1>1. IsFiniteSet(Name)
  BY NameAssumption
<1>2. PICK S \in SUBSET Name : S = Name \ v
  OBVIOUS
<1>3. IsFiniteSet(S) /\ Cardinality(S) <= Cardinality(Name)
  BY <1>1, FS_Subset
<1>4. Cardinality(S) \in Nat /\ Cardinality(Name) \in Nat
  BY <1>1, <1>3, FS_CardinalityType
<1>5. Cardinality(S) = 0 => S = {}
  BY <1>3, FS_EmptySet
<1> QED
  BY <1>2, <1>3, <1>4, <1>5

\* One step of the recursion in Expanded.
Branches(f, v, e) == [k \in DOMAIN Inside(e.name) |-> f[v \cup {e.name}][Inside(e.name)[k]]]
Unfold(f, v, e) == IF e.name \in named \ v THEN FlattenSeq(Branches(f, v, e)) ELSE <<e>>
Unfolds(f) == f = [v \in SUBSET Name |-> [e \in Entry |-> Unfold(f, v, e)]]

\* f solves the recursion where at most m names are left.
UnfoldsTo(f, m) ==
    \A v \in SUBSET Name, e \in Entry :
        Cardinality(Name \ v) <= m => f[v][e] = Unfold(f, v, e)

LEMMA UnfoldFurther ==
    ASSUME StackInv, NEW m \in Nat, NEW f, UnfoldsTo(f, m)
    PROVE  \E g : UnfoldsTo(g, m + 1)
<1> DEFINE g == [v \in SUBSET Name |-> [e \in Entry |->
                    IF Cardinality(Name \ v) <= m THEN f[v][e] ELSE Unfold(f, v, e)]]
<1>1. \A v \in SUBSET Name, e \in Entry :
          g[v][e] = IF Cardinality(Name \ v) <= m THEN f[v][e] ELSE Unfold(f, v, e)
  OBVIOUS
<1> HIDE DEF g
<1>2. ASSUME NEW v \in SUBSET Name, NEW e \in Entry, Cardinality(Name \ v) <= m + 1
      PROVE  g[v][e] = Unfold(g, v, e)
  <2>1. Unfold(g, v, e) = Unfold(f, v, e)
    <3>1. CASE e.name \in named \ v
      <4>1. e.name \in Name /\ e.name \notin v
        BY <3>1 DEF Entry
      <4>2. PICK w \in SUBSET Name : w = v \cup {e.name} /\ Cardinality(Name \ w) <= m
        <5>1. PICK w : w = v \cup {e.name}
          OBVIOUS
        <5>2. /\ w \in SUBSET Name
              /\ Cardinality(Name \ v) \in Nat /\ Cardinality(Name \ w) \in Nat
              /\ Cardinality(Name \ w) + 1 = Cardinality(Name \ v)
          BY <4>1, <5>1, Fewer
        <5>3. Cardinality(Name \ w) <= m
          BY <1>2, <5>2
        <5> QED
          BY <5>1, <5>2, <5>3
      <4>3. \A k \in DOMAIN Inside(e.name) : g[w][Inside(e.name)[k]] = f[w][Inside(e.name)[k]]
        <5>1. \A k \in DOMAIN Inside(e.name) : Inside(e.name)[k] \in Entry
          BY <4>1, InsideType
        <5> QED
          BY <1>1, <4>2, <5>1
      <4>4. Branches(g, v, e) = Branches(f, v, e)
        BY <4>2, <4>3 DEF Branches
      <4> QED
        BY <4>4 DEF Unfold
    <3>2. CASE e.name \notin named \ v
      BY <3>2 DEF Unfold
    <3> QED
      BY <3>1, <3>2
  <2>2. g[v][e] = Unfold(f, v, e)
    BY <1>1 DEF UnfoldsTo
  <2> QED
    BY <2>1, <2>2
<1>3. UnfoldsTo(g, m + 1)
  BY <1>2 DEF UnfoldsTo
<1> QED
  BY <1>3

LEMMA SomeUnfolds ==
    ASSUME StackInv
    PROVE  \E f : Unfolds(f)
<1> DEFINE Good == {m \in Nat : \E f : UnfoldsTo(f, m)}
<1>1. 0 \in Good
  <2> DEFINE f == [v \in SUBSET Name |-> [e \in Entry |-> <<e>>]]
  <2>1. ASSUME NEW v \in SUBSET Name, NEW e \in Entry, Cardinality(Name \ v) <= 0
        PROVE  f[v][e] = Unfold(f, v, e)
    <3>1. e.name \in v
      BY <2>1, NamesLeft DEF Entry
    <3> QED
      BY <3>1 DEF Unfold
  <2> HIDE DEF f
  <2>2. UnfoldsTo(f, 0)
    BY <2>1 DEF UnfoldsTo
  <2> QED
    BY <2>2
<1>2. ASSUME NEW m \in Nat, m \in Good PROVE m + 1 \in Good
  <2>1. PICK f : UnfoldsTo(f, m)
    BY <1>2
  <2>2. \E g : UnfoldsTo(g, m + 1)
    BY <2>1, UnfoldFurther
  <2> QED
    BY <2>2
<1> HIDE DEF Good
<1>3. Cardinality(Name) \in Nat
  BY NamesLeft
<1>4. Cardinality(Name) \in Good
  BY <1>1, <1>2, <1>3, Induction
<1>5. PICK f : UnfoldsTo(f, Cardinality(Name))
  BY <1>4 DEF Good
<1> DEFINE g == [v \in SUBSET Name |-> [e \in Entry |-> f[v][e]]]
<1>6. \A v \in SUBSET Name, e \in Entry : g[v][e] = f[v][e]
  OBVIOUS
<1>7. g = [v \in SUBSET Name |-> [e \in Entry |-> g[v][e]]]
  OBVIOUS
<1> HIDE DEF g
<1>8. ASSUME NEW v \in SUBSET Name, NEW e \in Entry PROVE g[v][e] = Unfold(g, v, e)
  <2>1. f[v][e] = Unfold(f, v, e)
    BY <1>5, NamesLeft DEF UnfoldsTo
  <2>2. Unfold(g, v, e) = Unfold(f, v, e)
    <3>1. CASE e.name \in named \ v
      <4>1. e.name \in Name
        BY DEF Entry
      <4>2. PICK w \in SUBSET Name : w = v \cup {e.name}
        BY <4>1
      <4>3. \A k \in DOMAIN Inside(e.name) : Inside(e.name)[k] \in Entry
        BY <4>1, InsideType
      <4>4. \A k \in DOMAIN Inside(e.name) : g[w][Inside(e.name)[k]] = f[w][Inside(e.name)[k]]
        BY <1>6, <4>2, <4>3
      <4>5. Branches(g, v, e) = Branches(f, v, e)
        BY <4>2, <4>4 DEF Branches
      <4> QED
        BY <4>5 DEF Unfold
    <3>2. CASE e.name \notin named \ v
      BY <3>2 DEF Unfold
    <3> QED
      BY <3>1, <3>2
  <2> QED
    BY <1>6, <2>1, <2>2
<1>9. Unfolds(g)
  BY <1>7, <1>8 DEF Unfolds
<1> QED
  BY <1>9

\* The recursion of expandMiddlewareNames, and what it gives for a list.
LEMMA ExpandedUnfolds ==
    ASSUME StackInv, NEW xs
    PROVE  \E f : Unfolds(f) /\ Expanded(xs) = FlattenSeq([k \in DOMAIN xs |-> f[{}][xs[k]]])
<1>1. \E f : Unfolds(f)
  BY SomeUnfolds
<1> DEFINE f == CHOOSE h : h = [visiting \in SUBSET Name |-> [e \in Entry |->
                IF e.name \in named \ visiting
                THEN FlattenSeq([k \in DOMAIN Elements(members[e.name]) |->
                                    h[visiting \cup {e.name}][Elements(members[e.name])[k]]])
                ELSE <<e>>]]
<1>2. f = [visiting \in SUBSET Name |-> [e \in Entry |->
                IF e.name \in named \ visiting
                THEN FlattenSeq([k \in DOMAIN Elements(members[e.name]) |->
                                    f[visiting \cup {e.name}][Elements(members[e.name])[k]]])
                ELSE <<e>>]]
  BY <1>1 DEF Unfolds, Unfold, Branches, Inside
<1>3. Expanded(xs) = FlattenSeq([k \in DOMAIN xs |-> f[{}][xs[k]]])
  BY DEF Expanded
<1> HIDE DEF f
<1>4. Unfolds(f)
  BY <1>2 DEF Unfolds, Unfold, Branches, Inside
<1> QED
  BY <1>3, <1>4

\* C holds a and not n, and the members of each of its groups outside v.
Avoids(C, v, a, n) ==
    /\ C \in SUBSET Name /\ a \in C /\ n \notin C
    /\ \A z \in C \ v : Mentions(z) \subseteq C

\* What an entry unfolds to: the types, that it mentions only what a closed set with
\* its name holds, and that it lacks a name only if some set shows it out of reach.
Spread(f, v, e) ==
    /\ f[v][e] \in Seq(Entry)
    /\ \A C \in Closed : e.name \in C => \A x \in ToSet(f[v][e]) : x.name \in C
    /\ \A n \in Name \ named :
           (\A x \in ToSet(f[v][e]) : x.name # n) => \E C : Avoids(C, v, e.name, n)

LEMMA NamesAre ==
    ASSUME NEW s \in Seq(Entry), NEW n
    PROVE  n \in NamesIn(s) <=> \E x \in ToSet(s) : x.name = n
  BY DEF NamesIn, ToSet

\* A spec that is no group, or one that is being expanded.
LEMMA SpreadLeaf ==
    ASSUME NEW f, NEW v \in SUBSET Name, NEW e \in Entry,
           e.name \notin named \ v, f[v][e] = <<e>>
    PROVE  Spread(f, v, e)
<1>1. \A x : x \in ToSet(<<e>>) <=> x = e
  BY DEF ToSet
<1>2. <<e>> \in Seq(Entry)
  OBVIOUS
<1>3. ASSUME NEW n \in Name \ named, \A x \in ToSet(<<e>>) : x.name # n
      PROVE  \E C : Avoids(C, v, e.name, n)
  <2>1. e.name \in Name /\ e.name # n
    BY <1>1, <1>3 DEF Entry
  <2>2. e.name \notin v => Mentions(e.name) = {}
    BY DEF Mentions
  <2>3. Avoids({e.name}, v, e.name, n)
    BY <2>1, <2>2 DEF Avoids
  <2> QED
    BY <2>3
<1> QED
  BY <1>1, <1>2, <1>3 DEF Spread

\* Inside the group a, v becomes w, and what a holds unfolds as it should.
InsideSpread(f, v, w, a) ==
    /\ w = v \cup {a}
    /\ \A k \in 1..Len(Inside(a)) : Spread(f, w, Inside(a)[k])

LEMMA BranchesType ==
    ASSUME StackInv, NEW f, NEW v \in SUBSET Name, NEW e \in Entry, NEW w,
           InsideSpread(f, v, w, e.name)
    PROVE  /\ Branches(f, v, e) \in Seq(Seq(Entry))
           /\ Len(Branches(f, v, e)) = Len(Inside(e.name))
           /\ \A k \in 1..Len(Inside(e.name)) : Branches(f, v, e)[k] = f[w][Inside(e.name)[k]]
<1>1. e.name \in Name
  BY DEF Entry
<1>2. Len(Inside(e.name)) \in Nat /\ DOMAIN Inside(e.name) = 1..Len(Inside(e.name))
  BY <1>1, InsideType
<1>3. \A k \in 1..Len(Inside(e.name)) : f[w][Inside(e.name)[k]] \in Seq(Entry)
  BY DEF Spread, InsideSpread
<1>4. Branches(f, v, e) = [k \in 1..Len(Inside(e.name)) |-> f[w][Inside(e.name)[k]]]
  BY <1>2 DEF Branches, InsideSpread
<1>5. Branches(f, v, e) \in [1..Len(Inside(e.name)) -> Seq(Entry)]
  BY <1>3, <1>4
<1>6. Branches(f, v, e) \in Seq(Seq(Entry)) /\ Len(Branches(f, v, e)) = Len(Inside(e.name))
  BY <1>2, <1>5, FunctionIsSeq
<1> QED
  BY <1>4, <1>6

\* The names inside a group are those it mentions.
LEMMA InsideNames ==
    ASSUME StackInv, NEW a \in Name, a \in named
    PROVE  /\ \A k \in 1..Len(Inside(a)) : Inside(a)[k].name \in Mentions(a)
           /\ \A n \in Mentions(a) : \E k \in 1..Len(Inside(a)) : Inside(a)[k].name = n
<1>1. Mentions(a) = NamesIn(Inside(a))
  BY InsideType DEF Mentions
<1>2. DOMAIN Inside(a) = 1..Len(Inside(a))
  BY InsideType
<1> QED
  BY <1>1, <1>2 DEF NamesIn

\* A group that is not being expanded.
LEMMA SpreadGroup ==
    ASSUME StackInv, NEW f, NEW v \in SUBSET Name, NEW e \in Entry, NEW w,
           e.name \in named \ v, f[v][e] = FlattenSeq(Branches(f, v, e)),
           InsideSpread(f, v, w, e.name)
    PROVE  Spread(f, v, e)
<1>1. PICK q : q = Branches(f, v, e)
  OBVIOUS
<1>2. PICK s : s = Inside(e.name)
  OBVIOUS
<1>3. /\ q \in Seq(Seq(Entry)) /\ Len(q) = Len(s)
      /\ \A k \in 1..Len(s) : q[k] = f[w][s[k]]
  <2>1. /\ Branches(f, v, e) \in Seq(Seq(Entry))
        /\ Len(Branches(f, v, e)) = Len(Inside(e.name))
        /\ \A k \in 1..Len(Inside(e.name)) : Branches(f, v, e)[k] = f[w][Inside(e.name)[k]]
    BY BranchesType
  <2> QED
    BY <1>1, <1>2, <2>1
<1>4. PICK a \in Name : a = e.name /\ a \in named /\ a \notin v /\ w = v \cup {a}
  BY DEF Entry, InsideSpread
<1>5. /\ \A k \in 1..Len(s) : s[k].name \in Mentions(a)
      /\ \A n \in Mentions(a) : \E k \in 1..Len(s) : s[k].name = n
  BY <1>2, <1>4, InsideNames
<1>6. \A k \in 1..Len(s) : Spread(f, w, s[k])
  BY <1>2 DEF InsideSpread
<1>7. f[v][e] \in Seq(Entry)
  BY <1>1, <1>3, FlatType
<1>8. \A x : x \in ToSet(f[v][e]) <=> \E k \in 1..Len(s) : x \in ToSet(f[w][s[k]])
  <2> SUFFICES ASSUME NEW x
               PROVE  x \in ToSet(f[v][e]) <=> \E k \in 1..Len(s) : x \in ToSet(f[w][s[k]])
    OBVIOUS
  <2>1. x \in ToSet(FlattenSeq(q)) <=> \E k \in 1..Len(q) : x \in ToSet(q[k])
    BY <1>3, FlatElements
  <2> QED
    BY <1>1, <1>3, <2>1
<1>9. ASSUME NEW C \in Closed, a \in C, NEW x \in ToSet(f[v][e]) PROVE x.name \in C
  <2>1. PICK k \in 1..Len(s) : x \in ToSet(f[w][s[k]])
    BY <1>8
  <2>2. s[k].name \in C
    BY <1>5, <1>9 DEF Closed
  <2> QED
    BY <1>6, <2>1, <2>2 DEF Spread
<1>10. ASSUME NEW n \in Name \ named, \A x \in ToSet(f[v][e]) : x.name # n
       PROVE  \E C : Avoids(C, v, a, n)
  <2> DEFINE D == {z \in Name : z = a \/ \E k \in 1..Len(s), C \in SUBSET Name :
                                             Avoids(C, w, s[k].name, n) /\ z \in C}
  <2>1. a \in D /\ n \notin D
    BY <1>4 DEF Avoids
  <2>2. ASSUME NEW k \in 1..Len(s) PROVE s[k].name \in D
    <3>1. \A x \in ToSet(f[w][s[k]]) : x.name # n
      BY <1>8, <1>10
    <3>2. PICK C : Avoids(C, w, s[k].name, n)
      BY <1>6, <3>1 DEF Spread
    <3>3. C \in SUBSET Name /\ s[k].name \in C /\ s[k].name \in Name
      BY <3>2 DEF Avoids
    <3>4. PICK x \in Name : x = s[k].name
      BY <3>3
    <3>5. Avoids(C, w, s[k].name, n) /\ x \in C
      BY <3>2, <3>3, <3>4
    <3>6. \E j \in 1..Len(s), B \in SUBSET Name : Avoids(B, w, s[j].name, n) /\ x \in B
      BY <3>3, <3>5
    <3>7. x \in D
      BY <3>6
    <3> QED
      BY <3>4, <3>7
  <2>3. Mentions(a) \subseteq D
    BY <1>5, <2>2
  <2>4. ASSUME NEW z \in D, z \notin v, z # a PROVE Mentions(z) \subseteq D
    <3>1. PICK k \in 1..Len(s), C \in SUBSET Name : Avoids(C, w, s[k].name, n) /\ z \in C
      BY <2>4
    <3>2. Mentions(z) \subseteq C
      BY <1>4, <2>4, <3>1 DEF Avoids
    <3> QED
      BY <3>1, <3>2
  <2>5. D \in SUBSET Name
    OBVIOUS
  <2> HIDE DEF D
  <2>6. Avoids(D, v, a, n)
    BY <2>1, <2>3, <2>4, <2>5 DEF Avoids
  <2> QED
    BY <2>6
<1> QED
  BY <1>4, <1>7, <1>9, <1>10 DEF Spread

LEMMA AllSpread ==
    ASSUME StackInv, NEW f, Unfolds(f)
    PROVE  \A v \in SUBSET Name, e \in Entry : Spread(f, v, e)
<1>1. \A v \in SUBSET Name, e \in Entry : f[v][e] = Unfold(f, v, e)
  BY DEF Unfolds
<1> DEFINE Good == {m \in Nat : \A v \in SUBSET Name, e \in Entry :
                                    Cardinality(Name \ v) <= m => Spread(f, v, e)}
<1>2. 0 \in Good
  <2>1. ASSUME NEW v \in SUBSET Name, NEW e \in Entry, Cardinality(Name \ v) <= 0
        PROVE  Spread(f, v, e)
    <3>1. e.name \in v
      BY <2>1, NamesLeft DEF Entry
    <3>2. f[v][e] = <<e>>
      BY <1>1, <3>1 DEF Unfold
    <3> QED
      BY <3>1, <3>2, SpreadLeaf
  <2> QED
    BY <2>1
<1>3. ASSUME NEW m \in Nat, m \in Good PROVE m + 1 \in Good
  <2>1. ASSUME NEW v \in SUBSET Name, NEW e \in Entry, Cardinality(Name \ v) <= m + 1
        PROVE  Spread(f, v, e)
    <3>1. CASE e.name \in named \ v
      <4>1. e.name \in Name /\ e.name \notin v
        BY <3>1 DEF Entry
      <4>2. PICK w : w = v \cup {e.name}
        OBVIOUS
      <4>3. /\ w \in SUBSET Name
            /\ Cardinality(Name \ v) \in Nat /\ Cardinality(Name \ w) \in Nat
            /\ Cardinality(Name \ w) + 1 = Cardinality(Name \ v)
        BY <4>1, <4>2, Fewer
      <4>4. Cardinality(Name \ w) <= m
        BY <2>1, <4>3
      <4>5. \A x \in Entry : Spread(f, w, x)
        BY <1>3, <4>3, <4>4
      <4>6. \A k \in 1..Len(Inside(e.name)) : Inside(e.name)[k] \in Entry
        BY <4>1, InsideType
      <4>7. \A k \in 1..Len(Inside(e.name)) : Spread(f, w, Inside(e.name)[k])
        BY <4>5, <4>6
      <4>8. f[v][e] = FlattenSeq(Branches(f, v, e))
        BY <1>1, <3>1 DEF Unfold
      <4> QED
        <5>1. InsideSpread(f, v, w, e.name)
          BY <4>2, <4>7 DEF InsideSpread
        <5> QED
          BY <3>1, <4>8, <5>1, SpreadGroup
    <3>2. CASE e.name \notin named \ v
      <4>1. f[v][e] = <<e>>
        BY <1>1, <3>2 DEF Unfold
      <4> QED
        BY <3>2, <4>1, SpreadLeaf
    <3> QED
      BY <3>1, <3>2
  <2> QED
    BY <2>1
<1> HIDE DEF Good
<1>4. Cardinality(Name) \in Nat
  BY NamesLeft
<1>5. Cardinality(Name) \in Good
  BY <1>2, <1>3, <1>4, Induction
<1> QED
  BY <1>5, NamesLeft DEF Good

\* The middleware of a list of specs: their types, and which of them are no groups.
LEMMA ExpandedFacts ==
    ASSUME StackInv, NEW xs \in Seq(Entry)
    PROVE  /\ Expanded(xs) \in Seq(Entry)
           /\ \A n \in Name \ named :
                  n \in Reached(NamesIn(xs)) <=> \E x \in ToSet(Expanded(xs)) : x.name = n
<1>1. PICK f : Unfolds(f) /\ Expanded(xs) = FlattenSeq([k \in DOMAIN xs |-> f[{}][xs[k]]])
  BY ExpandedUnfolds
<1>2. \A e \in Entry : Spread(f, {}, e)
  BY <1>1, AllSpread
<1>3. /\ Len(xs) \in Nat /\ DOMAIN xs = 1..Len(xs) /\ \A k \in 1..Len(xs) : xs[k] \in Entry
  BY LenProperties, ElementOfSeq
<1>4. PICK q : q = [k \in DOMAIN xs |-> f[{}][xs[k]]]
  OBVIOUS
<1>5. /\ q \in [1..Len(xs) -> Seq(Entry)]
      /\ \A k \in 1..Len(xs) : q[k] = f[{}][xs[k]]
  BY <1>2, <1>3, <1>4 DEF Spread
<1>6. q \in Seq(Seq(Entry)) /\ Len(q) = Len(xs)
  BY <1>3, <1>5, FunctionIsSeq
<1>7. Expanded(xs) \in Seq(Entry)
  BY <1>1, <1>4, <1>6, FlatType
<1>8. ASSUME NEW x
      PROVE  x \in ToSet(Expanded(xs)) <=> \E k \in 1..Len(xs) : x \in ToSet(f[{}][xs[k]])
  <2>1. x \in ToSet(FlattenSeq(q)) <=> \E k \in 1..Len(q) : x \in ToSet(q[k])
    BY <1>6, FlatElements
  <2> QED
    BY <1>1, <1>4, <1>5, <1>6, <2>1
<1>9. \A k \in 1..Len(xs) : xs[k].name \in NamesIn(xs)
  BY <1>3 DEF NamesIn
<1>10. \A n \in NamesIn(xs) : \E k \in 1..Len(xs) : xs[k].name = n
  BY <1>3 DEF NamesIn
<1>11. ASSUME NEW n \in Name, NEW x \in ToSet(Expanded(xs)), x.name = n
       PROVE  n \in Reached(NamesIn(xs))
  <2>1. PICK k \in 1..Len(xs) : x \in ToSet(f[{}][xs[k]])
    BY <1>8
  <2>2. ASSUME NEW C \in Closed, NamesIn(xs) \subseteq C PROVE n \in C
    <3>1. xs[k].name \in C /\ xs[k] \in Entry
      BY <1>3, <1>9, <2>2
    <3> QED
      BY <1>2, <1>11, <2>1, <3>1 DEF Spread
  <2> QED
    BY <2>2 DEF Reached
<1>12. ASSUME NEW n \in Name \ named, n \in Reached(NamesIn(xs)),
              \A x \in ToSet(Expanded(xs)) : x.name # n
       PROVE  FALSE
  <2> DEFINE D == {z \in Name : \E k \in 1..Len(xs), C \in SUBSET Name :
                                    Avoids(C, {}, xs[k].name, n) /\ z \in C}
  <2>1. n \notin D
    BY DEF Avoids
  <2>2. ASSUME NEW k \in 1..Len(xs) PROVE xs[k].name \in D
    <3>1. \A x \in ToSet(f[{}][xs[k]]) : x.name # n
      BY <1>8, <1>12
    <3>2. PICK C : Avoids(C, {}, xs[k].name, n)
      BY <1>2, <1>3, <3>1 DEF Spread
    <3>3. C \in SUBSET Name /\ xs[k].name \in C
      BY <3>2 DEF Avoids
    <3> QED
      BY <3>2, <3>3
  <2>3. ASSUME NEW z \in D PROVE Mentions(z) \subseteq D
    <3>1. PICK k \in 1..Len(xs), C \in SUBSET Name : Avoids(C, {}, xs[k].name, n) /\ z \in C
      OBVIOUS
    <3>2. Mentions(z) \subseteq C
      BY <3>1 DEF Avoids
    <3> QED
      BY <3>1, <3>2
  <2>4. D \in SUBSET Name
    OBVIOUS
  <2> HIDE DEF D
  <2>5. D \in Closed
    BY <2>3, <2>4 DEF Closed
  <2>6. NamesIn(xs) \subseteq D
    BY <1>10, <2>2
  <2> QED
    BY <1>12, <2>1, <2>5, <2>6 DEF Reached
<1> QED
  BY <1>7, <1>11, <1>12

----------------------------------------------------------------------------
(* What a route runs *)

\* Block attaches nothing but its own middleware.
DirectInv == direct \in Seq(Seq({"block"})) /\ Len(direct) = Len(routes)

LEMMA DirectStep ==
    ASSUME StackInv, DirectInv, [Next]_vars
    PROVE  DirectInv'
<1>1. /\ direct \in Seq(Seq({"block"})) /\ Len(direct) = Len(routes)
      /\ routes \in Seq(Slice) /\ DOMAIN routes = 1..Len(routes) /\ DOMAIN direct = 1..Len(direct)
  BY LenProperties DEF StackInv, ListTypes, DirectInv
<1>2. ASSUME UNCHANGED direct, Len(routes') = Len(routes) PROVE DirectInv'
  BY <1>1, <1>2 DEF DirectInv
<1>3. ASSUME NEW xs, NewGroup(xs) PROVE DirectInv'
  BY <1>2, <1>3 DEF NewGroup
<1>4. ASSUME NEW xs, NEW g, SubGroup(g, xs) PROVE DirectInv'
  BY <1>2, <1>4 DEF SubGroup
<1>5. ASSUME NEW g, AddRoute(g) PROVE DirectInv'
  <2>1. direct' = Append(direct, <<>>) /\ \E slice : routes' = Append(routes, slice)
    BY <1>5 DEF AddRoute
  <2>2. <<>> \in Seq({"block"})
    OBVIOUS
  <2>3. direct' \in Seq(Seq({"block"})) /\ Len(direct') = Len(direct) + 1
    BY <1>1, <2>1, <2>2, AppendProperties
  <2>4. Len(routes') = Len(routes) + 1
    BY <1>1, <2>1
  <2> QED
    BY <1>1, <2>3, <2>4 DEF DirectInv
<1>6. ASSUME NEW r \in DOMAIN routes, NEW xs, Middleware(r, xs) PROVE DirectInv'
  <2>1. UNCHANGED direct /\ \E slice : routes' = [routes EXCEPT ![r] = slice]
    BY <1>6 DEF Middleware
  <2>2. Len(routes') = Len(routes)
    BY <1>1, <2>1
  <2> QED
    BY <1>2, <2>1, <2>2
<1>7. ASSUME NEW action, NEW r \in DOMAIN routes, ApplyControllerMiddleware(r, action)
      PROVE  DirectInv'
  BY <1>6, <1>7 DEF ApplyControllerMiddleware
<1>8. ASSUME NEW xs, NEW r, WithoutMiddleware(r, xs) PROVE DirectInv'
  BY <1>2, <1>8 DEF WithoutMiddleware
<1>9. ASSUME NEW r \in DOMAIN routes, WithMiddleware(r) PROVE DirectInv'
  <2>1. direct' = [direct EXCEPT ![r] = Append(@, "block")] /\ UNCHANGED routes
    BY <1>9 DEF WithMiddleware
  <2>2. direct[r] \in Seq({"block"})
    BY <1>1, ElementOfSeq
  <2>3. PICK own : own = Append(direct[r], "block") /\ own \in Seq({"block"})
    BY <2>2, AppendProperties
  <2>4. direct' = [direct EXCEPT ![r] = own]
    BY <2>1, <2>3
  <2>5. direct' \in Seq(Seq({"block"})) /\ Len(direct') = Len(direct)
    BY <1>1, <2>3, <2>4, ExceptSeq
  <2> QED
    BY <1>1, <2>1, <2>5 DEF DirectInv
<1>10. ASSUME NEW n, NEW xs, MiddlewareGroup(n, xs) PROVE DirectInv'
  BY <1>2, <1>10 DEF MiddlewareGroup
<1>11. ASSUME NEW n, AliasMiddleware(n) PROVE DirectInv'
  BY <1>2, <1>11 DEF AliasMiddleware
<1>12. CASE UNCHANGED vars
  BY <1>2, <1>12 DEF vars
<1> QED
  BY <1>3, <1>4, <1>5, <1>6, <1>7, <1>8, <1>9, <1>10, <1>11, <1>12 DEF Next

LEMMA RoutesHold == Spec => [](StackInv /\ DirectInv)
<1>1. Init => StackInv /\ DirectInv
  BY StackInit DEF Init, DirectInv
<1> QED
  BY <1>1, StackStep, DirectStep, PTL DEF Spec

Direct(r) == [k \in DOMAIN direct[r] |-> [name |-> direct[r][k], param |-> Plain]]
Runnable(r) == {e \in Entry : ~Excluded(r, e) /\ Known(e.name)}

LEMMA DirectFacts ==
    ASSUME DirectInv, NEW r \in 1..Len(routes)
    PROVE  /\ Direct(r) \in Seq(Entry)
           /\ \A x \in ToSet(Direct(r)) : x.name = "block"
           /\ direct[r] # <<>> => \E x \in ToSet(Direct(r)) : x.name = "block"
<1>1. PICK s \in Seq({"block"}) : s = direct[r]
  <2>1. PICK ds \in Seq(Seq({"block"})) : ds = direct
    BY DEF DirectInv
  <2>2. r \in 1..Len(ds)
    BY <2>1 DEF DirectInv
  <2>3. ds[r] \in Seq({"block"})
    BY <2>2, ElementOfSeq
  <2> QED
    BY <2>1, <2>3
<1>2. Len(s) \in Nat /\ DOMAIN s = 1..Len(s) /\ \A k \in 1..Len(s) : s[k] = "block"
  BY LenProperties, ElementOfSeq
<1>3. "block" \in Name
  BY NameAssumption
<1>4. PICK b \in Entry : b = [name |-> "block", param |-> Plain] /\ b.name = "block"
  <2>1. PICK w \in Name : w = "block"
    BY <1>3
  <2>2. [name |-> w, param |-> Plain] \in Entry
    BY DEF Entry
  <2>3. [name |-> w, param |-> Plain].name = w
    OBVIOUS
  <2> QED
    BY <2>1, <2>2, <2>3
<1>5. Direct(r) = [k \in 1..Len(s) |-> b]
  BY <1>1, <1>2, <1>4 DEF Direct
<1>6. Direct(r) \in Seq(Entry) /\ Len(Direct(r)) = Len(s)
  BY <1>2, <1>5, FunctionIsSeq
<1>7. \A x \in ToSet(Direct(r)) : x.name = "block"
  BY <1>4, <1>5 DEF ToSet
<1>8. ASSUME s # <<>> PROVE \E x \in ToSet(Direct(r)) : x.name = "block"
  <2>1. 1 \in 1..Len(s)
    BY <1>2, <1>8, EmptySeq
  <2>2. b \in ToSet(Direct(r))
    BY <1>5, <2>1 DEF ToSet
  <2> QED
    BY <1>4, <2>2
<1> QED
  BY <1>1, <1>6, <1>7, <1>8

\* What a route has before sorting.
LEMMA ResolvedFacts ==
    ASSUME StackInv, DirectInv, NEW r \in 1..Len(routes)
    PROVE  /\ Resolved(r) \in Seq(Entry)
           /\ \A x : x \in ToSet(Resolved(r)) <=>
                         \/ x \in ToSet(Expanded(asked.routes[r])) /\ x \in Runnable(r)
                         \/ x \in ToSet(Direct(r))
<1>1. PICK xs \in Seq(Entry) : xs = asked.routes[r] /\ xs = Elements(routes[r])
  BY ListOf
<1>2. PICK s \in Seq(Entry) : s = Expanded(xs)
  BY ExpandedFacts
<1>3. PICK t \in Seq(Entry) : t = Kept(s, Runnable(r))
  BY KeptType
<1>4. PICK d \in Seq(Entry) : d = Direct(r)
  BY DirectFacts
<1>5. Resolved(r) = t \o d
  BY <1>1, <1>2, <1>3, <1>4 DEF Resolved, Runnable, Direct
<1>6. t \o d \in Seq(Entry)
  BY ConcatProperties
<1>7. ASSUME NEW x
      PROVE  x \in ToSet(t \o d) <=> \/ x \in ToSet(s) /\ x \in Runnable(r)
                                     \/ x \in ToSet(d)
  <2>1. x \in ToSet(t \o d) <=> x \in ToSet(t) \/ x \in ToSet(d)
    BY ConcatElements
  <2>2. x \in ToSet(t) <=> x \in ToSet(s) /\ x \in Runnable(r)
    BY <1>3, KeptElements
  <2> QED
    BY <2>1, <2>2
<1> QED
  BY <1>1, <1>2, <1>4, <1>5, <1>6, <1>7

LEMMA StackFacts ==
    ASSUME StackInv, DirectInv, NEW r \in 1..Len(routes)
    PROVE  /\ Stack(r) \in Seq(Entry)
           /\ Ordered(Stack(r))
           /\ \A x : x \in ToSet(Stack(r)) <=> x \in ToSet(Resolved(r))
           /\ Kept(Stack(r), Ranked(Behind)) = Kept(Resolved(r), Ranked(Behind))
<1>1. PICK s \in Seq(Entry) : s = Resolved(r)
  BY ResolvedFacts
<1>2. Stack(r) = FlattenSeq(Buckets(s))
  BY <1>1 DEF Stack, Buckets, Ranked, Behind
<1>3. /\ FlattenSeq(Buckets(s)) \in Seq(Entry)
      /\ Ordered(FlattenSeq(Buckets(s)))
      /\ \A x : x \in ToSet(FlattenSeq(Buckets(s))) <=> x \in ToSet(s)
      /\ Kept(FlattenSeq(Buckets(s)), Ranked(Behind)) = Kept(s, Ranked(Behind))
  BY SortFacts
<1> QED
  BY <1>1, <1>2, <1>3

\* A middleware that is no group runs for a route only if it was asked for, through
\* any nesting of groups, also circular, is known and is not excluded by its name; it
\* does run if no exclusion mentions it, and so does what Block attached
\* (expandMiddlewareNames, resolveRouteMiddleware).
THEOREM RoutesRunWhatWasAsked == Spec => []RunsWhatWasAsked
<1>1. ASSUME StackInv, DirectInv, NEW r \in 1..Len(routes),
             NEW n \in Name \ (named \cup {"block"})
      PROVE  n \in NamesIn(Stack(r)) <=>
                 /\ n \in Reached(NamesIn(asked.routes[r]))
                 /\ Known(n)
                 /\ [name |-> n, param |-> Plain] \notin without[r]
  <2>1. PICK s \in Seq(Entry) : s = Stack(r)
    BY <1>1, StackFacts
  <2>2. PICK xs \in Seq(Entry) : xs = asked.routes[r]
    BY <1>1, ListOf
  <2>3. \A x : x \in ToSet(s) <=> \/ x \in ToSet(Expanded(xs)) /\ x \in Runnable(r)
                                  \/ x \in ToSet(Direct(r))
    BY <1>1, <2>1, <2>2, StackFacts, ResolvedFacts
  <2>4. n \in NamesIn(s) <=> \E x \in ToSet(s) : x.name = n
    BY <2>1, NamesAre
  <2>5. \A x \in ToSet(Direct(r)) : x.name # n
    BY <1>1, DirectFacts
  <2>6. n \in Reached(NamesIn(xs)) <=> \E x \in ToSet(Expanded(xs)) : x.name = n
    BY <1>1, ExpandedFacts
  <2>7. Expanded(xs) \in Seq(Entry)
    BY <1>1, ExpandedFacts
  <2>8. \A x \in ToSet(Expanded(xs)) :
            x.name = n => (x \in Runnable(r) <=> /\ Known(n)
                                                 /\ [name |-> n, param |-> Plain] \notin without[r])
    <3>1. \A x \in ToSet(Expanded(xs)) : x \in Entry
      BY <2>7, LenProperties, ElementOfSeq DEF ToSet
    <3> QED
      BY <3>1 DEF Runnable, Excluded
  <2> QED
    BY <2>1, <2>2, <2>3, <2>4, <2>5, <2>6, <2>8
<1>2. ASSUME StackInv, DirectInv, NEW r \in 1..Len(routes), direct[r] # <<>>
      PROVE  "block" \in NamesIn(Stack(r))
  <2>1. PICK s \in Seq(Entry) : s = Stack(r)
    BY <1>2, StackFacts
  <2>2. PICK x \in ToSet(Direct(r)) : x.name = "block"
    BY <1>2, DirectFacts
  <2>3. x \in ToSet(s)
    BY <1>2, <2>1, <2>2, StackFacts, ResolvedFacts
  <2> QED
    BY <2>1, <2>2, <2>3, NamesAre
<1>3. StackInv /\ DirectInv => RunsWhatWasAsked
  <2>1. StackInv => DOMAIN routes = 1..Len(routes)
    BY LenProperties DEF StackInv, ListTypes
  <2>2. ASSUME NEW r, NEW n, [name |-> n, param |-> Plain] \in without[r]
        PROVE  n \in ExcludedNames(r)
    BY <2>2 DEF ExcludedNames
  <2> QED
    BY <1>1, <1>2, <2>1, <2>2 DEF RunsWhatWasAsked
<1> QED
  BY <1>3, RoutesHold, PTL

\* The listed middleware of a route run in the order of MiddlewarePriority and
\* before all others, which keep their order (sortByPriority).
THEOREM RoutesRunInOrder == Spec => []InPriorityOrder
<1>1. ASSUME StackInv, DirectInv, NEW r \in 1..Len(routes), NEW s \in Seq(Entry), s = Stack(r),
             NEW i \in DOMAIN s, NEW j \in DOMAIN s, i < j
      PROVE  /\ s[j].name \in ToSet(Priority) => s[i].name \in ToSet(Priority)
             /\ \A k, l \in DOMAIN Priority :
                    Priority[k] = s[i].name /\ Priority[l] = s[j].name => k =< l
  <2>1. i \in 1..Len(s) /\ j \in 1..Len(s)
    BY LenProperties
  <2>2. Rank(s[i].name) <= Rank(s[j].name)
    <3>1. Ordered(s)
      BY <1>1, StackFacts
    <3> QED
      BY <1>1, <2>1, <3>1 DEF Ordered
  <2>3. Rank(s[i].name) \in 1..Behind /\ Rank(s[j].name) \in 1..Behind /\ Behind \in Nat
    BY RankFacts
  <2>4. s[j].name \in ToSet(Priority) => s[i].name \in ToSet(Priority)
    <3>1. /\ s[i].name \in ToSet(Priority) <=> Rank(s[i].name) < Behind
          /\ s[j].name \in ToSet(Priority) <=> Rank(s[j].name) < Behind
      BY RankFacts
    <3> QED
      BY <2>2, <2>3, <3>1
  <2>5. ASSUME NEW k \in DOMAIN Priority, NEW l \in DOMAIN Priority,
               Priority[k] = s[i].name, Priority[l] = s[j].name
        PROVE  k =< l
    <3>1. Rank(Priority[k]) = k /\ Rank(Priority[l]) = l
      BY RankFacts
    <3> QED
      BY <2>2, <2>5, <3>1
  <2> QED
    BY <2>4, <2>5
<1>2. {e \in Entry : e.name \notin ToSet(Priority)} = Ranked(Behind)
  <2>1. \A n : n \notin ToSet(Priority) <=> Rank(n) = Behind
    BY RankFacts
  <2> QED
    BY <2>1 DEF Ranked
<1>3. StackInv /\ DirectInv => InPriorityOrder
  <2> SUFFICES ASSUME StackInv, DirectInv PROVE InPriorityOrder
    OBVIOUS
  <2>1. DOMAIN routes = 1..Len(routes)
    BY LenProperties DEF StackInv, ListTypes
  <2>2. ASSUME NEW r \in 1..Len(routes)
        PROVE  \E s \in Seq(Entry) : s = Stack(r) /\ Kept(s, Ranked(Behind)) = Kept(Resolved(r), Ranked(Behind))
    BY StackFacts
  <2> QED
    BY <1>1, <1>2, <2>1, <2>2 DEF InPriorityOrder
<1> QED
  BY <1>3, RoutesHold, PTL
=============================================================================
