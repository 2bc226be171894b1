--------------------------- MODULE PipelineProofs ---------------------------
(***************************************************************************)
(* Theorems about Pipeline, for every global stack, every set of routes    *)
(* and every bound.                                                        *)
(***************************************************************************)
EXTENDS Pipeline, SequenceTheorems, WellFoundedInduction, TLAPS

Entries == Middleware \cup {Dispatch, Handler}

----------------------------------------------------------------------------
(* Lemmas about the call stack *)

\* Counting a call of next changes nothing but the last frame's count.
LEMMA CountedFrames ==
    ASSUME NEW s \in Seq(Frame), s # << >>
    PROVE  /\ Counted(s) \in Seq(Frame)
           /\ Len(Counted(s)) = Len(s)
           /\ Len(s) \in Nat \ {0}
           /\ \A k \in 1 .. Len(s) :
                  /\ Counted(s)[k].at = s[k].at
                  /\ Counted(s)[k].nexts = IF k = Len(s) THEN s[k].nexts + 1 ELSE s[k].nexts
<1> DEFINE top == [at |-> s[Len(s)].at, nexts |-> s[Len(s)].nexts + 1]
<1>1. /\ Len(s) \in Nat \ {0}
      /\ \A k \in 1 .. Len(s) : s[k] \in Frame
  BY LenProperties, ElementOfSeq, EmptySeq
<1>2. top \in Frame
  BY <1>1 DEF Frame
<1>3. Counted(s) = [s EXCEPT ![Len(s)] = top]
  BY DEF Counted
<1> HIDE DEF top
<1>4. /\ Counted(s) \in Seq(Frame)
      /\ Len(Counted(s)) = Len(s)
      /\ \A k \in 1 .. Len(s) : Counted(s)[k] = IF k = Len(s) THEN top ELSE s[k]
  BY <1>1, <1>2, <1>3, ExceptSeq
<1> QED
  BY <1>1, <1>4 DEF top, Frame

\* The parts of the calls on a stack.
LEMMA FrameParts ==
    ASSUME NEW s \in Seq(Frame), NEW k \in 1 .. Len(s)
    PROVE  s[k].at \in Nat /\ s[k].nexts \in Nat
<1>1. s[k] \in Frame
  BY ElementOfSeq
<1> QED
  BY <1>1 DEF Frame

\* What is left of the stack when the calls above the n-th have gone.
LEMMA PrefixFrames ==
    ASSUME NEW s \in Seq(Frame), NEW n \in 0 .. Len(s)
    PROVE  /\ SubSeq(s, 1, n) \in Seq(Frame)
           /\ Len(SubSeq(s, 1, n)) = n
           /\ \A k \in 1 .. n : SubSeq(s, 1, n)[k] = s[k]
  OBVIOUS

\* A call that is pushed lies on top of what was there.
LEMMA PushedFrames ==
    ASSUME NEW s \in Seq(Frame), NEW f \in Frame
    PROVE  /\ Append(s, f) \in Seq(Frame)
           /\ Len(Append(s, f)) = Len(s) + 1
           /\ Append(s, f)[Len(s) + 1] = f
           /\ \A k \in 1 .. Len(s) : Append(s, f)[k] = s[k]
  OBVIOUS

\* Advance leaves the calls it is given, or pushes the next handler on them.
LEMMA AdvanceCases ==
    ASSUME NEW handlers \in Seq(Entries), NEW calls \in Seq(Frame),
           TypeOK, Advance(handlers, calls)
    PROVE  /\ index' = index + 1
           /\ executed' \in Seq(Middleware)
           /\ \/ stack' = calls
              \/ /\ index + 1 <= Len(handlers)
                 /\ stack' = Append(calls, [at |-> index + 1, nexts |-> 0])
           /\ stack' \in Seq(Frame)
<1> DEFINE next == [at |-> index + 1, nexts |-> 0]
<1>1. index + 1 \in Nat \ {0} /\ executed \in Seq(Middleware)
  BY DEF TypeOK
<1>2. next \in Frame
  BY <1>1 DEF Frame
<1> HIDE DEF next
<1>3. Append(calls, next) \in Seq(Frame)
  BY <1>2
<1>4. CASE index + 1 <= Len(handlers)
  <2>1. /\ index' = index + 1
        /\ stack' = Append(calls, next)
        /\ \/ executed' = executed
           \/ /\ handlers[index + 1] \in Middleware
              /\ executed' = Append(executed, handlers[index + 1])
    BY <1>4 DEF Advance, next
  <2>2. executed' \in Seq(Middleware)
    BY <1>1, <2>1, SMTT(30)
  <2> QED
    BY <1>3, <1>4, <2>1, <2>2 DEF next
<1>5. CASE ~(index + 1 <= Len(handlers))
  BY <1>1, <1>5 DEF Advance
<1> QED
  BY <1>4, <1>5

\* A call of next by the top of the stack is counted, and may push one call.
LEMMA NextFrames ==
    ASSUME NEW handlers \in Seq(Entries), TypeOK, stack # << >>,
           Advance(handlers, Counted(stack))
    PROVE  /\ stack' \in Seq(Frame)
           /\ Len(stack) \in Nat \ {0}
           /\ Len(stack') \in {Len(stack), Len(stack) + 1}
           /\ \A k \in 1 .. Len(stack) :
                  /\ stack'[k].at = stack[k].at
                  /\ stack'[k].nexts = IF k = Len(stack) THEN stack[k].nexts + 1
                                       ELSE stack[k].nexts
           /\ Len(stack') = Len(stack) + 1 =>
                  stack'[Len(stack) + 1] = [at |-> index + 1, nexts |-> 0]
<1> DEFINE new == [at |-> index + 1, nexts |-> 0]
<1>1. stack \in Seq(Frame) /\ new \in Frame
  BY DEF TypeOK, Frame
<1>2. /\ Counted(stack) \in Seq(Frame)
      /\ Len(Counted(stack)) = Len(stack)
      /\ Len(stack) \in Nat \ {0}
      /\ \A k \in 1 .. Len(stack) :
             /\ Counted(stack)[k].at = stack[k].at
             /\ Counted(stack)[k].nexts = IF k = Len(stack) THEN stack[k].nexts + 1
                                          ELSE stack[k].nexts
  BY <1>1, CountedFrames
<1> HIDE DEF new
<1>3. stack' = Counted(stack) \/ stack' = Append(Counted(stack), new)
  BY <1>2, AdvanceCases DEF new
<1>4. CASE stack' = Counted(stack)
  BY <1>2, <1>4
<1>5. CASE stack' = Append(Counted(stack), new)
  <2>1. /\ stack' \in Seq(Frame)
        /\ Len(stack') = Len(stack) + 1
        /\ stack'[Len(stack) + 1] = new
        /\ \A k \in 1 .. Len(stack) : stack'[k] = Counted(stack)[k]
    BY <1>1, <1>2, <1>5, PushedFrames
  <2> QED
    BY <1>2, <2>1 DEF new
<1> QED
  BY <1>3, <1>4, <1>5

\* The spliced chain begins with the chain that was there.
LEMMA SplicedChain ==
    ASSUME NEW c \in Seq(Entries), NEW middleware \in RouteChains
    PROVE  /\ c \o Append(middleware, Handler) \in Seq(Entries)
           /\ \A k \in 1 .. Len(c) : (c \o Append(middleware, Handler))[k] = c[k]
           /\ Len(c) <= Len(c \o Append(middleware, Handler))
<1>1. Append(middleware, Handler) \in Seq(Entries)
  BY ChainAssumption DEF Entries
<1> QED
  BY <1>1

----------------------------------------------------------------------------
\* Every step keeps the type invariant.
LEMMA TypeStep ==
    ASSUME TypeOK, [Next]_vars
    PROVE  TypeOK'
<1> USE DEF TypeOK, control, ending, files, Entries
<1>1. CASE Start
  BY <1>1, AdvanceCases, SMTT(30) DEF Start
<1>2. CASE CallNext
  <2>1. Counted(stack) \in Seq(Frame)
    BY <1>2, CountedFrames DEF CallNext, Running
  <2>2. /\ index' = index + 1
        /\ executed' \in Seq(Middleware)
        /\ stack' \in Seq(Frame)
    BY <1>2, <2>1, AdvanceCases DEF CallNext
  <2> QED
    BY <1>2, <2>2 DEF CallNext
<1>3. CASE DispatchRoute
  <2>1. Counted(stack) \in Seq(Frame)
    BY <1>3, CountedFrames DEF DispatchRoute, Running
  <2>2. PICK middleware \in RouteChains :
            /\ chain' = chain \o Append(middleware, Handler)
            /\ Advance(chain', Counted(stack))
    BY <1>3 DEF DispatchRoute
  <2>3. chain' \in Seq(Entries)
    BY <2>2, SplicedChain
  <2>4. /\ index' = index + 1
        /\ executed' \in Seq(Middleware)
        /\ stack' \in Seq(Frame)
    BY <2>1, <2>2, <2>3, AdvanceCases
  <2> QED
    BY <1>3, <2>3, <2>4 DEF DispatchRoute
<1>4. CASE DispatchNothing
  BY <1>4, CountedFrames DEF DispatchNothing, Running
<1>5. CASE Return
  <2>1. Len(stack) \in Nat \ {0} /\ Top \in Frame
    BY <1>5 DEF Return, Running, Top
  <2>2. stack' \in Seq(Frame)
    BY <1>5, <2>1, PrefixFrames DEF Return
  <2>3. stopped' \subseteq Nat
    BY <1>5, <2>1 DEF Return, Frame
  <2> QED
    BY <1>5, <2>2, <2>3 DEF Return
<1>6. CASE PanicRecovered
  <2>1. PICK k \in 1 .. Len(stack) :
            /\ stack' = SubSeq(stack, 1, k - 1)
            /\ pc' = IF k = 1 THEN "terminate" ELSE pc
    BY <1>6 DEF PanicRecovered
  <2>2. stack' \in Seq(Frame)
    BY <2>1, PrefixFrames
  <2> QED
    BY <1>6, <2>1, <2>2 DEF PanicRecovered
<1>7. CASE PanicUnrecovered
  BY <1>7 DEF PanicUnrecovered
<1>8. CASE TakeUpload
  <2>1. uploads + 1 \in File /\ Temp \in Path
    BY <1>8, BoundAssumption DEF TakeUpload, File, Path, Temp
  <2>2. disk' \subseteq File \X Path /\ uploads' \in 0 .. MaxUploads
    BY <1>8, <2>1, BoundAssumption DEF TakeUpload
  <2>3. tracked' \subseteq File /\ faults' \in Nat
    BY <1>8, <2>1 DEF TakeUpload
  <2> QED
    BY <1>8, <2>2, <2>3 DEF TakeUpload
<1>9. CASE StoreAs
  <2>1. PICK f \in tracked :
            /\ path[f] < MaxStores
            /\ disk' \subseteq disk \cup {<<f, path[f] + 1>>}
            /\ path' \in {path, [path EXCEPT ![f] = @ + 1]}
            /\ faults' \in {faults, faults + 1}
    BY <1>9 DEF StoreAs
  <2>2. path[f] + 1 \in Path
    BY <2>1, BoundAssumption DEF Path
  <2>3. disk' \subseteq File \X Path /\ path' \in [File -> Path] /\ faults' \in Nat
    BY <2>1, <2>2
  <2> QED
    BY <1>9, <2>3 DEF StoreAs
<1>10. CASE Terminate
  BY <1>10 DEF Terminate
<1>11. CASE TerminatePanics
  BY <1>11 DEF TerminatePanics
<1>12. CASE Cleanup
  BY <1>12 DEF Cleanup
<1>13. CASE UNCHANGED vars
  BY <1>13 DEF vars
<1> QED
  BY <1>1, <1>2, <1>3, <1>4, <1>5, <1>6, <1>7, <1>8, <1>9, <1>10, <1>11, <1>12, <1>13
     DEF Next, Over

\* The initial states have the right types.
LEMMA InitType ==
    ASSUME Init
    PROVE  TypeOK
<1>1. PICK global \in Globals : chain = Append(global, Dispatch)
  BY DEF Init
<1>2. global \in Seq(Entries)
  BY <1>1, ChainAssumption DEF Entries
<1>3. chain \in Seq(Entries)
  BY <1>1, <1>2 DEF Entries
<1>4. path \in [File -> Path] /\ uploads \in 0 .. MaxUploads
  BY BoundAssumption DEF Init, Path, Temp
<1>5. stack \in Seq(Frame) /\ executed \in Seq(Middleware) /\ terminated \in Seq(Middleware)
  BY DEF Init
<1> QED
  BY <1>3, <1>4, <1>5 DEF Init, TypeOK, Entries

\* Every variable keeps its type: the chain is only ever extended by the middleware
\* of a route, and only middleware are recorded for terminate.
THEOREM TypeCorrect == Spec => []TypeOK
  BY InitType, TypeStep, PTL DEF Spec

----------------------------------------------------------------------------
\* With Recover first in the chain, the oldest call in progress is Recover's.
EscapeInv ==
    /\ TypeOK
    /\ Len(chain) > 0
    /\ pc = "start" => index = 0 /\ stack = << >>
    /\ chain[1] = Recover =>
           /\ pc # "crashed"
           /\ stack # << >> => stack[1].at = 1

\* Every step keeps Recover below all other calls.
LEMMA EscapeStep ==
    ASSUME EscapeInv, [Next]_vars
    PROVE  EscapeInv'
<1>t. TypeOK'
  BY TypeStep DEF EscapeInv
<1>s. TypeOK /\ chain \in Seq(Entries) /\ chain' \in Seq(Entries) /\ stack \in Seq(Frame)
  BY <1>t DEF EscapeInv, TypeOK, Entries
<1> USE <1>s, <1>t DEF EscapeInv, control, ending, files
<1>1. CASE Start
  <2>1. pc' = "running" /\ UNCHANGED chain
    BY <1>1 DEF Start
  <2>2. stack' # << >> => stack' = << [at |-> 1, nexts |-> 0] >>
    BY <1>1 DEF Start, Advance
  <2>3. stack' # << >> => stack'[1].at = 1
    BY <2>2
  <2> QED
    BY <2>1, <2>3
<1>2. CASE CallNext
  <2>1. stack # << >> /\ pc = "running" /\ UNCHANGED <<pc, chain>>
    BY <1>2 DEF CallNext, Running
  <2>2. stack'[1].at = stack[1].at
    BY <1>2, <2>1, NextFrames DEF CallNext
  <2> QED
    BY <2>1, <2>2
<1>3. CASE DispatchRoute
  <2>1. stack # << >> /\ pc = "running" /\ UNCHANGED pc
    BY <1>3 DEF DispatchRoute, Running
  <2>2. PICK middleware \in RouteChains :
            /\ chain' = chain \o Append(middleware, Handler)
            /\ Advance(chain', Counted(stack))
    BY <1>3 DEF DispatchRoute
  <2>3. stack'[1].at = stack[1].at
    <3>1. Advance(chain', Counted(stack))
      BY <2>2
    <3> QED
      BY <2>1, <3>1, NextFrames
  <2>4. chain'[1] = chain[1] /\ Len(chain') > 0
    BY <2>2, SplicedChain
  <2> QED
    BY <2>1, <2>3, <2>4
<1>4. CASE DispatchNothing
  <2>1. stack # << >> /\ pc = "running" /\ stack' = Counted(stack) /\ UNCHANGED <<pc, chain>>
    BY <1>4 DEF DispatchNothing, Running
  <2>2. stack'[1].at = stack[1].at
    BY <2>1, CountedFrames
  <2> QED
    BY <2>1, <2>2
<1>5. CASE Return
  <2>1. stack' = SubSeq(stack, 1, Len(stack) - 1) /\ UNCHANGED chain
        /\ pc = "running" /\ pc' \in {pc, "terminate"} /\ stack # << >>
    BY <1>5 DEF Return, Running
  <2>2. Len(stack) - 1 \in 0 .. Len(stack)
    BY <2>1
  <2>3. stack' # << >> => stack'[1] = stack[1]
    BY <2>1, <2>2, PrefixFrames
  <2> QED
    BY <2>1, <2>3
<1>6. CASE PanicRecovered
  <2>1. PICK k \in 1 .. Len(stack) :
            /\ stack' = SubSeq(stack, 1, k - 1)
            /\ pc' = IF k = 1 THEN "terminate" ELSE pc
    BY <1>6 DEF PanicRecovered
  <2>2. k - 1 \in 0 .. Len(stack) /\ pc = "running" /\ UNCHANGED chain
    BY <1>6, <2>1 DEF PanicRecovered, UserCode, Running
  <2>3. stack' # << >> => stack'[1] = stack[1]
    BY <2>1, <2>2, PrefixFrames
  <2> QED
    BY <2>1, <2>2, <2>3
<1>7. CASE PanicUnrecovered
  <2>1. /\ stack # << >> /\ stack' = << >> /\ pc' = "crashed" /\ UNCHANGED chain
        /\ \A k \in 1 .. Len(stack) : chain[stack[k].at] # Recover
    BY <1>7 DEF PanicUnrecovered, UserCode, Running, Entry
  <2>2. chain[1] # Recover
    BY <2>1, EmptySeq, LenProperties
  <2> QED
    BY <2>1, <2>2
<1>8. CASE TakeUpload
  BY <1>8 DEF TakeUpload
<1>9. CASE StoreAs
  BY <1>9 DEF StoreAs
<1>10. CASE Terminate
  BY <1>10 DEF Terminate
<1>11. CASE TerminatePanics
  BY <1>11 DEF TerminatePanics
<1>12. CASE Cleanup
  BY <1>12 DEF Cleanup
<1>13. CASE UNCHANGED vars
  BY <1>13 DEF vars
<1> QED
  BY <1>1, <1>2, <1>3, <1>4, <1>5, <1>6, <1>7, <1>8, <1>9, <1>10, <1>11, <1>12, <1>13
     DEF Next, Over

\* If Recover is registered first, no panic of the application's code leaves
\* ServeHTTP, for any middleware, routes and nesting (RecoverMiddleware).
THEOREM PanicsAreRecovered == Spec => []NoPanicEscapes
<1>1. Init => EscapeInv
  <2> SUFFICES ASSUME Init PROVE EscapeInv
    OBVIOUS
  <2>1. TypeOK
    BY InitType
  <2>2. PICK global \in Globals : chain = Append(global, Dispatch)
    BY DEF Init
  <2>3. global \in Seq(Middleware)
    BY <2>2, ChainAssumption
  <2>4. Len(chain) > 0
    BY <2>2, <2>3
  <2> QED
    BY <2>1, <2>4 DEF Init, EscapeInv
<1>2. EscapeInv => NoPanicEscapes
  BY DEF EscapeInv, NoPanicEscapes
<1> QED
  BY <1>1, <1>2, EscapeStep, PTL DEF Spec

----------------------------------------------------------------------------
\* Calls lie above each other in the order of the chain, and every call but the
\* top one has called next.  After a middleware has returned without calling
\* next, that holds of the top one as well, so none can call it again.
ShortInv ==
    /\ TypeOK
    /\ pc = "start" => stack = << >> /\ stopped = {}
    /\ \A k \in 1 .. Len(stack) : stack[k].at <= index
    /\ \A j, k \in 1 .. Len(stack) :
           j < k => stack[j].at < stack[k].at /\ stack[j].nexts >= 1
    /\ \A i \in stopped : \A k \in 1 .. Len(stack) :
           stack[k].at <= i /\ stack[k].nexts >= 1

\* A call of next by a handler that has not called it before.
LEMMA ShortNext ==
    ASSUME NEW handlers \in Seq(Entries), ShortInv, TypeOK', UNCHANGED stopped,
           stack # << >>, pc' # "start", Top.nexts = 0,
           Advance(handlers, Counted(stack))
    PROVE  ShortInv'
<1>1. TypeOK
  BY DEF ShortInv
<1>2. /\ stack \in Seq(Frame)
      /\ stack' \in Seq(Frame)
      /\ Len(stack) \in Nat \ {0}
      /\ Len(stack') \in {Len(stack), Len(stack) + 1}
      /\ \A k \in 1 .. Len(stack) :
             /\ stack'[k].at = stack[k].at
             /\ stack'[k].nexts = IF k = Len(stack) THEN stack[k].nexts + 1
                                  ELSE stack[k].nexts
      /\ Len(stack') = Len(stack) + 1 => stack'[Len(stack) + 1] = [at |-> index + 1, nexts |-> 0]
  BY <1>1, NextFrames DEF TypeOK
<1>3. index \in Nat /\ index' = index + 1
  BY <1>1 DEF TypeOK, Advance
<1>4. \A k \in 1 .. Len(stack) : stack[k].at \in Nat /\ stack[k].nexts \in Nat
  BY <1>2, FrameParts
<1>5. stopped = {}
  BY <1>2 DEF ShortInv, Top
<1>6. \A k \in 1 .. Len(stack') : stack'[k].at <= index'
  BY <1>2, <1>3, <1>4 DEF ShortInv
<1>7. \A j, k \in 1 .. Len(stack') :
          j < k => stack'[j].at < stack'[k].at /\ stack'[j].nexts >= 1
  <2> SUFFICES ASSUME NEW j \in 1 .. Len(stack'), NEW k \in 1 .. Len(stack'), j < k
               PROVE  stack'[j].at < stack'[k].at /\ stack'[j].nexts >= 1
    OBVIOUS
  <2>1. j \in 1 .. Len(stack)
    BY <1>2
  <2>2. CASE k <= Len(stack)
    BY <1>2, <2>1, <2>2 DEF ShortInv
  <2>3. CASE k = Len(stack) + 1
    BY <1>2, <1>3, <1>4, <2>1, <2>3, SMTT(30) DEF ShortInv
  <2> QED
    BY <1>2, <2>2, <2>3
<1> QED
  BY <1>5, <1>6, <1>7 DEF ShortInv

\* Dropping calls from the top of the stack.
LEMMA ShortPrefix ==
    ASSUME ShortInv, TypeOK', NEW n \in 0 .. Len(stack), pc' # "start",
           stack' = SubSeq(stack, 1, n), UNCHANGED <<index, stopped>>
    PROVE  ShortInv'
<1>1. /\ Len(stack') = n
      /\ \A k \in 1 .. n : stack'[k] = stack[k]
      /\ \A k \in 1 .. n : k \in 1 .. Len(stack)
  BY PrefixFrames DEF ShortInv, TypeOK
<1> QED
  BY <1>1 DEF ShortInv

\* Every step keeps the calls in order, if no middleware calls next twice.
LEMMA ShortStep ==
    ASSUME MaxNext <= 1, ShortInv, [Next]_vars
    PROVE  ShortInv'
<1>t. TypeOK'
  BY TypeStep DEF ShortInv
<1>s. /\ TypeOK
      /\ chain \in Seq(Entries) /\ chain' \in Seq(Entries) /\ stack \in Seq(Frame)
      /\ index \in Nat
  BY <1>t DEF ShortInv, TypeOK, Entries
<1> USE <1>s, <1>t DEF control, ending, files
<1>1. CASE Start
  <2>1. pc' = "running" /\ UNCHANGED stopped /\ index' = index + 1
    BY <1>1 DEF Start, Advance
  <2>2. stack = << >> /\ stopped = {}
    BY <1>1 DEF Start, ShortInv
  <2>3. stack' = << >> \/ stack' = << [at |-> index + 1, nexts |-> 0] >>
    BY <1>1, <2>2 DEF Start, Advance
  <2>4. /\ \A k \in 1 .. Len(stack') : stack'[k].at <= index'
        /\ Len(stack') <= 1
    <3>1. CASE stack' = << >>
      BY <3>1
    <3>2. CASE stack' = << [at |-> index + 1, nexts |-> 0] >>
      BY <2>1, <3>2
    <3> QED
      BY <2>3, <3>1, <3>2
  <2> QED
    BY <2>1, <2>2, <2>4 DEF ShortInv
<1>2. CASE CallNext
  <2>1. Top.nexts \in Nat
    <3>1. Len(stack) \in 1 .. Len(stack)
      BY <1>2, EmptySeq, LenProperties DEF CallNext, Running
    <3> QED
      BY <3>1, FrameParts DEF Top
  <2>2. Top.nexts = 0
    BY <1>2, <2>1, BoundAssumption DEF CallNext
  <2> QED
    BY <1>2, <2>2, ShortNext DEF CallNext, Running
<1>3. CASE DispatchRoute
  <2>1. /\ stack # << >> /\ pc' = "running" /\ UNCHANGED stopped
        /\ Top.nexts = 0
        /\ Advance(chain', Counted(stack))
    BY <1>3 DEF DispatchRoute, Running
  <2> QED
    BY <2>1, ShortNext
<1>4. CASE DispatchNothing
  <2>1. /\ stack # << >> /\ pc' = "running" /\ UNCHANGED <<stopped, index>>
        /\ Top.nexts = 0 /\ stack' = Counted(stack)
    BY <1>4 DEF DispatchNothing, Running
  <2>2. /\ Len(stack) \in Nat \ {0}
        /\ Len(stack') = Len(stack)
        /\ \A k \in 1 .. Len(stack) :
               /\ stack'[k].at = stack[k].at
               /\ stack'[k].nexts = IF k = Len(stack) THEN stack[k].nexts + 1
                                    ELSE stack[k].nexts
    BY <2>1, CountedFrames
  <2>3. stopped' = {}
    BY <2>1, <2>2 DEF ShortInv, Top
  <2>4. \A k \in 1 .. Len(stack') : stack'[k].at <= index'
    BY <2>1, <2>2 DEF ShortInv
  <2>5. \A j, k \in 1 .. Len(stack') :
            j < k => stack'[j].at < stack'[k].at /\ stack'[j].nexts >= 1
    <3>1. \A j, k \in 1 .. Len(stack) :
              j < k => stack[j].at < stack[k].at /\ stack[j].nexts >= 1
      BY DEF ShortInv
    <3>2. \A j, k \in 1 .. Len(stack) :
              j < k => stack'[j].at = stack[j].at /\ stack'[k].at = stack[k].at
                       /\ stack'[j].nexts = stack[j].nexts
      BY <2>2
    <3> QED
      BY <2>2, <3>1, <3>2
  <2> QED
    BY <2>1, <2>3, <2>4, <2>5 DEF ShortInv
<1>5. CASE Return
  <2>1. /\ stack' = SubSeq(stack, 1, Len(stack) - 1) /\ UNCHANGED index
        /\ pc' # "start" /\ stack # << >>
        /\ \/ UNCHANGED stopped
           \/ Top.nexts = 0 /\ stopped' = stopped \cup {Top.at}
    BY <1>5 DEF Return, Running
  <2>2. Len(stack) \in Nat \ {0} /\ Len(stack) - 1 \in 0 .. Len(stack)
    BY <2>1
  <2>3. CASE UNCHANGED stopped
    BY <2>1, <2>2, <2>3, ShortPrefix
  <2>4. CASE Top.nexts = 0 /\ stopped' = stopped \cup {Top.at}
    <3>0. PICK n \in 0 .. Len(stack) : n = Len(stack) - 1
      BY <2>2
    <3>1. /\ Len(stack') = Len(stack) - 1
          /\ \A k \in 1 .. Len(stack) - 1 : stack'[k] = stack[k] /\ k \in 1 .. Len(stack)
      BY <2>1, <2>2, <3>0, PrefixFrames
    <3>2. stopped = {}
      BY <2>2, <2>4 DEF ShortInv, Top
    <3>3. \A k \in 1 .. Len(stack) - 1 : stack[k].at < Top.at /\ stack[k].nexts >= 1
      BY <2>2 DEF ShortInv, Top
    <3>4. Top.at \in Nat /\ \A k \in 1 .. Len(stack) : stack[k].at \in Nat
      BY <2>2, FrameParts DEF Top
    <3>5. /\ stopped' = {Top.at}
          /\ \A k \in 1 .. Len(stack') : stack'[k].at <= Top.at /\ stack'[k].nexts >= 1
      BY <2>2, <2>4, <3>1, <3>2, <3>3, <3>4
    <3>6. /\ \A k \in 1 .. Len(stack') : stack'[k].at <= index'
          /\ \A j, k \in 1 .. Len(stack') :
                 j < k => stack'[j].at < stack'[k].at /\ stack'[j].nexts >= 1
      BY <2>1, <2>2, <3>1 DEF ShortInv
    <3> QED
      BY <2>1, <3>5, <3>6 DEF ShortInv
  <2> QED
    BY <2>1, <2>3, <2>4
<1>6. CASE PanicRecovered
  <2>1. PICK k \in 1 .. Len(stack) :
            /\ stack' = SubSeq(stack, 1, k - 1)
            /\ pc' = IF k = 1 THEN "terminate" ELSE pc
    BY <1>6 DEF PanicRecovered
  <2>2. /\ k - 1 \in 0 .. Len(stack)
        /\ pc' # "start"
        /\ UNCHANGED <<index, stopped>>
    BY <1>6, <2>1 DEF PanicRecovered, UserCode, Running
  <2> QED
    BY <2>1, <2>2, ShortPrefix
<1>7. CASE PanicUnrecovered
  BY <1>7 DEF PanicUnrecovered, ShortInv
<1>8. CASE TakeUpload
  BY <1>8 DEF TakeUpload, ShortInv
<1>9. CASE StoreAs
  BY <1>9 DEF StoreAs, ShortInv
<1>10. CASE Terminate
  BY <1>10 DEF Terminate, ShortInv
<1>11. CASE TerminatePanics
  BY <1>11 DEF TerminatePanics, ShortInv
<1>12. CASE Cleanup
  BY <1>12 DEF Cleanup, ShortInv
<1>13. CASE UNCHANGED vars
  BY <1>13 DEF vars, ShortInv
<1> QED
  BY <1>1, <1>2, <1>3, <1>4, <1>5, <1>6, <1>7, <1>8, <1>9, <1>10, <1>11, <1>12, <1>13
     DEF Next, Over

\* If no middleware calls next twice, nothing behind one that returned without
\* calling it ever runs (Context.Next, dispatch).
THEOREM ChainsStop ==
    ASSUME MaxNext <= 1
    PROVE  Spec => []ShortCircuitStops
<1>1. Init => ShortInv
  <2> SUFFICES ASSUME Init PROVE ShortInv
    OBVIOUS
  <2>1. TypeOK
    BY InitType
  <2>2. stack = << >> /\ Len(stack) = 0 /\ stopped = {}
    BY DEF Init
  <2> QED
    BY <2>1, <2>2 DEF ShortInv
<1>2. ShortInv => ShortCircuitStops
  BY DEF ShortInv, ShortCircuitStops
<1>3. ShortInv /\ [Next]_vars => ShortInv'
  BY ShortStep
<1> QED
  BY <1>1, <1>2, <1>3, PTL DEF Spec

----------------------------------------------------------------------------
\* A tracked upload is where its path says, and as long as no copy has failed
\* every upload is tracked.
FileInv ==
    /\ TypeOK
    /\ \A f \in File, p \in Path : <<f, p>> \in disk => f <= uploads
    /\ faults = 0 => \A f \in File : f <= uploads => f \in tracked
    /\ \A f \in File : f > uploads => path[f] = Temp /\ f \notin tracked
    /\ \A f \in tracked : pc # "done" \/ path[f] # Temp => <<f, path[f]>> \in disk
    /\ pc = "done" /\ faults = 0 => \A f \in File : <<f, Temp>> \notin disk

\* Every step keeps track of the uploads.
LEMMA FileStep ==
    ASSUME FileInv, [Next]_vars
    PROVE  FileInv'
<1>t. TypeOK /\ TypeOK'
  BY TypeStep DEF FileInv
<1> USE <1>t DEF control, ending, files
<1>1. ASSUME UNCHANGED files, pc # "done", pc' # "done" PROVE FileInv'
  BY <1>1 DEF FileInv
<1>2. CASE \/ Start \/ CallNext \/ DispatchRoute \/ DispatchNothing \/ Return
           \/ PanicRecovered \/ PanicUnrecovered \/ Terminate \/ TerminatePanics
  <2>1. UNCHANGED files /\ pc # "done" /\ pc' # "done"
    BY <1>2 DEF Start, CallNext, DispatchRoute, DispatchNothing, Return, PanicRecovered,
                PanicUnrecovered, Terminate, TerminatePanics, UserCode, Running
  <2> QED
    BY <1>1, <2>1
<1>3. CASE TakeUpload
  <2>1. /\ pc = "running" /\ pc' = pc
        /\ uploads' = uploads + 1
        /\ disk' = disk \cup {<<uploads + 1, Temp>>}
        /\ UNCHANGED path
        /\ \/ tracked' = tracked \cup {uploads + 1} /\ UNCHANGED faults
           \/ UNCHANGED tracked /\ faults' = faults + 1
    BY <1>3 DEF TakeUpload, UserCode, Running
  <2>2. uploads + 1 \in File /\ uploads \in Nat /\ faults \in Nat /\ File \subseteq Nat
    BY <1>3, BoundAssumption DEF TakeUpload, TypeOK, File
  <2>3. \A f \in File, p \in Path : <<f, p>> \in disk' => f <= uploads'
    BY <2>1, <2>2 DEF FileInv
  <2>4. faults' = 0 => \A f \in File : f <= uploads' => f \in tracked'
    BY <2>1, <2>2 DEF FileInv
  <2>5. \A f \in File : f > uploads' => path'[f] = Temp /\ f \notin tracked'
    BY <2>1, <2>2 DEF FileInv
  <2>6. \A f \in tracked' : <<f, path'[f]>> \in disk'
    BY <2>1, <2>2 DEF FileInv
  <2> QED
    BY <2>1, <2>3, <2>4, <2>5, <2>6 DEF FileInv
<1>4. CASE StoreAs
  <2>1. PICK f \in tracked :
            \/ /\ disk' = (disk \ {<<f, path[f]>>}) \cup {<<f, path[f] + 1>>}
               /\ path' = [path EXCEPT ![f] = @ + 1]
               /\ UNCHANGED faults
            \/ /\ disk' = disk \cup {<<f, path[f] + 1>>}
               /\ UNCHANGED path
               /\ faults' = faults + 1
    BY <1>4 DEF StoreAs
  <2>2. pc = "running" /\ pc' = pc /\ UNCHANGED <<uploads, tracked>>
    BY <1>4 DEF StoreAs, UserCode, Running
  <2>3. f \in File /\ f <= uploads /\ path[f] \in Nat /\ faults \in Nat /\ uploads \in Nat
    BY BoundAssumption DEF FileInv, TypeOK, File, Path
  <2>4. /\ tracked \subseteq File
        /\ path \in [File -> Path]
        /\ \A g \in tracked : <<g, path[g]>> \in disk
    BY <2>2 DEF FileInv, TypeOK
  <2>5. \A g \in File, p \in Path : <<g, p>> \in disk' => g <= uploads'
    BY <2>1, <2>2, <2>3 DEF FileInv
  <2>6. faults' = 0 => \A g \in File : g <= uploads' => g \in tracked'
    BY <2>1, <2>2, <2>3 DEF FileInv
  <2>7. \A g \in File : g > uploads' => path'[g] = Temp /\ g \notin tracked'
    BY <2>1, <2>2, <2>3, <2>4 DEF FileInv
  <2>8. \A g \in tracked' : <<g, path'[g]>> \in disk'
    BY <2>1, <2>2, <2>3, <2>4
  <2> QED
    BY <2>2, <2>5, <2>6, <2>7, <2>8 DEF FileInv
<1>5. CASE Cleanup
  <2>1. /\ pc = "terminate" /\ pc' = "done"
        /\ disk' = disk \ {<<f, Temp>> : f \in tracked}
        /\ UNCHANGED <<uploads, tracked, path, faults>>
    BY <1>5 DEF Cleanup
  <2>2. \A f \in File : <<f, Temp>> \in disk => f <= uploads
    BY BoundAssumption DEF FileInv, Path, Temp
  <2>3. faults' = 0 => \A f \in File : <<f, Temp>> \notin disk'
    BY <2>1, <2>2 DEF FileInv
  <2>4. \A f \in tracked' : path'[f] # Temp => <<f, path'[f]>> \in disk'
    BY <2>1 DEF FileInv
  <2> QED
    BY <2>1, <2>3, <2>4 DEF FileInv
<1>6. CASE UNCHANGED vars
  BY <1>6 DEF vars, FileInv
<1> QED
  BY <1>2, <1>3, <1>4, <1>5, <1>6 DEF Next, Over

\* FileInv holds of every behaviour.
LEMMA FilesHold == Spec => []FileInv
<1>1. Init => FileInv
  <2> SUFFICES ASSUME Init PROVE FileInv
    OBVIOUS
  <2>1. TypeOK
    BY InitType
  <2>2. uploads = 0 /\ \A f \in File : f \in Nat /\ f > 0
    BY BoundAssumption DEF Init, File
  <2>3. disk = {} /\ tracked = {} /\ pc = "start" /\ \A f \in File : path[f] = Temp
    BY DEF Init
  <2> QED
    BY <2>1, <2>2, <2>3 DEF FileInv
<1> QED
  BY <1>1, FileStep, PTL DEF Spec

\* As long as no copy fails, a finished request leaves no temporary file, however
\* it ended and whatever was stored (Context.File, cleanupTempFiles).
THEOREM TempFilesGo == Spec => []NoTempFileLeft
<1>1. FileInv => NoTempFileLeft
  BY DEF FileInv, NoTempFileLeft
<1> QED
  BY <1>1, FilesHold, PTL

\* The clean-up never removes an upload that StoreAs has moved, also when other
\* copies fail (UploadedFile.StoreAs, cleanupTempFiles).
THEOREM StoredFilesAreKept == Spec => []StoredFilesStay
<1>1. FileInv => StoredFilesStay
  BY DEF FileInv, StoredFilesStay
<1> QED
  BY <1>1, FilesHold, PTL
----------------------------------------------------------------------------
(* What is kept of a sequence.  A fact about its first n entries is proved by *)
(* induction on n, which takes the form of a set of naturals.                 *)

LEMMA Induction ==
    ASSUME NEW S, 0 \in S, \A n \in Nat : n \in S => n + 1 \in S
    PROVE  Nat \subseteq S
<1> DEFINE T == Nat \ S
           R == OpToRel(<, Nat)
<1> SUFFICES ASSUME T # {} PROVE FALSE
  OBVIOUS
<1>1. IsWellFoundedOn(R, Nat)
  BY NatLessThanWellFounded
<1>2. \A x, y \in Nat : <<y, x>> \in R <=> y < x
  BY DEF OpToRel
<1>3. T \subseteq Nat
  OBVIOUS
<1> HIDE DEF R, T
<1>4. PICK x \in T : \A y \in T : <<y, x>> \notin R
  BY <1>1, <1>3, WFMin
<1>5. x \in Nat /\ x \notin S
  BY <1>3 DEF T
<1>6. x # 0 /\ x - 1 \in Nat /\ (x - 1) + 1 = x /\ x - 1 < x
  BY <1>5
<1>7. x - 1 \in T
  BY <1>5, <1>6 DEF T
<1>8. <<x - 1, x>> \in R
  BY <1>2, <1>5, <1>6
<1> QED
  BY <1>4, <1>7, <1>8

\* One more step of the recursion in Kept, and what solves it up to n.
Longer(s, S, f, i) ==
    IF i = 0 THEN << >>
    ELSE IF s[i] \in S THEN Append(f[i - 1], s[i])
    ELSE f[i - 1]

Solves(f, s, n, S) == f = [i \in 0 .. n |-> Longer(s, S, f, i)]

LEMMA KeptSolves ==
    ASSUME NEW s, NEW n \in Nat, NEW S
    PROVE  \E f : Solves(f, s, n, S) /\ Kept(s, n, S) = f[n]
<1> DEFINE Good == {m \in Nat : \E f : Solves(f, s, m, S)}
<1>1. 0 \in Good
  <2>1. Solves([i \in 0 .. 0 |-> << >>], s, 0, S)
    BY DEF Longer, Solves
  <2> QED
    BY <2>1
<1>2. ASSUME NEW m \in Nat, m \in Good PROVE m + 1 \in Good
  <2>1. PICK f : Solves(f, s, m, S)
    BY <1>2
  <2> DEFINE g == [i \in 0 .. (m + 1) |-> IF i = m + 1 THEN Longer(s, S, f, i) ELSE f[i]]
  <2>2. \A i \in 0 .. (m + 1) : g[i] = Longer(s, S, g, i)
    <3> SUFFICES ASSUME NEW i \in 0 .. (m + 1) PROVE g[i] = Longer(s, S, g, i)
      OBVIOUS
    <3>1. i # 0 => i - 1 \in 0 .. m /\ g[i - 1] = f[i - 1]
      OBVIOUS
    <3>2. i \in 0 .. m => f[i] = Longer(s, S, f, i)
      BY <2>1 DEF Solves
    <3>3. g[i] = Longer(s, S, f, i)
      BY <3>2
    <3> QED
      BY <3>1, <3>3 DEF Longer
  <2>3. g = [i \in 0 .. (m + 1) |-> g[i]]
    OBVIOUS
  <2> HIDE DEF g
  <2>4. Solves(g, s, m + 1, S)
    BY <2>2, <2>3 DEF Solves
  <2> QED
    BY <2>4
<1> HIDE DEF Good
<1>3. Nat \subseteq Good
  BY <1>1, <1>2, Induction
<1>4. n \in Good
  BY <1>3
<1>5. \E f : Solves(f, s, n, S)
  BY <1>4 DEF Good
<1> DEFINE f == CHOOSE h : h = [i \in 0 .. n |->
                                  IF i = 0 THEN << >>
                                  ELSE IF s[i] \in S THEN Append(h[i - 1], s[i])
                                  ELSE h[i - 1]]
<1>6. f = [i \in 0 .. n |-> IF i = 0 THEN << >>
                            ELSE IF s[i] \in S THEN Append(f[i - 1], s[i])
                            ELSE f[i - 1]]
  BY <1>5 DEF Longer, Solves
<1>7. Kept(s, n, S) = f[n]
  BY DEF Kept
<1> HIDE DEF f
<1>8. Solves(f, s, n, S)
  BY <1>6 DEF Longer, Solves
<1> QED
  BY <1>7, <1>8

\* s and u have the same first n entries.
Alike(s, u, n) == \A i \in 1 .. n : s[i] = u[i]

\* Solutions for sequences that begin alike agree as far as they do.
LEMMA SolutionsAgree ==
    ASSUME NEW s, NEW u, NEW n \in Nat, NEW m \in Nat, n <= m, NEW S,
           Alike(s, u, n), NEW f, Solves(f, s, n, S), NEW g, Solves(g, u, m, S)
    PROVE  f[n] = g[n]
<1> DEFINE Good == {i \in Nat : i <= n => f[i] = g[i]}
<1>1. /\ \A i \in 0 .. n : f[i] = Longer(s, S, f, i)
      /\ \A i \in 0 .. m : g[i] = Longer(u, S, g, i)
  BY DEF Solves
<1>2. 0 \in Good
  BY <1>1 DEF Longer
<1>3. ASSUME NEW i \in Nat, i \in Good PROVE i + 1 \in Good
  <2> SUFFICES ASSUME i + 1 <= n PROVE f[i + 1] = g[i + 1]
    OBVIOUS
  <2>1. /\ i + 1 \in 0 .. n /\ i + 1 \in 0 .. m /\ i + 1 \in 1 .. n
        /\ (i + 1) - 1 = i /\ i + 1 # 0
    OBVIOUS
  <2>2. f[i] = g[i] /\ s[i + 1] = u[i + 1]
    BY <1>3, <2>1 DEF Alike
  <2>3. f[i + 1] = IF s[i + 1] \in S THEN Append(f[i], s[i + 1]) ELSE f[i]
    BY <1>1, <2>1 DEF Longer
  <2>4. g[i + 1] = IF u[i + 1] \in S THEN Append(g[i], u[i + 1]) ELSE g[i]
    BY <1>1, <2>1 DEF Longer
  <2> QED
    BY <2>2, <2>3, <2>4
<1> HIDE DEF Good
<1>4. n \in Good
  BY <1>2, <1>3, Induction
<1> QED
  BY <1>4 DEF Good

\* The first entries decide.
LEMMA KeptSame ==
    ASSUME NEW s, NEW u, NEW n \in Nat, NEW S, Alike(s, u, n)
    PROVE  Kept(s, n, S) = Kept(u, n, S)
<1>1. PICK f : Solves(f, s, n, S) /\ Kept(s, n, S) = f[n]
  BY KeptSolves
<1>2. PICK g : Solves(g, u, n, S) /\ Kept(u, n, S) = g[n]
  BY KeptSolves
<1>3. n <= n
  OBVIOUS
<1> QED
  BY <1>1, <1>2, <1>3, SolutionsAgree

LEMMA KeptNone ==
    ASSUME NEW s, NEW S
    PROVE  Kept(s, 0, S) = << >>
<1>1. PICK f : Solves(f, s, 0, S) /\ Kept(s, 0, S) = f[0]
  BY KeptSolves
<1>2. f[0] = << >>
  BY <1>1 DEF Solves, Longer
<1> QED
  BY <1>1, <1>2

\* One entry more.
LEMMA KeptNext ==
    ASSUME NEW s, NEW n \in Nat, NEW S
    PROVE  Kept(s, n + 1, S) = IF s[n + 1] \in S THEN Append(Kept(s, n, S), s[n + 1])
                               ELSE Kept(s, n, S)
<1>1. PICK f : Solves(f, s, n, S) /\ Kept(s, n, S) = f[n]
  BY KeptSolves
<1>2. n + 1 \in Nat /\ n <= n + 1
  OBVIOUS
<1>3. PICK g : Solves(g, s, n + 1, S) /\ Kept(s, n + 1, S) = g[n + 1]
  BY <1>2, KeptSolves
<1>4. Alike(s, s, n)
  BY DEF Alike
<1>5. f[n] = g[n]
  BY <1>1, <1>2, <1>3, <1>4, SolutionsAgree
<1>6. g[n + 1] = Longer(s, S, g, n + 1)
  BY <1>3 DEF Solves
<1>7. (n + 1) - 1 = n /\ n + 1 # 0
  OBVIOUS
<1> QED
  BY <1>1, <1>3, <1>5, <1>6, <1>7 DEF Longer

\* What is kept is a sequence of what may be kept.
LEMMA KeptType ==
    ASSUME NEW s, NEW n \in Nat, NEW S
    PROVE  Kept(s, n, S) \in Seq(S)
<1> DEFINE Good == {m \in Nat : Kept(s, m, S) \in Seq(S)}
<1>1. << >> \in Seq(S)
  OBVIOUS
<1>2. Kept(s, 0, S) \in Seq(S)
  BY <1>1, KeptNone
<1>3. ASSUME NEW m \in Nat, NEW k, k = Kept(s, m, S), k \in Seq(S)
      PROVE  Kept(s, m + 1, S) \in Seq(S)
  <2>1. Kept(s, m + 1, S) = IF s[m + 1] \in S THEN Append(k, s[m + 1]) ELSE k
    BY <1>3, KeptNext
  <2>2. ASSUME s[m + 1] \in S PROVE Append(k, s[m + 1]) \in Seq(S)
    <3>1. PICK x \in S : x = s[m + 1]
      BY <2>2
    <3>2. Append(k, x) \in Seq(S)
      BY <1>3, AppendProperties
    <3> QED
      BY <3>1, <3>2
  <2> QED
    BY <1>3, <2>1, <2>2, Zenon
<1>4. 0 \in Good
  BY <1>2, Zenon DEF Good
<1>5. ASSUME NEW m \in Nat, m \in Good PROVE m + 1 \in Good
  <2>1. Kept(s, m, S) \in Seq(S)
    BY <1>5, Zenon
  <2>2. Kept(s, m + 1, S) \in Seq(S)
    BY <1>3, <2>1, Zenon
  <2>3. m + 1 \in Nat
    OBVIOUS
  <2> QED
    BY <2>2, <2>3, Zenon
<1> HIDE DEF Good
<1>6. n \in Good
  BY <1>4, <1>5, Induction
<1> QED
  BY <1>6, Zenon DEF Good

\* To keep of what is kept in A what is in B, is to keep what is in B.
LEMMA KeptTwice ==
    ASSUME NEW s, NEW n \in Nat, NEW A, NEW B, B \subseteq A
    PROVE  Kept(Kept(s, n, A), Len(Kept(s, n, A)), B) = Kept(s, n, B)
<1> DEFINE Good == {m \in Nat : Kept(Kept(s, m, A), Len(Kept(s, m, A)), B) = Kept(s, m, B)}
<1>1. 0 \in Good
  <2>1. Len(<< >>) = 0
    OBVIOUS
  <2> QED
    BY <2>1, KeptNone
<1>2. ASSUME NEW m \in Nat, m \in Good PROVE m + 1 \in Good
  <2>1. PICK k, x : k = Kept(s, m, A) /\ x = s[m + 1]
    OBVIOUS
  <2>2. k \in Seq(A) /\ Len(k) \in Nat
    <3>1. k \in Seq(A)
      BY <2>1, KeptType
    <3> QED
      BY <3>1
  <2>3. Kept(k, Len(k), B) = Kept(s, m, B)
    BY <1>2, <2>1
  <2>4. Kept(s, m + 1, A) = IF x \in A THEN Append(k, x) ELSE k
    BY <2>1, KeptNext
  <2>5. Kept(s, m + 1, B) = IF x \in B THEN Append(Kept(s, m, B), x) ELSE Kept(s, m, B)
    BY <2>1, KeptNext
  <2>6. CASE x \in A
    <3>1. PICK u : u = Append(k, x)
      OBVIOUS
    <3>2. /\ Len(u) = Len(k) + 1 /\ u[Len(k) + 1] = x
          /\ \A i \in 1 .. Len(k) : u[i] = k[i]
      BY <2>2, <2>6, <3>1
    <3>3. Kept(u, Len(k) + 1, B) = IF x \in B THEN Append(Kept(u, Len(k), B), x)
                                   ELSE Kept(u, Len(k), B)
      BY <2>2, <3>2, KeptNext
    <3>4. Kept(u, Len(k), B) = Kept(k, Len(k), B)
      <4>1. Alike(u, k, Len(k))
        BY <3>2 DEF Alike
      <4> QED
        BY <2>2, <4>1, KeptSame
    <3>5. Kept(s, m + 1, A) = u
      BY <2>4, <2>6, <3>1
    <3>6. Kept(u, Len(u), B) = Kept(s, m + 1, B)
      BY <2>3, <2>5, <3>2, <3>3, <3>4
    <3> QED
      BY <3>5, <3>6
  <2>7. CASE x \notin A
    BY <2>1, <2>3, <2>4, <2>5, <2>7
  <2> QED
    BY <2>6, <2>7
<1> HIDE DEF Good
<1>3. n \in Good
  BY <1>1, <1>2, Induction
<1> QED
  BY <1>3 DEF Good

----------------------------------------------------------------------------
\* No call lies behind the end of the chain, and only the top one may not have
\* called next yet: nothing has been entered after it.
CallsInv ==
    /\ TypeOK
    /\ pc = "start" => index = 0 /\ stack = << >>
    /\ \A k \in 1 .. Len(stack) :
           /\ stack[k].at <= Len(chain)
           /\ stack[k].nexts = 0 => k = Len(stack) /\ stack[k].at = index

\* The middleware of the chain, as far as it has been entered, are those that are
\* recorded; of the ones terminate has been through, the terminable were terminated.
RanInv ==
    /\ executed = Kept(chain, Entered, Middleware)
    /\ pc \in {"start", "running"} => visited = 0
    /\ visited <= Len(executed)
    /\ terminated = Kept(executed, visited, Terminable)
    /\ pc = "done" => visited = Len(executed)

\* A call of next, on a chain that may have become longer.
LEMMA CallsNext ==
    ASSUME NEW handlers \in Seq(Entries), CallsInv, TypeOK', stack # << >>, pc' # "start",
           Len(chain) <= Len(handlers), Len(chain') = Len(handlers),
           Advance(handlers, Counted(stack))
    PROVE  CallsInv'
<1>1. TypeOK /\ chain \in Seq(Entries)
  BY DEF CallsInv, TypeOK, Entries
<1>2. /\ stack \in Seq(Frame)
      /\ stack' \in Seq(Frame)
      /\ Len(stack) \in Nat \ {0}
      /\ Len(stack') \in {Len(stack), Len(stack) + 1}
      /\ \A k \in 1 .. Len(stack) :
             /\ stack'[k].at = stack[k].at
             /\ stack'[k].nexts = IF k = Len(stack) THEN stack[k].nexts + 1
                                  ELSE stack[k].nexts
      /\ Len(stack') = Len(stack) + 1 => stack'[Len(stack) + 1] = [at |-> index + 1, nexts |-> 0]
  BY <1>1, NextFrames DEF TypeOK
<1>3. index \in Nat /\ index' = index + 1
  BY <1>1 DEF TypeOK, Advance
<1>4. \A k \in 1 .. Len(stack) : stack[k].at \in Nat /\ stack[k].nexts \in Nat
  BY <1>2, FrameParts
<1>5. Counted(stack) \in Seq(Frame) /\ Len(Counted(stack)) = Len(stack)
  BY <1>2, CountedFrames
<1>6. Len(stack') = Len(stack) + 1 => index + 1 <= Len(handlers)
  BY <1>1, <1>2, <1>5, AdvanceCases
<1>7. Len(chain) \in Nat /\ Len(handlers) \in Nat
  BY <1>1
<1>8. ASSUME NEW k \in 1 .. Len(stack')
      PROVE  /\ stack'[k].at <= Len(chain')
             /\ stack'[k].nexts = 0 => k = Len(stack') /\ stack'[k].at = index'
  <2>1. CASE k \in 1 .. Len(stack)
    <3>1. stack'[k].at <= Len(chain')
      BY <1>2, <1>4, <1>7, <2>1 DEF CallsInv
    <3>2. stack[k].nexts = 0 => k = Len(stack)
      BY <2>1 DEF CallsInv
    <3>3. stack'[k].nexts # 0
      BY <1>2, <1>4, <2>1, <3>2
    <3> QED
      BY <3>1, <3>3
  <2>2. CASE k = Len(stack) + 1
    <3>1. Len(stack') = Len(stack) + 1
      BY <1>2, <2>2
    <3>2. stack'[k].at = index + 1
      BY <1>2, <2>2, <3>1
    <3> QED
      BY <1>3, <1>6, <2>2, <3>1, <3>2
  <2> QED
    BY <1>2, <2>1, <2>2
<1> QED
  BY <1>8 DEF CallsInv

\* Calls that return or are unwound: those below them have called next.
LEMMA CallsPrefix ==
    ASSUME CallsInv, TypeOK', NEW n \in 0 .. Len(stack), n < Len(stack), pc' # "start",
           stack' = SubSeq(stack, 1, n), UNCHANGED <<index, chain>>
    PROVE  CallsInv'
<1>1. /\ Len(stack') = n
      /\ \A k \in 1 .. n : stack'[k] = stack[k]
      /\ \A k \in 1 .. n : k \in 1 .. Len(stack) /\ k # Len(stack)
  BY PrefixFrames DEF CallsInv, TypeOK
<1> QED
  BY <1>1 DEF CallsInv

\* Every step keeps the calls in the chain.
LEMMA CallsStep ==
    ASSUME CallsInv, [Next]_vars
    PROVE  CallsInv'
<1>t. TypeOK'
  BY TypeStep DEF CallsInv
<1>s. /\ TypeOK
      /\ chain \in Seq(Entries) /\ chain' \in Seq(Entries) /\ stack \in Seq(Frame)
      /\ index \in Nat /\ Len(chain) \in Nat
  BY <1>t DEF CallsInv, TypeOK, Entries
<1> USE <1>s, <1>t DEF control, ending, files
<1>1. CASE Start
  <2>1. pc' = "running" /\ index = 0 /\ stack = << >> /\ UNCHANGED chain
    BY <1>1 DEF Start, CallsInv
  <2>2. /\ index' = 1
        /\ \/ stack' = << >>
           \/ 1 <= Len(chain) /\ stack' = << [at |-> 1, nexts |-> 0] >>
    BY <1>1, <2>1 DEF Start, Advance
  <2>3. CASE stack' = << >>
    BY <2>1, <2>3 DEF CallsInv
  <2>4. CASE 1 <= Len(chain) /\ stack' = << [at |-> 1, nexts |-> 0] >>
    <3>1. Len(stack') = 1 /\ stack'[1].at = 1
      BY <2>4
    <3> QED
      BY <2>1, <2>2, <2>4, <3>1 DEF CallsInv
  <2> QED
    BY <2>2, <2>3, <2>4
<1>2. CASE CallNext
  <2>1. /\ stack # << >> /\ pc' # "start" /\ UNCHANGED chain
        /\ Advance(chain, Counted(stack))
    BY <1>2 DEF CallNext, Running
  <2>2. Len(chain) <= Len(chain) /\ Len(chain') = Len(chain)
    BY <2>1
  <2> QED
    BY <2>1, <2>2, CallsNext
<1>3. CASE DispatchRoute
  <2>1. stack # << >> /\ pc' # "start"
    BY <1>3 DEF DispatchRoute, Running
  <2>2. PICK middleware \in RouteChains :
            /\ chain' = chain \o Append(middleware, Handler)
            /\ Advance(chain', Counted(stack))
    BY <1>3 DEF DispatchRoute
  <2>3. Len(chain) <= Len(chain')
    BY <2>2, SplicedChain
  <2>4. PICK handlers \in Seq(Entries) : handlers = chain'
    OBVIOUS
  <2>5. /\ Advance(handlers, Counted(stack))
        /\ Len(chain) <= Len(handlers) /\ Len(chain') = Len(handlers)
    BY <2>2, <2>3, <2>4
  <2> QED
    BY <2>1, <2>5, CallsNext
<1>4. CASE DispatchNothing
  <2>1. stack # << >> /\ stack' = Counted(stack) /\ pc' # "start" /\ UNCHANGED <<index, chain>>
    BY <1>4 DEF DispatchNothing, Running
  <2>2. /\ Len(stack) \in Nat \ {0}
        /\ Len(stack') = Len(stack)
        /\ \A k \in 1 .. Len(stack) :
               /\ stack'[k].at = stack[k].at
               /\ stack'[k].nexts = IF k = Len(stack) THEN stack[k].nexts + 1
                                    ELSE stack[k].nexts
    BY <2>1, CountedFrames
  <2>3. ASSUME NEW k \in 1 .. Len(stack)
        PROVE  stack'[k].nexts # 0 /\ stack'[k].at <= Len(chain')
    <3>1. stack[k].at \in Nat /\ stack[k].nexts \in Nat
      BY FrameParts
    <3>2. stack[k].at <= Len(chain) /\ (stack[k].nexts = 0 => k = Len(stack))
      BY DEF CallsInv
    <3> QED
      BY <2>1, <2>2, <3>1, <3>2
  <2> QED
    BY <2>1, <2>2, <2>3 DEF CallsInv
<1>5. CASE Return
  <2>1. /\ stack' = SubSeq(stack, 1, Len(stack) - 1) /\ UNCHANGED <<index, chain>>
        /\ pc' # "start" /\ stack # << >>
    BY <1>5 DEF Return, Running
  <2>2. PICK n \in 0 .. Len(stack) : n = Len(stack) - 1
    BY <2>1
  <2>3. n < Len(stack) /\ stack' = SubSeq(stack, 1, n)
    BY <2>1, <2>2
  <2> QED
    BY <2>1, <2>3, CallsPrefix
<1>6. CASE PanicRecovered
  <2>1. PICK k \in 1 .. Len(stack) :
            /\ stack' = SubSeq(stack, 1, k - 1)
            /\ pc' = IF k = 1 THEN "terminate" ELSE pc
    BY <1>6 DEF PanicRecovered
  <2>2. pc' # "start" /\ UNCHANGED <<index, chain>>
    BY <1>6, <2>1 DEF PanicRecovered, UserCode, Running
  <2>3. PICK n \in 0 .. Len(stack) : n = k - 1 /\ n < Len(stack)
    OBVIOUS
  <2>4. stack' = SubSeq(stack, 1, n)
    BY <2>1, <2>3
  <2> QED
    BY <2>2, <2>3, <2>4, CallsPrefix
<1>7. CASE PanicUnrecovered
  BY <1>7 DEF PanicUnrecovered, CallsInv
<1>8. CASE TakeUpload
  BY <1>8 DEF TakeUpload, CallsInv
<1>9. CASE StoreAs
  BY <1>9 DEF StoreAs, CallsInv
<1>10. CASE Terminate
  BY <1>10 DEF Terminate, CallsInv
<1>11. CASE TerminatePanics
  BY <1>11 DEF TerminatePanics, CallsInv
<1>12. CASE Cleanup
  BY <1>12 DEF Cleanup, CallsInv
<1>13. CASE UNCHANGED vars
  BY <1>13 DEF vars, CallsInv
<1> QED
  BY <1>1, <1>2, <1>3, <1>4, <1>5, <1>6, <1>7, <1>8, <1>9, <1>10, <1>11, <1>12, <1>13
     DEF Next, Over

\* One call of next enters one handler more, or none at the end of the chain.
LEMMA RanNext ==
    ASSUME NEW handlers \in Seq(Entries), NEW calls, NEW n \in Nat, NEW i \in Nat,
           n = IF i <= Len(handlers) THEN i ELSE Len(handlers), i = index,
           executed = Kept(handlers, n, Middleware), Advance(handlers, calls)
    PROVE  executed' = Kept(handlers, IF i + 1 <= Len(handlers) THEN i + 1 ELSE Len(handlers),
                            Middleware)
<1>1. Len(handlers) \in Nat
  OBVIOUS
<1>2. CASE i + 1 <= Len(handlers)
  <2>1. n = i
    BY <1>1, <1>2
  <2>2. executed' = IF handlers[i + 1] \in Middleware
                    THEN Append(executed, handlers[i + 1]) ELSE executed
    BY <1>2 DEF Advance
  <2>3. Kept(handlers, i + 1, Middleware) =
            IF handlers[i + 1] \in Middleware
            THEN Append(Kept(handlers, i, Middleware), handlers[i + 1])
            ELSE Kept(handlers, i, Middleware)
    BY KeptNext
  <2> QED
    BY <1>2, <2>1, <2>2, <2>3
<1>3. CASE ~(i + 1 <= Len(handlers))
  <2>1. n = Len(handlers)
    BY <1>1, <1>3
  <2>2. executed' = executed
    BY <1>3 DEF Advance
  <2> QED
    BY <1>3, <2>1, <2>2
<1> QED
  BY <1>2, <1>3

\* What the lists of a running request come to, when a call of next was made.
LEMMA RanRunning ==
    ASSUME TypeOK, TypeOK', RanInv, pc \in {"start", "running"}, pc' = "running",
           UNCHANGED ending, executed' = Kept(chain', Entered', Middleware)
    PROVE  RanInv'
<1>1. visited = 0 /\ visited' = 0 /\ terminated' = terminated
  BY DEF RanInv, ending
<1>2. terminated = << >>
  BY <1>1, KeptNone DEF RanInv
<1>3. terminated' = Kept(executed', visited', Terminable)
  BY <1>1, <1>2, KeptNone
<1>4. visited' <= Len(executed')
  BY <1>1 DEF TypeOK
<1> QED
  BY <1>1, <1>3, <1>4 DEF RanInv

\* Every step keeps the lists in line with the chain.
LEMMA RanStep ==
    ASSUME CallsInv, RanInv, [Next]_vars
    PROVE  RanInv'
<1>t. TypeOK'
  BY TypeStep DEF CallsInv
<1>s. /\ TypeOK
      /\ chain \in Seq(Entries) /\ chain' \in Seq(Entries) /\ stack \in Seq(Frame)
      /\ index \in Nat /\ Len(chain) \in Nat /\ Entered \in Nat
      /\ visited \in Nat /\ Len(executed) \in Nat
  BY <1>t DEF CallsInv, TypeOK, Entries, Entered
<1> USE <1>s, <1>t
<1>1. CASE Start
  <2>1. /\ Advance(chain, stack) /\ UNCHANGED <<chain, ending>>
        /\ pc = "start" /\ pc' = "running" /\ index' = index + 1
    BY <1>1 DEF Start, Advance
  <2>2. executed = Kept(chain, Entered, Middleware)
    BY DEF RanInv
  <2>3. executed' = Kept(chain, IF index + 1 <= Len(chain) THEN index + 1 ELSE Len(chain),
                         Middleware)
    BY <2>1, <2>2, RanNext DEF Entered
  <2>4. executed' = Kept(chain', Entered', Middleware)
    BY <2>1, <2>3 DEF Entered
  <2> QED
    BY <2>1, <2>4, RanRunning
<1>2. CASE CallNext
  <2>1. /\ Advance(chain, Counted(stack)) /\ UNCHANGED <<chain, ending>>
        /\ pc = "running" /\ pc' = "running" /\ index' = index + 1
    BY <1>2 DEF CallNext, Running, Advance
  <2>2. executed = Kept(chain, Entered, Middleware)
    BY DEF RanInv
  <2>3. executed' = Kept(chain, IF index + 1 <= Len(chain) THEN index + 1 ELSE Len(chain),
                         Middleware)
    BY <2>1, <2>2, RanNext DEF Entered
  <2>4. executed' = Kept(chain', Entered', Middleware)
    BY <2>1, <2>3 DEF Entered
  <2> QED
    BY <2>1, <2>4, RanRunning
<1>3. CASE DispatchRoute
  <2>1. /\ Advance(chain', Counted(stack)) /\ UNCHANGED ending
        /\ pc = "running" /\ pc' = "running" /\ index' = index + 1
        /\ stack # << >> /\ Top.nexts = 0
    BY <1>3 DEF DispatchRoute, Running, Advance
  <2>2. PICK middleware \in RouteChains : chain' = chain \o Append(middleware, Handler)
    BY <1>3 DEF DispatchRoute
  <2>3. Alike(chain, chain', Len(chain)) /\ Len(chain) <= Len(chain')
    BY <2>2, SplicedChain DEF Alike
  <2>4. index <= Len(chain)
    <3>1. Len(stack) \in 1 .. Len(stack)
      BY <2>1, EmptySeq, LenProperties
    <3> QED
      BY <2>1, <3>1 DEF CallsInv, Top
  <2>5. Alike(chain, chain', index)
    BY <2>3, <2>4 DEF Alike
  <2>6. PICK handlers \in Seq(Entries) : handlers = chain'
    OBVIOUS
  <2>7. executed = Kept(handlers, index, Middleware)
    <3>1. Kept(chain, index, Middleware) = Kept(handlers, index, Middleware)
      BY <2>5, <2>6, KeptSame
    <3>2. Entered = index
      BY <2>4 DEF Entered
    <3> QED
      BY <3>1, <3>2 DEF RanInv
  <2>8. index = IF index <= Len(handlers) THEN index ELSE Len(handlers)
    BY <2>3, <2>4, <2>6
  <2>9. executed' = Kept(handlers, IF index + 1 <= Len(handlers) THEN index + 1
                                   ELSE Len(handlers), Middleware)
    <3>1. Advance(handlers, Counted(stack))
      BY <2>1, <2>6
    <3> QED
      BY <2>7, <2>8, <3>1, RanNext
  <2>10. executed' = Kept(chain', Entered', Middleware)
    BY <2>1, <2>6, <2>9 DEF Entered
  <2> QED
    BY <2>1, <2>10, RanRunning
<1>4. CASE DispatchNothing
  BY <1>4 DEF DispatchNothing, Running, RanInv, Entered, ending
<1>5. CASE Return
  BY <1>5 DEF Return, Running, RanInv, Entered, ending
<1>6. CASE PanicRecovered
  BY <1>6 DEF PanicRecovered, UserCode, Running, RanInv, Entered, ending
<1>7. CASE PanicUnrecovered
  BY <1>7 DEF PanicUnrecovered, UserCode, Running, RanInv, Entered, ending
<1>8. CASE TakeUpload
  BY <1>8 DEF TakeUpload, RanInv, Entered, ending, control
<1>9. CASE StoreAs
  BY <1>9 DEF StoreAs, RanInv, Entered, ending, control
<1>10. CASE Terminate
  <2>1. /\ pc = "terminate" /\ UNCHANGED <<pc, chain, index, executed>>
        /\ visited' = visited + 1 /\ visited + 1 <= Len(executed)
        /\ terminated' = IF executed[visited + 1] \in Terminable
                         THEN Append(terminated, executed[visited + 1]) ELSE terminated
    BY <1>10 DEF Terminate, control
  <2>2. terminated = Kept(executed, visited, Terminable)
    BY DEF RanInv
  <2>3. terminated' = Kept(executed, visited + 1, Terminable)
    BY <2>1, <2>2, KeptNext
  <2> QED
    BY <2>1, <2>3 DEF RanInv, Entered
<1>11. CASE TerminatePanics
  BY <1>11 DEF TerminatePanics, RanInv, Entered, ending
<1>12. CASE Cleanup
  BY <1>12 DEF Cleanup, RanInv, Entered, ending
<1>13. CASE UNCHANGED vars
  BY <1>13 DEF vars, RanInv, Entered, ending, control
<1> QED
  BY <1>1, <1>2, <1>3, <1>4, <1>5, <1>6, <1>7, <1>8, <1>9, <1>10, <1>11, <1>12, <1>13
     DEF Next, Over

\* A request that is finished has terminated the terminable middleware that it
\* entered and no others, in their order, however its calls of next, its panics
\* and its dispatch were nested, and if a middleware calls next many times
\* (toHandler, Kernel.terminate).
THEOREM RanAreTerminated == Spec => []TerminatesWhatRan
<1>1. Init => CallsInv /\ RanInv
  <2> SUFFICES ASSUME Init PROVE CallsInv /\ RanInv
    OBVIOUS
  <2>1. TypeOK
    BY InitType
  <2>2. /\ pc = "start" /\ index = 0 /\ stack = << >> /\ executed = << >>
        /\ visited = 0 /\ terminated = << >>
    BY DEF Init
  <2>3. CallsInv
    BY <2>1, <2>2 DEF CallsInv
  <2>4. Entered = 0
    BY <2>1, <2>2 DEF Entered, TypeOK
  <2>5. executed = Kept(chain, Entered, Middleware) /\ terminated = Kept(executed, visited, Terminable)
    BY <2>2, <2>4, KeptNone
  <2>6. visited <= Len(executed)
    BY <2>2
  <2> QED
    BY <2>2, <2>3, <2>5, <2>6 DEF RanInv
<1>2. CallsInv /\ RanInv => TerminatesWhatRan
  <2> SUFFICES ASSUME CallsInv, RanInv, pc = "done"
               PROVE  terminated = Kept(chain, Entered, Terminable)
    BY DEF TerminatesWhatRan
  <2>1. executed = Kept(chain, Entered, Middleware)
        /\ terminated = Kept(executed, Len(executed), Terminable)
    BY DEF RanInv
  <2>2. Entered \in Nat /\ Terminable \subseteq Middleware
    BY ChainAssumption DEF CallsInv, TypeOK, Entered
  <2>3. Kept(Kept(chain, Entered, Middleware), Len(Kept(chain, Entered, Middleware)), Terminable)
            = Kept(chain, Entered, Terminable)
    BY <2>2, KeptTwice
  <2> QED
    BY <2>1, <2>3
<1> QED
  BY <1>1, <1>2, CallsStep, RanStep, PTL DEF Spec
============================================================================
