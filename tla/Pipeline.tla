------------------------------ MODULE Pipeline ------------------------------
(***************************************************************************)
(* One request through Kernel.ServeHTTP: the handler chain that            *)
(* Context.Next walks recursively, dispatch splicing a route's middleware  *)
(* into it, Recover, Terminate, and the request's temporary uploads.       *)
(*                                                                         *)
(* A frame of `stack` is a call of the handler at position `at` of the     *)
(* chain, with the number of times it has called next.  What middleware    *)
(* and handlers do is chosen freely: call next, take and store uploads,    *)
(* panic, return.                                                          *)
(***************************************************************************)
EXTENDS Naturals, Sequences

CONSTANTS
    Middleware,
    Recover,       \* the middleware that recovers panics
    Terminable,    \* the middleware that implement TerminableMiddleware
    Globals,       \* the values Kernel.GlobalMiddleware may have
    RouteChains,   \* what resolveRouteMiddleware returns for each route
    Dispatch, Handler,  \* the chain's other entries
    MaxNext,       \* bound on how often a middleware calls next
    MaxUploads,    \* bound on calls of Context.File
    MaxStores,     \* bound on calls of StoreAs on one upload
    MaxFaults      \* bound on copies that fail half-way

ASSUME ChainAssumption ==
    /\ Globals \subseteq Seq(Middleware)
    /\ RouteChains \subseteq Seq(Middleware)
    /\ Recover \in Middleware
    /\ Terminable \subseteq Middleware
    /\ Dispatch \notin Middleware
    /\ Handler \notin Middleware
    /\ Dispatch # Handler
ASSUME BoundAssumption ==
    MaxNext \in Nat /\ MaxUploads \in Nat /\ MaxStores \in Nat /\ MaxFaults \in Nat

File == 1 .. MaxUploads

\* Where a file is: its temporary path, or the n-th path it was stored at.
Path == 0 .. MaxStores
Temp == 0

VARIABLES
    pc,          \* "start", "running", "terminate", "done", or how net/http saw it die
    chain,       \* Context.handlers
    index,       \* Context.index, counted from 1
    stack,       \* the calls in progress
    executed,    \* Context.executed
    visited,     \* how many of them Kernel.terminate has been through
    terminated,  \* history: whose Terminate has returned
    fallback,    \* dispatch is running the fallback handler
    uploads,     \* how many files File has created
    tracked,     \* Context.tempFiles
    path,        \* UploadedFile.tempPath
    disk,        \* the files that exist
    faults,
    stopped      \* history: positions whose middleware returned without next

control == <<pc, chain, index, stack, executed, fallback, stopped>>
ending == <<visited, terminated>>
files == <<uploads, tracked, path, disk, faults>>
vars == <<control, ending, files>>

Frame == [at : Nat \ {0}, nexts : Nat]

TypeOK ==
    /\ pc \in {"start", "running", "terminate", "done", "crashed", "aborted"}
    /\ chain \in Seq(Middleware \cup {Dispatch, Handler})
    /\ index \in Nat
    /\ stack \in Seq(Frame)
    /\ executed \in Seq(Middleware)
    /\ visited \in Nat
    /\ terminated \in Seq(Middleware)
    /\ fallback \in BOOLEAN
    /\ uploads \in 0 .. MaxUploads
    /\ tracked \subseteq File
    /\ path \in [File -> Path]
    /\ disk \subseteq File \X Path
    /\ faults \in Nat
    /\ stopped \subseteq Nat

Init ==
    /\ pc = "start"
    /\ \E global \in Globals : chain = Append(global, Dispatch)
    /\ index = 0
    /\ stack = << >>
    /\ executed = << >>
    /\ visited = 0
    /\ terminated = << >>
    /\ fallback = FALSE
    /\ uploads = 0
    /\ tracked = {}
    /\ path = [f \in File |-> Temp]
    /\ disk = {}
    /\ faults = 0
    /\ stopped = {}

----------------------------------------------------------------------------
Top == stack[Len(stack)]
Running == pc = "running" /\ stack # << >>
Entry(frame) == chain[frame.at]

\* The code that runs is the application's: a middleware, the route's handler or
\* the fallback.
UserCode ==
    /\ Running
    /\ Entry(Top) # Recover
    /\ Entry(Top) = Dispatch => fallback

Counted(s) == [s EXCEPT ![Len(s)] = [at |-> @.at, nexts |-> @.nexts + 1]]

\* Mutant of Advance: dispatch adds a route's middleware without toHandler.
AdvanceUnwrapped(handlers, calls) ==
    /\ index' = index + 1
    /\ IF index + 1 <= Len(handlers)
       THEN /\ stack' = Append(calls, [at |-> index + 1, nexts |-> 0])
            /\ executed' = IF \A k \in 1 .. index + 1 : handlers[k] \in Middleware
                           THEN Append(executed, handlers[index + 1])
                           ELSE executed
       ELSE /\ stack' = calls
            /\ UNCHANGED executed

\* Context.Next on the given handlers; a middleware enters through toHandler.
Advance(handlers, calls) ==
    /\ index' = index + 1
    /\ IF index + 1 <= Len(handlers)
       THEN /\ stack' = Append(calls, [at |-> index + 1, nexts |-> 0])
            /\ executed' = IF handlers[index + 1] \in Middleware
                           THEN Append(executed, handlers[index + 1])
                           ELSE executed
       ELSE /\ stack' = calls
            /\ UNCHANGED executed

\* ServeHTTP starts the chain.
Start ==
    /\ pc = "start"
    /\ pc' = "running"
    /\ Advance(chain, stack)
    /\ UNCHANGED <<chain, fallback, stopped, ending, files>>

\* A middleware calls next.  Recover does so once.
CallNext ==
    /\ Running
    /\ Entry(Top) \in Middleware
    /\ Top.nexts < IF Entry(Top) = Recover THEN 1 ELSE MaxNext
    /\ Advance(chain, Counted(stack))
    /\ UNCHANGED <<pc, chain, fallback, stopped, ending, files>>

\* dispatch found a route: its middleware and handler join the chain.
DispatchRoute ==
    /\ Running
    /\ Entry(Top) = Dispatch
    /\ Top.nexts = 0
    /\ ~fallback
    /\ \E middleware \in RouteChains :
           /\ chain' = chain \o Append(middleware, Handler)
           /\ Advance(chain', Counted(stack))
    /\ UNCHANGED <<pc, fallback, stopped, ending, files>>

\* dispatch found none: it answers 404 or 405, or calls the fallback handler.
DispatchNothing ==
    /\ Running
    /\ Entry(Top) = Dispatch
    /\ Top.nexts = 0
    /\ ~fallback
    /\ stack' = Counted(stack)
    /\ fallback' \in BOOLEAN
    /\ UNCHANGED <<pc, chain, index, executed, stopped, ending, files>>

\* Mutant of Return: Next is a loop, which goes on to the handler that follows.
ReturnIterating ==
    /\ Running
    /\ Entry(Top) \in {Recover, Dispatch} => Top.nexts > 0
    /\ stopped' = IF Entry(Top) \in Middleware /\ Top.nexts = 0
                  THEN stopped \cup {Top.at} ELSE stopped
    /\ IF index < Len(chain)
       THEN /\ index' = index + 1
            /\ stack' = [stack EXCEPT ![Len(stack)] = [at |-> index + 1, nexts |-> 0]]
            /\ UNCHANGED pc
       ELSE /\ stack' = SubSeq(stack, 1, Len(stack) - 1)
            /\ pc' = IF Len(stack) = 1 THEN "terminate" ELSE pc
            /\ UNCHANGED index
    /\ UNCHANGED <<chain, executed, fallback, ending, files>>

\* The running call returns to the one that called next, or to ServeHTTP.
Return ==
    /\ Running
    /\ Entry(Top) \in {Recover, Dispatch} => Top.nexts > 0
    /\ stopped' = IF Entry(Top) \in Middleware /\ Top.nexts = 0
                  THEN stopped \cup {Top.at} ELSE stopped
    /\ stack' = SubSeq(stack, 1, Len(stack) - 1)
    /\ pc' = IF Len(stack) = 1 THEN "terminate" ELSE pc
    /\ UNCHANGED <<chain, index, executed, fallback, ending, files>>

\* A panic unwinds to the innermost Recover, which renders it and returns.
PanicRecovered ==
    /\ UserCode
    /\ \E k \in 1 .. Len(stack) :
           /\ Entry(stack[k]) = Recover
           /\ \A j \in k + 1 .. Len(stack) : Entry(stack[j]) # Recover
           /\ stack' = SubSeq(stack, 1, k - 1)
           /\ pc' = IF k = 1 THEN "terminate" ELSE pc
    /\ UNCHANGED <<chain, index, executed, fallback, stopped, ending, files>>

\* Mutant of PanicUnrecovered: a Recover below the top of the stack is missed.
PanicMissingRecover ==
    /\ UserCode
    /\ pc' = "crashed"
    /\ stack' = << >>
    /\ UNCHANGED <<chain, index, executed, fallback, stopped, ending, files>>

\* A panic outside Recover leaves ServeHTTP: nothing is terminated or cleaned up.
PanicUnrecovered ==
    /\ UserCode
    /\ \A k \in 1 .. Len(stack) : Entry(stack[k]) # Recover
    /\ pc' = "crashed"
    /\ stack' = << >>
    /\ UNCHANGED <<chain, index, executed, fallback, stopped, ending, files>>

\* Mutant of TakeUpload: the Context remembers only the last file.
TakeUploadForgetting ==
    /\ UserCode
    /\ uploads < MaxUploads
    /\ uploads' = uploads + 1
    /\ disk' = disk \cup {<<uploads + 1, Temp>>}
    /\ tracked' = {uploads + 1}
    /\ UNCHANGED <<control, ending, path, faults>>

\* Context.File: the upload is copied to a new temporary file, which is tracked
\* once the copy is complete.
TakeUpload ==
    /\ UserCode
    /\ uploads < MaxUploads
    /\ uploads' = uploads + 1
    /\ disk' = disk \cup {<<uploads + 1, Temp>>}
    /\ \/ /\ tracked' = tracked \cup {uploads + 1}
          /\ UNCHANGED faults
       \/ /\ faults < MaxFaults
          /\ faults' = faults + 1
          /\ UNCHANGED tracked
    /\ UNCHANGED <<control, ending, path>>

\* UploadedFile.StoreAs moves the file from where it is, by renaming it or by
\* copying and removing it; a copy that fails leaves a part at the destination.
StoreAs ==
    /\ UserCode
    /\ \E f \in tracked :
           /\ path[f] < MaxStores
           /\ \/ /\ disk' = (disk \ {<<f, path[f]>>}) \cup {<<f, path[f] + 1>>}
                 /\ path' = [path EXCEPT ![f] = @ + 1]
                 /\ UNCHANGED faults
              \/ /\ faults < MaxFaults
                 /\ faults' = faults + 1
                 /\ disk' = disk \cup {<<f, path[f] + 1>>}
                 /\ UNCHANGED path
    /\ UNCHANGED <<control, ending, uploads, tracked>>

\* One turn of Kernel.terminate's loop.
Terminate ==
    /\ pc = "terminate"
    /\ visited < Len(executed)
    /\ visited' = visited + 1
    /\ terminated' = IF executed[visited + 1] \in Terminable
                     THEN Append(terminated, executed[visited + 1]) ELSE terminated
    /\ UNCHANGED <<control, files>>

\* A Terminate that panics: nobody is left to recover it.
TerminatePanics ==
    /\ pc = "terminate"
    /\ visited < Len(executed)
    /\ executed[visited + 1] \in Terminable
    /\ pc' = "aborted"
    /\ UNCHANGED <<chain, index, stack, executed, fallback, stopped, ending, files>>

\* Mutant of Cleanup: a file is removed from where it is now.
CleanupCurrent ==
    /\ pc = "terminate"
    /\ visited = Len(executed)
    /\ pc' = "done"
    /\ disk' = disk \ {<<f, path[f]>> : f \in tracked}
    /\ UNCHANGED <<chain, index, stack, executed, fallback, stopped, ending,
                   uploads, tracked, path, faults>>

\* Context.cleanupTempFiles removes the paths that File created.
Cleanup ==
    /\ pc = "terminate"
    /\ visited = Len(executed)
    /\ pc' = "done"
    /\ disk' = disk \ {<<f, Temp>> : f \in tracked}
    /\ UNCHANGED <<chain, index, stack, executed, fallback, stopped, ending,
                   uploads, tracked, path, faults>>

\* The request is over.
Over ==
    /\ pc \in {"done", "crashed", "aborted"}
    /\ UNCHANGED vars

Next ==
    \/ Start
    \/ CallNext
    \/ DispatchRoute
    \/ DispatchNothing
    \/ Return
    \/ PanicRecovered
    \/ PanicUnrecovered
    \/ TakeUpload
    \/ StoreAs
    \/ Terminate
    \/ TerminatePanics
    \/ Cleanup
    \/ Over

Spec == Init /\ [][Next]_vars

----------------------------------------------------------------------------
(* Properties *)

\* Nothing behind a middleware that returned without calling next runs, ever, on
\* the way back through the others included (Context.Next; docs/middleware.md,
\* "not calling next() genuinely stops the chain").
ShortCircuitStops ==
    \A i \in stopped : \A k \in 1 .. Len(stack) : stack[k].at <= i

\* How far the chain has been entered: calls of next at its end find no handler.
Entered == IF index <= Len(chain) THEN index ELSE Len(chain)

\* The first n entries of s, of which only those in S are kept, in their order.
Kept(s, n, S) ==
    LET kept[i \in 0 .. n] ==
            IF i = 0 THEN << >>
            ELSE IF s[i] \in S THEN Append(kept[i - 1], s[i])
            ELSE kept[i - 1]
    IN kept[n]

\* A finished request has terminated exactly the terminable middleware that it
\* entered, global or of the route, in the order of the chain, also if a panic
\* was recovered on the way (toHandler, Kernel.terminate).
TerminatesWhatRan == pc = "done" => terminated = Kept(chain, Entered, Terminable)

\* With Recover outermost, no panic of a middleware, of a handler or of the
\* fallback leaves ServeHTTP, wherever in the chain or on the way back it happens
\* (RecoverMiddleware, docs/error-handling.md).
NoPanicEscapes == chain[1] = Recover => pc # "crashed"

\* A finished request, none of whose copies failed, has removed every temporary
\* file it created, including those of a handler that panicked (Context.File,
\* cleanupTempFiles; docs/http-requests.md).
NoTempFileLeft == faults = 0 /\ pc = "done" => \A f \in File : <<f, Temp>> \notin disk

\* An upload that was stored is still where StoreAs said after the clean-up,
\* whatever was stored again and whichever copies failed.
StoredFilesStay ==
    \A f \in tracked : pc = "done" /\ path[f] # Temp => <<f, path[f]>> \in disk
============================================================================
