----------------------------- MODULE FlashData -----------------------------
(***************************************************************************)
(* One session's values and flash data over successive requests: the       *)
(* mutating methods of Session, and the encode, decode and ageFlash that   *)
(* Manager.Save and Manager.Load run between two requests.                 *)
(*                                                                         *)
(* Requests are taken one at a time, as .Block() serialises them.  A       *)
(* request that panics is never saved: the next one starts from what the   *)
(* request before it stored.                                               *)
(*                                                                         *)
(* Its Init, Next and Spec are named after it, so that one module can       *)
(* prove theorems about the session engine and about what sessions hold.    *)
(***************************************************************************)
EXTENDS Naturals

CONSTANT Key   \* the session keys handlers use

\* What the documentation promises about a key (history):
\*   "none"   nothing            "plain"  stored by Put, kept until removed
\*   "next"   flashed in this request, readable in the next one
\*   "now"    readable in this request only
\*   "kept"   "now", and extended for one more request by Reflash or Keep
\*   "again"  readable in this request because the last one extended it
\*   "over"   gone
Promise == {"none", "plain", "next", "now", "kept", "again", "over"}

VARIABLES
    values,    \* keys present in Session.values
    oldFlash, newFlash,
    due,       \* history: the promise made about each key
    stored     \* the payload last written by a save, with its promises

flashVars == <<values, oldFlash, newFlash, due, stored>>

Payload == [values : SUBSET Key, old : SUBSET Key, new : SUBSET Key,
            due : [Key -> Promise]]

FlashTypeOK ==
    /\ values \subseteq Key
    /\ oldFlash \subseteq Key
    /\ newFlash \subseteq Key
    /\ due \in [Key -> Promise]
    /\ stored \in Payload

FlashInit ==
    /\ values = {}
    /\ oldFlash = {}
    /\ newFlash = {}
    /\ due = [k \in Key |-> "none"]
    /\ stored = [values |-> {}, old |-> {}, new |-> {}, due |-> due]

\* Put, and Push and Increment, which store under the key as Put does.  The
\* marks of a flashed key stay, so nothing is promised about it.
Put(k) ==
    /\ values' = values \cup {k}
    /\ due' = [due EXCEPT ![k] = IF k \in oldFlash \cup newFlash THEN "none" ELSE "plain"]
    /\ UNCHANGED <<oldFlash, newFlash, stored>>

\* Forget and Pull.
Forget(k) ==
    /\ values' = values \ {k}
    /\ due' = [due EXCEPT ![k] = "none"]
    /\ UNCHANGED <<oldFlash, newFlash, stored>>

\* Flush, and what Invalidate does besides replacing the ID.
Flush ==
    /\ values' = {}
    /\ oldFlash' = {}
    /\ newFlash' = {}
    /\ due' = [k \in Key |-> "none"]
    /\ UNCHANGED stored

\* Mutant of Flash: a key flashed again keeps its old mark.
FlashKeepingOld(k) ==
    /\ values' = values \cup {k}
    /\ newFlash' = newFlash \cup {k}
    /\ due' = [due EXCEPT ![k] = "next"]
    /\ UNCHANGED <<oldFlash, stored>>

Flash(k) ==
    /\ values' = values \cup {k}
    /\ newFlash' = newFlash \cup {k}
    /\ oldFlash' = oldFlash \ {k}
    /\ due' = [due EXCEPT ![k] = "next"]
    /\ UNCHANGED stored

Now(k) ==
    /\ values' = values \cup {k}
    /\ oldFlash' = oldFlash \cup {k}
    /\ newFlash' = newFlash \ {k}
    /\ due' = [due EXCEPT ![k] = "now"]
    /\ UNCHANGED stored

\* Keep(keys): the old ones among them are marked new as well.
Keep(keys) ==
    /\ newFlash' = newFlash \cup (keys \cap oldFlash)
    /\ due' = [k \in Key |-> IF k \in keys /\ due[k] \in {"now", "again"}
                             THEN "kept" ELSE due[k]]
    /\ UNCHANGED <<values, oldFlash, stored>>

Reflash ==
    /\ newFlash' = newFlash \cup oldFlash
    /\ due' = [k \in Key |-> IF due[k] \in {"now", "again"} THEN "kept" ELSE due[k]]
    /\ UNCHANGED <<values, oldFlash, stored>>

\* How the promises age when the next request starts.
Aged(promise) ==
    CASE promise = "next" -> "now"
      [] promise = "kept" -> "again"
      [] promise \in {"now", "again", "over"} -> "over"
      [] OTHER -> promise

\* Mutant of LoadFrom: ageFlash removes every key that is not marked.
LoadSwapped(p) ==
    /\ values' = p.values \cap p.new
    /\ oldFlash' = p.new
    /\ newFlash' = {}
    /\ due' = [k \in Key |-> Aged(p.due[k])]

\* decodeSession and ageFlash, in the Load that starts the next request.
LoadFrom(p) ==
    /\ values' = p.values \ p.old
    /\ oldFlash' = p.new
    /\ newFlash' = {}
    /\ due' = [k \in Key |-> Aged(p.due[k])]

Encoded == [values |-> values, old |-> oldFlash, new |-> newFlash, due |-> due]

\* The request is saved, and the next one loads what it left.
SaveAndLoad ==
    /\ stored' = Encoded
    /\ LoadFrom(Encoded)

\* The request panics: its session is dropped unsaved.
PanicAndLoad ==
    /\ LoadFrom(stored)
    /\ UNCHANGED stored

FlashNext ==
    \/ \E k \in Key : Put(k) \/ Forget(k) \/ Flash(k) \/ Now(k)
    \/ \E keys \in SUBSET Key : Keep(keys)
    \/ Reflash
    \/ Flush
    \/ SaveAndLoad
    \/ PanicAndLoad

FlashSpec == FlashInit /\ [][FlashNext]_flashVars

----------------------------------------------------------------------------
(* Properties *)

\* A flashed value is there in the next saved request and gone after it; one
\* given to Now is gone after this request (Session.go, Flash, Now, ageFlash).
\* Flashing again, keeping and panicking in between do not change that.
FlashLastsOneRequest ==
    \A k \in Key :
        /\ due[k] = "now" => k \in values
        /\ due[k] = "over" => k \notin values

\* A value stored under an unmarked key stays until it is removed: the ageing of
\* other keys, or of an earlier flash under the same key, never takes it.
PlainValuesStay ==
    \A k \in Key : due[k] = "plain" => k \in values

\* Reflash and Keep extend a flash key's lifetime by one request (Session.go,
\* docs/sessions.md).
ReflashExtends ==
    \A k \in Key : due[k] = "again" => k \in values
============================================================================
