----------------------------- MODULE Migrations -----------------------------
(***************************************************************************)
(* migrations.Runner: `artisan migrate` and `artisan migrate:rollback`     *)
(* processes working on one database, one after another or at once.        *)
(*                                                                         *)
(* The database is external.  What the model takes from it: the unique     *)
(* index on the tracking table's migration column, auto-increment IDs,     *)
(* CREATE TABLE failing on a table that exists, DROP TABLE IF EXISTS, and  *)
(* that both commit the open transaction, as they do in MySQL, the only    *)
(* driver that config/database.go knows.                                   *)
(***************************************************************************)
EXTENDS Naturals

CONSTANTS
    Command,    \* runs of artisan
    Build,      \* the migrations registered in the build each command runs
    MaxFaults   \* bound on statements that fail and processes that die

\* Migrations are numbered in the order of their names, which All() sorts by.
Migration == Nat

ASSUME BuildAssumption == Build \in [Command -> SUBSET Migration]
ASSUME FaultAssumption == MaxFaults \in Nat

\* A row of the tracking table.  The IDs of deleted rows are not used again.
Record == [id : Nat, migration : Migration, batch : Nat]

Pc == {"idle", "migrate", "insert", "rollback", "delete", "done", "failed"}

VARIABLES
    tables,    \* the migrations whose table exists
    records,   \* the tracking table
    nextId,
    pc,
    pending,   \* the migrations Migrate has still to run
    undo,      \* the rows Rollback has still to undo
    batch,     \* the batch a command writes or undoes
    overlaps,  \* history: whether two commands of the same kind have run at once
               \* ("alike"), and a migrate and a rollback ("unlike")
    torn,      \* history: the migrations that a command left between table and row
    faults

vars == <<tables, records, nextId, pc, pending, undo, batch, overlaps, torn, faults>>

TypeOK ==
    /\ tables \subseteq Migration
    /\ records \subseteq Record
    /\ nextId \in Nat
    /\ pc \in [Command -> Pc]
    /\ pending \in [Command -> SUBSET Migration]
    /\ undo \in [Command -> SUBSET Record]
    /\ batch \in [Command -> Nat]
    /\ overlaps \subseteq {"alike", "unlike"}
    /\ torn \subseteq Migration
    /\ faults \in Nat

Migrating(p) == pc[p] \in {"migrate", "insert"}
RollingBack(p) == pc[p] \in {"rollback", "delete"}
Running(p) == Migrating(p) \/ RollingBack(p)
Recorded == {rec.migration : rec \in records}

\* The next migration Migrate runs, and the next row Rollback undoes.
Lowest(m, ms) == \A o \in ms : m <= o
Newest(rec, recs) == \A o \in recs : o.id <= rec.id

Init ==
    /\ tables = {}
    /\ records = {}
    /\ nextId = 1
    /\ pc = [p \in Command |-> "idle"]
    /\ pending = [p \in Command |-> {}]
    /\ undo = [p \in Command |-> {}]
    /\ batch = [p \in Command |-> 0]
    /\ overlaps = {}
    /\ torn = {}
    /\ faults = 0

Goto(p, label) == pc' = [pc EXCEPT ![p] = label]

\* The operator starts command p; nothing in the code keeps others from running.
StartCommand(p, label) ==
    /\ pc[p] = "idle"
    /\ Goto(p, label)
    /\ overlaps' = overlaps
           \cup {kind \in {"alike"} : \E q \in Command :
                     IF label = "migrate" THEN Migrating(q) ELSE RollingBack(q)}
           \cup {kind \in {"unlike"} : \E q \in Command :
                     IF label = "migrate" THEN RollingBack(q) ELSE Migrating(q)}

\* Migrate up to its loop: the rows are read once, and what is not among them is
\* run under the highest batch plus one.
Migrate(p) ==
    /\ StartCommand(p, "migrate")
    /\ pending' = [pending EXCEPT ![p] = Build[p] \ Recorded]
    /\ \E max \in {0} \cup {rec.batch : rec \in records} :
           /\ \A rec \in records : rec.batch <= max
           /\ batch' = [batch EXCEPT ![p] = max + 1]
    /\ UNCHANGED <<tables, records, nextId, undo, torn, faults>>

\* The tracking row of m, refused by the unique index if there is one.
InsertRecord(p, m) ==
    /\ records' = records \cup {[id |-> nextId, migration |-> m, batch |-> batch[p]]}
    /\ nextId' = nextId + 1
    /\ pending' = [pending EXCEPT ![p] = @ \ {m}]

\* Up: its CREATE TABLE commits the transaction that Migrate opened.
Up(p) ==
    /\ pc[p] = "migrate"
    /\ \E m \in pending[p] :
           /\ Lowest(m, pending[p])
           /\ Goto(p, IF m \in tables THEN "failed" ELSE "insert")
           /\ tables' = tables \cup {m}
    /\ UNCHANGED <<records, nextId, pending, undo, batch, overlaps, torn, faults>>

Insert(p) ==
    /\ pc[p] = "insert"
    /\ \E m \in pending[p] :
           /\ Lowest(m, pending[p])
           /\ IF m \in Recorded
              THEN Goto(p, "failed") /\ UNCHANGED <<records, nextId, pending, torn>>
              ELSE InsertRecord(p, m) /\ Goto(p, "migrate") /\ torn' = torn \ {m}
    /\ UNCHANGED <<tables, undo, batch, overlaps, faults>>

\* Mutant of Rollback: only the newest row is undone.
RollbackOne(p) ==
    /\ StartCommand(p, "rollback")
    /\ \E rec \in records :
           /\ Newest(rec, records)
           /\ undo' = [undo EXCEPT ![p] = {rec}]
           /\ batch' = [batch EXCEPT ![p] = rec.batch]
    /\ UNCHANGED <<tables, records, nextId, pending, torn, faults>>

\* Mutant of Rollback: the batch is that of the oldest row.
RollbackOldest(p) ==
    /\ StartCommand(p, "rollback")
    /\ \E rec \in records :
           /\ \A o \in records : rec.id <= o.id
           /\ undo' = [undo EXCEPT ![p] = {o \in records : o.batch = rec.batch}]
           /\ batch' = [batch EXCEPT ![p] = rec.batch]
    /\ UNCHANGED <<tables, records, nextId, pending, torn, faults>>

\* Rollback up to its loop: the rows of the newest row's batch are to be undone.
Rollback(p) ==
    /\ StartCommand(p, "rollback")
    /\ IF records = {}
       THEN UNCHANGED <<undo, batch>>
       ELSE \E rec \in records :
                /\ Newest(rec, records)
                /\ undo' = [undo EXCEPT ![p] = {o \in records : o.batch = rec.batch}]
                /\ batch' = [batch EXCEPT ![p] = rec.batch]
    /\ UNCHANGED <<tables, records, nextId, pending, torn, faults>>

\* Mutant of DeleteRecord: the rows of the batch are deleted with the first.
DeleteBatch(p, rec) ==
    /\ records' = {o \in records : o.batch # rec.batch}
    /\ undo' = [undo EXCEPT ![p] = @ \ {rec}]

DeleteRecord(p, rec) ==
    /\ records' = {o \in records : o.migration # rec.migration}
    /\ undo' = [undo EXCEPT ![p] = @ \ {rec}]

\* A recorded migration that this build does not know stops the rollback.
Unregistered(p) ==
    /\ pc[p] = "rollback"
    /\ \E rec \in undo[p] : Newest(rec, undo[p]) /\ rec.migration \notin Build[p]
    /\ Goto(p, "failed")
    /\ UNCHANGED <<tables, records, nextId, pending, undo, batch, overlaps, torn, faults>>

\* Down: its DROP TABLE commits.
Down(p) ==
    /\ pc[p] = "rollback"
    /\ \E rec \in undo[p] :
           /\ Newest(rec, undo[p])
           /\ rec.migration \in Build[p]
           /\ tables' = tables \ {rec.migration}
    /\ Goto(p, "delete")
    /\ UNCHANGED <<records, nextId, pending, undo, batch, overlaps, torn, faults>>

Delete(p) ==
    /\ pc[p] = "delete"
    /\ \E rec \in undo[p] :
           /\ Newest(rec, undo[p])
           /\ DeleteRecord(p, rec)
           /\ torn' = torn \ {rec.migration}
    /\ Goto(p, "rollback")
    /\ UNCHANGED <<tables, nextId, pending, batch, overlaps, faults>>

Finish(p) ==
    /\ \/ pc[p] = "migrate" /\ pending[p] = {}
       \/ pc[p] = "rollback" /\ undo[p] = {}
    /\ Goto(p, "done")
    /\ UNCHANGED <<tables, records, nextId, pending, undo, batch, overlaps, torn, faults>>

\* What a command has committed without the other half.
HalfDone(p) ==
    {m \in pending[p] : pc[p] = "insert" /\ Lowest(m, pending[p])}
    \cup {rec.migration : rec \in {o \in undo[p] : pc[p] = "delete" /\ Newest(o, undo[p])}}

\* A statement fails and stops the command, or its process dies: the open
\* transaction is rolled back, which leaves what a DDL statement has committed.
Fault(p) ==
    /\ faults < MaxFaults
    /\ faults' = faults + 1
    /\ Running(p)
    /\ Goto(p, "failed")
    /\ torn' = torn \cup HalfDone(p)
    /\ UNCHANGED <<tables, records, nextId, pending, undo, batch, overlaps>>

\* Every command has ended.
Idle ==
    /\ \A p \in Command : pc[p] \in {"done", "failed"}
    /\ UNCHANGED vars

Work(p) ==
    \/ Migrate(p)
    \/ Up(p)
    \/ Insert(p)
    \/ Rollback(p)
    \/ Unregistered(p)
    \/ Down(p)
    \/ Delete(p)
    \/ Finish(p)
    \/ Fault(p)

Next == (\E p \in Command : Work(p)) \/ Idle

Spec == Init /\ [][Next]_vars

----------------------------------------------------------------------------
(* Properties *)

Quiet == \A p \in Command : ~Running(p)

\* Between commands, a table exists exactly if its migration is recorded, except for
\* those at which a command failed between the two: a failure disturbs no other
\* migration (runner.go, comment of Migrate), and a rollback that is run again
\* mends what the failed one left.  Commands may overlap with others of their kind
\* (CREATE TABLE and the unique index stop all but one of the migrates) or with one
\* of the other kind (each migration is then one command's).  Not both: a migrate
\* that read the rows before another one wrote them can create the table that a
\* rollback has just dropped.
TablesMatchRecords ==
    Quiet /\ overlaps # {"alike", "unlike"} =>
        (tables \ Recorded) \cup (Recorded \ tables) \subseteq torn

\* As long as commands are run one at a time, the migration undone is always the
\* last one applied of those still recorded, across batches and across commands
\* that failed half-way (docs/database.md, "last-in, first-out").
LastInFirstOut ==
    [][overlaps = {} => \A rec \in records \ records' : Newest(rec, records)]_records

\* As long as commands are run one at a time, a rollback that reports success has
\* left no row of its batch.
RolledBackWhole ==
    [][\A p \in Command :
           overlaps = {} /\ pc[p] = "rollback" /\ pc'[p] = "done" =>
               \A rec \in records : rec.batch # batch[p]]_vars
============================================================================
