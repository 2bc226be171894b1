-------------------------- MODULE MigrationsProofs --------------------------
(***************************************************************************)
(* Proofs about Migrations, for any number of commands, builds, migrations *)
(* and faults.  Tables and rows stay together if commands of one kind, or  *)
(* one of each, run at once; undoing in order needs them to run one by one. *)
(***************************************************************************)
EXTENDS Migrations, TLAPS

\* What the start of a migrate changes.
LEMMA StartsMigrate ==
    ASSUME TypeOK, NEW p \in Command, StartCommand(p, "migrate")
    PROVE  /\ pc[p] = "idle" /\ pc' = [pc EXCEPT ![p] = "migrate"]
           /\ overlaps \subseteq overlaps' /\ overlaps' \subseteq {"alike", "unlike"}
           /\ (\E q \in Command : Migrating(q)) => "alike" \in overlaps'
           /\ (\E q \in Command : RollingBack(q)) => "unlike" \in overlaps'
  BY DEF StartCommand, Goto, TypeOK

\* What the start of a rollback changes.
LEMMA StartsRollback ==
    ASSUME TypeOK, NEW p \in Command, StartCommand(p, "rollback")
    PROVE  /\ pc[p] = "idle" /\ pc' = [pc EXCEPT ![p] = "rollback"]
           /\ overlaps \subseteq overlaps' /\ overlaps' \subseteq {"alike", "unlike"}
           /\ (\E q \in Command : RollingBack(q)) => "alike" \in overlaps'
           /\ (\E q \in Command : Migrating(q)) => "unlike" \in overlaps'
  BY DEF StartCommand, Goto, TypeOK

\* Every step keeps the type invariant.
LEMMA TypeStep ==
    ASSUME TypeOK, [Next]_vars
    PROVE  TypeOK'
<1> USE BuildAssumption, FaultAssumption DEF TypeOK, Goto, Pc, Record, Migration
<1>1. ASSUME NEW p \in Command, Migrate(p) PROVE TypeOK'
  BY <1>1, StartsMigrate DEF Migrate
<1>2. ASSUME NEW p \in Command, Up(p) PROVE TypeOK'
  BY <1>2 DEF Up
<1>3. ASSUME NEW p \in Command, Insert(p) PROVE TypeOK'
  <2>1. PICK m \in pending[p] :
            \/ Goto(p, "failed") /\ UNCHANGED <<records, nextId, pending, torn>>
            \/ InsertRecord(p, m) /\ Goto(p, "migrate") /\ torn' = torn \ {m}
    BY <1>3 DEF Insert
  <2>2. UNCHANGED <<tables, undo, batch, overlaps, faults>>
    BY <1>3 DEF Insert
  <2>3. CASE Goto(p, "failed") /\ UNCHANGED <<records, nextId, pending, torn>>
    BY <2>2, <2>3
  <2>4. CASE InsertRecord(p, m) /\ Goto(p, "migrate") /\ torn' = torn \ {m}
    BY <2>2, <2>4 DEF InsertRecord
  <2> QED
    BY <2>1, <2>3, <2>4
<1>4. ASSUME NEW p \in Command, Rollback(p) PROVE TypeOK'
  BY <1>4, StartsRollback DEF Rollback
<1>5. ASSUME NEW p \in Command, Unregistered(p) PROVE TypeOK'
  BY <1>5 DEF Unregistered
<1>6. ASSUME NEW p \in Command, Down(p) PROVE TypeOK'
  BY <1>6 DEF Down
<1>7. ASSUME NEW p \in Command, Delete(p) PROVE TypeOK'
  BY <1>7 DEF Delete, DeleteRecord, Newest
<1>8. ASSUME NEW p \in Command, Finish(p) PROVE TypeOK'
  BY <1>8 DEF Finish
<1>9. ASSUME NEW p \in Command, Fault(p) PROVE TypeOK'
  <2>1. \A m \in HalfDone(p) : m \in Nat
    BY DEF HalfDone
  <2>2. torn' \subseteq Migration
    <3>1. torn' = torn \cup HalfDone(p)
      BY <1>9 DEF Fault
    <3> QED
      BY <2>1, <3>1
  <2> QED
    BY <1>9, <2>2 DEF Fault
<1>10. CASE UNCHANGED vars
  BY <1>10 DEF vars
<1> QED
  BY <1>1, <1>2, <1>3, <1>4, <1>5, <1>6, <1>7, <1>8, <1>9, <1>10 DEF Next, Work, Idle

\* Every variable keeps its type: a rollback only ever undoes rows that were in
\* the tracking table, and a migrate only runs registered migrations.
THEOREM TypeCorrect == Spec => []TypeOK
<1>1. Init => TypeOK
  BY DEF Init, TypeOK, Pc
<1> QED
  BY <1>1, TypeStep, PTL DEF Spec

----------------------------------------------------------------------------
\* The two halves at which a command can stop.
Inserting(p, m) == pc[p] = "insert" /\ m \in pending[p] /\ Lowest(m, pending[p])
Deleting(p, rec) == pc[p] = "delete" /\ rec \in undo[p] /\ Newest(rec, undo[p])

OneKind == overlaps # {"alike", "unlike"}

\* A command that runs beside one of the other kind is the only one of its own, and
\* what the two have read is still so: they work on different migrations.
PairInv ==
    /\ \A p, q \in Command : Migrating(p) /\ RollingBack(q) => "unlike" \in overlaps
    /\ \A p, q \in Command : Migrating(p) /\ Migrating(q) => p = q \/ "alike" \in overlaps
    /\ \A p, q \in Command : RollingBack(p) /\ RollingBack(q) => p = q \/ "alike" \in overlaps
    /\ "alike" \notin overlaps =>
           /\ \A p \in Command : Migrating(p) => pending[p] \cap Recorded = {}
           /\ \A q \in Command : RollingBack(q) => undo[q] \subseteq records
    /\ OneKind => \A p, q \in Command : Migrating(p) /\ RollingBack(q) =>
                      \A rec \in undo[q] : rec.migration \notin pending[p]

\* A migration is recorded once, and rows have different IDs.
RowInv ==
    /\ \A a, b \in records : a.id = b.id \/ a.migration = b.migration => a = b
    /\ \A a \in records : a.id < nextId
    /\ \A p \in Command : \A a, b \in undo[p] : a.id = b.id => a = b
    /\ \A p \in Command : pc[p] = "idle" => undo[p] = {}

\* Table and row differ only where a command stands between them or has failed there.
HalfInv ==
    OneKind =>
        /\ \A p \in Command : \A m \in pending[p] : Inserting(p, m) => m \in tables
        /\ \A p \in Command : \A rec \in undo[p] : Deleting(p, rec) => rec.migration \notin tables
        /\ \A m \in tables : \/ m \in Recorded \/ m \in torn
                             \/ \E p \in Command : Inserting(p, m)
        /\ \A m \in Recorded : \/ m \in tables \/ m \in torn
                               \/ \E p \in Command : \E rec \in undo[p] :
                                      Deleting(p, rec) /\ rec.migration = m

MatchInv == TypeOK /\ RowInv /\ PairInv /\ HalfInv

\* Every step keeps the rows apart.
LEMMA RowStep ==
    ASSUME MatchInv, [Next]_vars
    PROVE  RowInv'
<1>a. TypeOK'
  BY TypeStep DEF MatchInv
<1> USE <1>a DEF MatchInv, TypeOK, RowInv, Record, Recorded, Goto
<1>1. ASSUME NEW p \in Command, Migrate(p) PROVE RowInv'
  BY <1>1, StartsMigrate DEF Migrate
<1>2. ASSUME NEW p \in Command, Up(p) PROVE RowInv'
  BY <1>2 DEF Up, Lowest
<1>3. ASSUME NEW p \in Command, Insert(p) PROVE RowInv'
  BY <1>3 DEF Insert, InsertRecord, Lowest
<1>4. ASSUME NEW p \in Command, Rollback(p) PROVE RowInv'
  BY <1>4, StartsRollback DEF Rollback
<1>5. ASSUME NEW p \in Command, Unregistered(p) PROVE RowInv'
  BY <1>5 DEF Unregistered
<1>6. ASSUME NEW p \in Command, Down(p) PROVE RowInv'
  BY <1>6 DEF Down, Newest
<1>7. ASSUME NEW p \in Command, Delete(p) PROVE RowInv'
  BY <1>7 DEF Delete, DeleteRecord, Newest
<1>8. ASSUME NEW p \in Command, Finish(p) PROVE RowInv'
  BY <1>8 DEF Finish
<1>9. ASSUME NEW p \in Command, Fault(p) PROVE RowInv'
  BY <1>9 DEF Fault, HalfDone
<1>10. CASE UNCHANGED vars
  BY <1>10 DEF vars
<1> QED
  BY <1>1, <1>2, <1>3, <1>4, <1>5, <1>6, <1>7, <1>8, <1>9, <1>10 DEF Next, Work, Idle

\* Every step keeps what a command has read true, while it may.
LEMMA PairStep ==
    ASSUME MatchInv, [Next]_vars
    PROVE  PairInv'
<1>a. TypeOK'
  BY TypeStep DEF MatchInv
<1> USE <1>a DEF MatchInv, TypeOK, RowInv, PairInv, OneKind, Record, Recorded, Goto, Migrating, RollingBack
<1>1. ASSUME NEW p \in Command, Migrate(p) PROVE PairInv'
  BY <1>1, StartsMigrate DEF Migrate
<1>2. ASSUME NEW p \in Command, Up(p) PROVE PairInv'
  BY <1>2 DEF Up, Lowest
<1>3. ASSUME NEW p \in Command, Insert(p) PROVE PairInv'
  BY <1>3 DEF Insert, InsertRecord, Lowest
<1>4. ASSUME NEW p \in Command, Rollback(p) PROVE PairInv'
  <2>1. /\ pc[p] = "idle" /\ pc' = [pc EXCEPT ![p] = "rollback"]
        /\ overlaps \subseteq overlaps' /\ overlaps' \subseteq {"alike", "unlike"}
        /\ (\E q \in Command : RollingBack(q)) => "alike" \in overlaps'
        /\ (\E q \in Command : Migrating(q)) => "unlike" \in overlaps'
    BY <1>4, StartsRollback DEF Rollback
  <2>2. UNCHANGED <<records, pending>> /\ undo' = [undo EXCEPT ![p] = undo'[p]]
    BY <1>4 DEF Rollback
  <2>3. undo'[p] \subseteq records
    BY <1>4, <2>1 DEF Rollback
  <2>4. \A q \in Command : Migrating(q)' = Migrating(q)
    BY <2>1
  <2>5. \A q \in Command \ {p} : RollingBack(q)' = RollingBack(q) /\ undo'[q] = undo[q]
    BY <2>1, <2>2
  <2> QED
    BY <2>1, <2>2, <2>3, <2>4, <2>5
<1>5. ASSUME NEW p \in Command, Unregistered(p) PROVE PairInv'
  BY <1>5 DEF Unregistered
<1>6. ASSUME NEW p \in Command, Down(p) PROVE PairInv'
  BY <1>6 DEF Down, Newest
<1>7. ASSUME NEW p \in Command, Delete(p) PROVE PairInv'
  BY <1>7 DEF Delete, DeleteRecord, Newest
<1>8. ASSUME NEW p \in Command, Finish(p) PROVE PairInv'
  BY <1>8 DEF Finish
<1>9. ASSUME NEW p \in Command, Fault(p) PROVE PairInv'
  BY <1>9 DEF Fault, HalfDone
<1>10. CASE UNCHANGED vars
  BY <1>10 DEF vars
<1> QED
  BY <1>1, <1>2, <1>3, <1>4, <1>5, <1>6, <1>7, <1>8, <1>9, <1>10 DEF Next, Work, Idle

\* Every step keeps tables and rows together.
LEMMA HalfStep ==
    ASSUME MatchInv, [Next]_vars
    PROVE  HalfInv'
<1>a. TypeOK'
  BY TypeStep DEF MatchInv
<1> USE <1>a DEF MatchInv, TypeOK, RowInv, PairInv, HalfInv, OneKind, Record, Recorded, Goto, Migrating, RollingBack, Inserting, Deleting
<1>1. ASSUME NEW p \in Command, Migrate(p) PROVE HalfInv'
  BY <1>1, StartsMigrate DEF Migrate
<1>2. ASSUME NEW p \in Command, Up(p) PROVE HalfInv'
  <2>1. PICK m \in pending[p] : /\ Lowest(m, pending[p]) /\ pc[p] = "migrate"
                                /\ Goto(p, IF m \in tables THEN "failed" ELSE "insert")
                                /\ tables' = tables \cup {m}
    BY <1>2 DEF Up
  <2>2. UNCHANGED <<records, nextId, pending, undo, batch, overlaps, torn>>
    BY <1>2 DEF Up
  <2>3. OneKind => \A q \in Command : \A rec \in undo[q] :
            Deleting(q, rec) => rec.migration # m
    BY <2>1
  <2>4. \A q \in Command \ {p} : pc'[q] = pc[q]
    BY <2>1
  <2>5. /\ \A q \in Command : \A x : Inserting(q, x) => q # p /\ Inserting(q, x)'
        /\ \A q \in Command : \A x : Inserting(q, x)' => x = m \/ Inserting(q, x)
        /\ m \notin tables => Inserting(p, m)'
    <3>1. \A x \in pending[p] : Lowest(x, pending[p]) => x = m
      BY <2>1 DEF Lowest, Migration
    <3>2. pc'[p] = IF m \in tables THEN "failed" ELSE "insert"
      BY <2>1
    <3> HIDE DEF Goto
    <3> QED
      BY <2>1, <2>2, <2>4, <3>1, <3>2
  <2>6. \A q \in Command : \A rec : Deleting(q, rec)' = Deleting(q, rec)
    BY <2>1, <2>2, <2>4
  <2> HIDE DEF Inserting, Deleting, Goto
  <2> QED
    BY <2>1, <2>2, <2>3, <2>5, <2>6
<1>3. ASSUME NEW p \in Command, Insert(p) PROVE HalfInv'
  <2>1. PICK m \in pending[p] :
            /\ Lowest(m, pending[p]) /\ pc[p] = "insert"
            /\ \/ /\ m \in Recorded /\ Goto(p, "failed")
                  /\ UNCHANGED <<records, nextId, pending, torn>>
               \/ InsertRecord(p, m) /\ Goto(p, "migrate") /\ torn' = torn \ {m}
    BY <1>3 DEF Insert
  <2>2. UNCHANGED <<tables, undo, batch, overlaps, faults>>
    BY <1>3 DEF Insert
  <2>3. \A q \in Command \ {p} : pc'[q] = pc[q] /\ pending'[q] = pending[q]
    BY <2>1 DEF InsertRecord
  <2>4. /\ \A x \in Recorded : x \in Recorded'
        /\ m \in Recorded'
        /\ \A x \in Recorded' : x = m \/ x \in Recorded
        /\ \A x \in torn : x = m \/ x \in torn'
    <3>1. CASE m \in Recorded /\ UNCHANGED <<records, torn>>
      BY <3>1
    <3>2. CASE InsertRecord(p, m) /\ torn' = torn \ {m}
      <4> DEFINE new == [id |-> nextId, migration |-> m, batch |-> batch[p]]
      <4>1. records' = records \cup {new} /\ new.migration = m
        BY <3>2 DEF InsertRecord
      <4> HIDE DEF new
      <4> QED
        BY <3>2, <4>1
    <3> QED
      BY <2>1, <3>1, <3>2
  <2>5. pc'[p] \in {"failed", "migrate"}
    BY <2>1
  <2>6. /\ Inserting(p, m) /\ \A x \in pending[p] : Inserting(p, x) => x = m
        /\ \A q \in Command \ {p} : \A x : Inserting(q, x)' = Inserting(q, x)
        /\ \A x : ~Inserting(p, x)'
    <3>1. \A x \in pending[p] : Lowest(x, pending[p]) => x = m
      BY <2>1 DEF Lowest, Migration
    <3> HIDE DEF Goto
    <3> QED
      BY <2>1, <2>3, <2>5, <3>1
  <2>7. \A q \in Command : \A rec : Deleting(q, rec)' = Deleting(q, rec)
    BY <2>1, <2>2, <2>3, <2>5
  <2>8. \A q \in Command : \A x : Inserting(q, x) => x \in pending[q]
    OBVIOUS
  <2> HIDE DEF Inserting, Deleting, Goto, Recorded
  <2> QED
    BY <2>1, <2>2, <2>4, <2>6, <2>7, <2>8
<1>4. ASSUME NEW p \in Command, Rollback(p) PROVE HalfInv'
  BY <1>4, StartsRollback DEF Rollback
<1>5. ASSUME NEW p \in Command, Unregistered(p) PROVE HalfInv'
  BY <1>5 DEF Unregistered
<1>6. ASSUME NEW p \in Command, Down(p) PROVE HalfInv'
  BY <1>6 DEF Down, Newest
<1>7. ASSUME NEW p \in Command, Delete(p) PROVE HalfInv'
  <2>1. PICK rec \in undo[p] : /\ Newest(rec, undo[p]) /\ pc[p] = "delete"
                               /\ DeleteRecord(p, rec) /\ Goto(p, "rollback")
                               /\ torn' = torn \ {rec.migration}
    BY <1>7 DEF Delete
  <2>2. UNCHANGED <<tables, nextId, pending, batch, overlaps>>
    BY <1>7 DEF Delete
  <2>3. \A q \in Command \ {p} : pc'[q] = pc[q] /\ undo'[q] = undo[q]
    BY <2>1 DEF DeleteRecord
  <2>4. \A x : x \in Recorded' <=> x \in Recorded /\ x # rec.migration
    BY <2>1 DEF DeleteRecord
  <2>5. /\ Deleting(p, rec) /\ \A o \in undo[p] : Deleting(p, o) => o = rec
        /\ \A q \in Command \ {p} : \A o : Deleting(q, o)' = Deleting(q, o)
        /\ \A o : ~Deleting(p, o)'
    BY <2>1, <2>3 DEF Newest
  <2>6. \A q \in Command : \A x : Inserting(q, x)' = Inserting(q, x)
    BY <2>1, <2>2, <2>3
  <2>7. \A q \in Command : \A o : Deleting(q, o) => o \in undo[q]
    OBVIOUS
  <2> HIDE DEF Inserting, Deleting, Goto, Recorded, DeleteRecord
  <2> QED
    BY <2>1, <2>2, <2>3, <2>4, <2>5, <2>6, <2>7
<1>8. ASSUME NEW p \in Command, Finish(p) PROVE HalfInv'
  BY <1>8 DEF Finish
<1>9. ASSUME NEW p \in Command, Fault(p) PROVE HalfInv'
  BY <1>9 DEF Fault, HalfDone
<1>10. CASE UNCHANGED vars
  BY <1>10 DEF vars
<1> QED
  BY <1>1, <1>2, <1>3, <1>4, <1>5, <1>6, <1>7, <1>8, <1>9, <1>10 DEF Next, Work, Idle

\* Tables and rows agree between commands, but for the migrations at which one failed
\* half-way, however commands of one kind, or a migrate and a rollback, overlapped
\* and whatever failed (Runner.Migrate, Runner.Rollback).
THEOREM FailuresStayLocal == Spec => []TablesMatchRecords
<1>1. Init => MatchInv
  BY DEF Init, MatchInv, TypeOK, RowInv, PairInv, HalfInv, Inserting, Deleting, Migrating,
         RollingBack, Recorded, Pc
<1>2. MatchInv => TablesMatchRecords
  BY DEF MatchInv, HalfInv, OneKind, Inserting, Deleting, TablesMatchRecords, Quiet, Running,
         Migrating, RollingBack, Recorded
<1>3. MatchInv /\ [Next]_vars => MatchInv'
  BY TypeStep, RowStep, PairStep, HalfStep DEF MatchInv
<1> QED
  BY <1>1, <1>2, <1>3, PTL DEF Spec

----------------------------------------------------------------------------
\* As long as commands do not overlap, the rows are a stack of batches, and the
\* one command that runs works at its top.
StackInv ==
    /\ TypeOK
    /\ overlaps = {} =>
           /\ \A a \in records : a.id < nextId
           /\ \A a, b \in records : a.id = b.id \/ a.migration = b.migration => a = b
           /\ \A a, b \in records : a.id < b.id => a.batch <= b.batch
           /\ \A p \in Command : pc[p] = "idle" => undo[p] = {}
           /\ \A p \in Command : Running(p) => \A a \in records : a.batch <= batch[p]
           /\ \A p \in Command : pc[p] \in {"rollback", "delete"} =>
                  undo[p] = {a \in records : a.batch = batch[p]}
           /\ \A p, q \in Command : Running(p) /\ Running(q) => p = q

\* Every step keeps the stack of batches.
LEMMA StackStep ==
    ASSUME StackInv, [Next]_vars
    PROVE  StackInv'
<1>a. TypeOK'
  BY TypeStep DEF StackInv
<1> USE <1>a DEF StackInv, TypeOK, Running, Migrating, RollingBack, Goto, Record, Recorded, Pc
<1>1. ASSUME NEW p \in Command, Migrate(p) PROVE StackInv'
  BY <1>1, StartsMigrate DEF Migrate
<1>2. ASSUME NEW p \in Command, Up(p) PROVE StackInv'
  BY <1>2 DEF Up
<1>3. ASSUME NEW p \in Command, Insert(p) PROVE StackInv'
  BY <1>3 DEF Insert, InsertRecord, Lowest
<1>4. ASSUME NEW p \in Command, Rollback(p) PROVE StackInv'
  <2>1. CASE records = {}
    BY <1>4, <2>1, StartsRollback DEF Rollback
  <2>2. CASE records # {}
    <3>1. PICK rec \in records :
              /\ \A o \in records : o.id <= rec.id
              /\ undo' = [undo EXCEPT ![p] = {o \in records : o.batch = rec.batch}]
              /\ batch' = [batch EXCEPT ![p] = rec.batch]
      BY <1>4, <2>2 DEF Rollback, Newest
    <3>2. overlaps = {} => \A o \in records : o.batch <= rec.batch
      BY <3>1
    <3>3. /\ pc' = [pc EXCEPT ![p] = "rollback"]
          /\ overlaps' = {} => overlaps = {} /\ \A q \in Command : ~Running(q)
      BY <1>4, StartsRollback DEF Rollback
    <3>4. UNCHANGED <<tables, records, nextId, pending, faults>>
      BY <1>4 DEF Rollback
    <3> QED
      BY <3>1, <3>2, <3>3, <3>4
  <2> QED
    BY <2>1, <2>2
<1>5. ASSUME NEW p \in Command, Unregistered(p) PROVE StackInv'
  BY <1>5 DEF Unregistered
<1>6. ASSUME NEW p \in Command, Down(p) PROVE StackInv'
  BY <1>6 DEF Down
<1>7. ASSUME NEW p \in Command, Delete(p) PROVE StackInv'
  BY <1>7 DEF Delete, DeleteRecord, Newest
<1>8. ASSUME NEW p \in Command, Finish(p) PROVE StackInv'
  BY <1>8 DEF Finish
<1>9. ASSUME NEW p \in Command, Fault(p) PROVE StackInv'
  BY <1>9 DEF Fault
<1>10. CASE UNCHANGED vars
  BY <1>10 DEF vars
<1> QED
  BY <1>1, <1>2, <1>3, <1>4, <1>5, <1>6, <1>7, <1>8, <1>9, <1>10 DEF Next, Work, Idle

\* StackInv holds of every behaviour.
LEMMA StackHolds == Spec => []StackInv
<1>1. Init => StackInv
  BY DEF Init, StackInv, TypeOK, Running, Migrating, RollingBack, Pc
<1>2. StackInv /\ [Next]_vars => StackInv'
  BY StackStep
<1> QED
  BY <1>1, <1>2, PTL DEF Spec

\* As long as commands run one at a time, a rollback always undoes the migration that
\* was applied last, also after commands that failed between a table and its
\* row (Runner.Rollback).
THEOREM SerialLastInFirstOut == Spec => LastInFirstOut
<1>1. StackInv /\ [Next]_vars =>
          [overlaps = {} => \A rec \in records \ records' : Newest(rec, records)]_records
  <2> SUFFICES ASSUME StackInv, [Next]_vars, overlaps = {}, NEW rec \in records \ records'
               PROVE  Newest(rec, records)
    OBVIOUS
  <2> USE DEF StackInv, TypeOK, Record
  <2>1. PICK p \in Command : rec \in undo[p] /\ Newest(rec, undo[p])
                             /\ pc[p] \in {"rollback", "delete"}
    BY DEF Next, Work, Idle, vars, Migrate, Up, Insert, InsertRecord, Rollback, Unregistered,
           Down, Delete, DeleteRecord, Finish, Fault
  <2>2. \A o \in records : o.id > rec.id => o \in undo[p]
    BY <2>1 DEF Running, RollingBack
  <2> QED
    BY <2>1, <2>2 DEF Newest
<1> QED
  BY <1>1, StackHolds, PTL DEF Spec, LastInFirstOut

\* As long as commands run one at a time, a rollback that reports success has undone
\* the whole batch (Runner.Rollback).
THEOREM SerialRolledBackWhole == Spec => RolledBackWhole
<1>1. StackInv /\ [Next]_vars =>
          [\A p \in Command :
               overlaps = {} /\ pc[p] = "rollback" /\ pc'[p] = "done" =>
                   \A rec \in records : rec.batch # batch[p]]_vars
  <2> SUFFICES ASSUME StackInv, [Next]_vars, overlaps = {},
                      NEW p \in Command, pc[p] = "rollback", pc'[p] = "done"
               PROVE  \A rec \in records : rec.batch # batch[p]
    OBVIOUS
  <2>1. undo[p] = {}
    BY DEF StackInv, TypeOK, Goto, StartCommand, Next, Work, Idle, vars, Migrate, Up, Insert,
           Rollback, Unregistered, Down, Delete, Finish, Fault
  <2> QED
    BY <2>1 DEF StackInv
<1> QED
  BY <1>1, StackHolds, PTL DEF Spec, RolledBackWhole
============================================================================
