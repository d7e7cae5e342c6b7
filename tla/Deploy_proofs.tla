---------------------------- MODULE Deploy_proofs ----------------------------
(***************************************************************************)
(* Theorems about Deploy, for any builds, any number of processes that     *)
(* boot in any order or at once, and any number of matches.                *)
(***************************************************************************)
EXTENDS Deploy, TLAPS, WellFoundedInduction, NaturalsInduction

PastMigrate == {"mark", "serve", "drain"}

\* What a booting process has still to do covers what the schema lacks.
MigrateInv ==
    \A p \in Processes :
        /\ pending[p] \subseteq Carries[p]
        /\ pc[p] = "migrate" => Carries[p] \ pending[p] \subseteq Range(schema)
        /\ pc[p] \in PastMigrate => Carries[p] \subseteq Range(schema)

\* No file is recorded twice.
Once == \A i, j \in DOMAIN schema : i # j => schema[i] # schema[j]

Ascending == \A i, j \in DOMAIN schema : i < j => schema[i] < schema[j]

\* While processes take turns, whatever was not there when the one that boots
\* looked lies below the files it has still to run.
Alone ==
    ~overlapped =>
        /\ \A p, q \in Running : p = q
        /\ Ascending
        /\ \A p \in Processes : pc[p] = "migrate" =>
              \A v \in Range(schema) : v \in seen[p] \/ \A f \in pending[p] : v < f

\* A match is held by a process that has come to serve.
HolderInv ==
    \A m \in Matches : holder[m] \in Processes => pc[holder[m]] \in {"serve", "drain", "gone"}

IInv == TypeOK /\ MigrateInv /\ Once /\ Alone /\ HolderInv /\ InterruptedMeansDead

-----------------------------------------------------------------------------
(* Files and the schema. *)

\* The file the loop is at is the lowest of those it has still to run.
LEMMA LowestFile ==
    ASSUME NEW p \in Processes, pending[p] \subseteq Carries[p], pending[p] # {}
    PROVE  /\ File(p) \in pending[p] /\ File(p) \in Nat
           /\ \A f \in pending[p] : f \in Nat /\ File(p) <= f
<1>1. pending[p] \subseteq Nat
  BY DeployAssumption
<1>2. PICK x \in pending[p] : \A y \in pending[p] : ~(<<y, x>> \in OpToRel(<, Nat))
  BY <1>1, WFMin, NatLessThanWellFounded
<1>3. \A y \in pending[p] : ~(y < x)
  BY <1>1, <1>2 DEF OpToRel
<1>4. \A y \in pending[p] : x <= y
  BY <1>1, <1>3
<1> QED BY <1>1, <1>4 DEF File, Min

\* What a recorded file adds to the schema.
LEMMA Recorded ==
    ASSUME NEW s \in Seq(Nat), NEW f \in Nat
    PROVE  /\ Append(s, f) \in Seq(Nat)
           /\ Range(Append(s, f)) = Range(s) \cup {f}
           /\ DOMAIN Append(s, f) = 1 .. Len(s) + 1
           /\ DOMAIN s = 1 .. Len(s) /\ Len(s) \in Nat
           /\ \A i \in 1 .. Len(s) : Append(s, f)[i] = s[i] /\ s[i] \in Nat
           /\ Append(s, f)[Len(s) + 1] = f
<1>1. /\ Append(s, f) \in Seq(Nat)
      /\ Len(Append(s, f)) = Len(s) + 1
      /\ DOMAIN Append(s, f) = 1 .. Len(s) + 1
      /\ DOMAIN s = 1 .. Len(s) /\ Len(s) \in Nat
      /\ \A i \in 1 .. Len(s) : Append(s, f)[i] = s[i] /\ s[i] \in Nat
      /\ Append(s, f)[Len(s) + 1] = f
  OBVIOUS
<1>2. Range(Append(s, f)) \subseteq Range(s) \cup {f}
  <2>1. ASSUME NEW i \in 1 .. Len(s) + 1  PROVE Append(s, f)[i] \in Range(s) \cup {f}
    <3>1. i \in 1 .. Len(s) \/ i = Len(s) + 1
      BY <1>1
    <3> QED BY <1>1, <3>1 DEF Range
  <2> QED BY <1>1, <2>1 DEF Range
<1>3. Range(s) \cup {f} \subseteq Range(Append(s, f))
  <2>1. ASSUME NEW i \in 1 .. Len(s)  PROVE s[i] \in Range(Append(s, f))
    <3>1. i \in 1 .. Len(s) + 1
      BY <1>1
    <3> QED BY <1>1, <3>1 DEF Range
  <2>2. f \in Range(Append(s, f))
    <3>1. Len(s) + 1 \in 1 .. Len(s) + 1
      BY <1>1
    <3> QED BY <1>1, <3>1 DEF Range
  <2> QED BY <1>1, <2>1, <2>2 DEF Range
<1> QED BY <1>1, <1>2, <1>3

\* A new file keeps the schema free of repetitions, and ascending when it is
\* above everything recorded.
LEMMA RecordedOnce ==
    ASSUME NEW s \in Seq(Nat), NEW f \in Nat, f \notin Range(s),
           \A i, j \in DOMAIN s : i # j => s[i] # s[j]
    PROVE  \A i, j \in DOMAIN Append(s, f) : i # j => Append(s, f)[i] # Append(s, f)[j]
<1>1. \A i \in 1 .. Len(s) : s[i] # f
  BY Recorded DEF Range
<1>2. \A i \in 1 .. Len(s) + 1 : i \in 1 .. Len(s) \/ i = Len(s) + 1
  BY Recorded
<1> QED BY <1>1, <1>2, Recorded

LEMMA RecordedAscending ==
    ASSUME NEW s \in Seq(Nat), NEW f \in Nat, \A v \in Range(s) : v < f,
           \A i, j \in DOMAIN s : i < j => s[i] < s[j]
    PROVE  \A i, j \in DOMAIN Append(s, f) : i < j => Append(s, f)[i] < Append(s, f)[j]
<1>1. \A i \in 1 .. Len(s) : s[i] < f
  BY Recorded DEF Range
<1>2. \A i, j \in 1 .. Len(s) + 1 : i < j =>
         i \in 1 .. Len(s) /\ (j \in 1 .. Len(s) \/ j = Len(s) + 1)
  BY Recorded
<1> QED BY <1>1, <1>2, Recorded

\* Nobody else runs beside a process that boots alone, and what it records is
\* above everything recorded before.
LEMMA NextInOrder ==
    ASSUME TypeOK, MigrateInv, Alone, ~overlapped, NEW p \in Processes, pc[p] = "migrate",
           pending[p] # {}, ~AddedLate(p), File(p) \notin Range(schema)
    PROVE  \A v \in Range(schema) : v < File(p)
<1>1. /\ File(p) \in pending[p] /\ File(p) \in Nat
  BY LowestFile DEF MigrateInv
<1>2. Range(schema) \subseteq Nat
  BY DEF TypeOK, Range
<1>3. ASSUME NEW v \in Range(schema)  PROVE v < File(p)
  <2>1. CASE v \in seen[p]
    <3>1. ~(File(p) < v) /\ v # File(p)
      BY <2>1, <1>3 DEF AddedLate
    <3> QED BY <1>1, <1>2, <3>1
  <2>2. CASE \A f \in pending[p] : v < f
    BY <1>1, <2>2
  <2> QED BY <2>1, <2>2, <1>3 DEF Alone
<1> QED BY <1>3

-----------------------------------------------------------------------------
(* The inductive invariant. *)

LEMMA InitInv == Init => IInv
<1> SUFFICES ASSUME Init PROVE IInv
  OBVIOUS
<1>1. TypeOK
  <2>1. NoRow \in [status : Phases \cup {"none", "interrupted"}, interrupted : BOOLEAN]
    BY DEF NoRow
  <2>2. games \in [Matches -> [status : Phases \cup {"none", "interrupted"}, interrupted : BOOLEAN]]
    BY <2>1 DEF Init
  <2>3. /\ pc \in [Processes -> {"off", "gone"} \cup Live]
        /\ seen \in [Processes -> SUBSET Nat] /\ pending \in [Processes -> SUBSET Nat]
        /\ schema \in Seq(Nat)
        /\ holder \in [Matches -> Processes \cup {Nobody}]
        /\ phase \in [Matches -> Phases]
    BY DEF Init, Phases
  <2>4. overlapped \in BOOLEAN
    BY DEF Init
  <2> QED BY <2>2, <2>3, <2>4 DEF TypeOK
<1>2. MigrateInv
  BY DEF Init, MigrateInv, PastMigrate
<1>3. Once /\ Alone
  BY DEF Init, Once, Alone, Ascending, Running, Live, Booting
<1>4. HolderInv
  BY DeployAssumption DEF Init, HolderInv
<1>5. InterruptedMeansDead
  BY DEF Init, InterruptedMeansDead, NoRow
<1> QED BY <1>1, <1>2, <1>3, <1>4, <1>5 DEF IInv

LEMMA ConnectInv ==
    ASSUME IInv, NEW p \in Processes, Connect(p)  PROVE IInv'
<1> USE DEF IInv, Connect, Goto
<1>1. TypeOK'
  BY DEF TypeOK, Live, Booting
<1>2. MigrateInv' /\ Once'
  BY DEF TypeOK, MigrateInv, PastMigrate, Once
<1>3. Running' = Running \cup {p}
  BY DEF TypeOK, Running, Live, Booting
<1>4. Alone'
  BY <1>3 DEF TypeOK, Alone, Ascending
<1>5. HolderInv'
  BY DEF TypeOK, HolderInv
<1>6. InterruptedMeansDead'
  <2>1. \A m \in Matches : holder[m] # p
    BY DEF HolderInv
  <2> QED BY <1>3, <2>1 DEF TypeOK, InterruptedMeansDead
<1> QED BY <1>1, <1>2, <1>4, <1>5, <1>6

LEMMA ReadAppliedInv ==
    ASSUME IInv, NEW p \in Processes, ReadApplied(p)  PROVE IInv'
<1> USE DEF IInv, ReadApplied, Goto
<1>1. Range(schema) \subseteq Nat
  BY DEF TypeOK, Range
<1>2. TypeOK'
  BY <1>1, DeployAssumption DEF TypeOK, Live, Booting, Unapplied
<1>3. MigrateInv' /\ Once'
  BY DEF TypeOK, MigrateInv, PastMigrate, Once, Unapplied
<1>4. Running' = Running
  BY DEF TypeOK, Running, Live, Booting
<1>5. Alone'
  BY <1>4 DEF TypeOK, Alone, Ascending
<1>6. HolderInv' /\ InterruptedMeansDead'
  BY <1>4 DEF TypeOK, HolderInv, InterruptedMeansDead
<1> QED BY <1>2, <1>3, <1>5, <1>6

LEMMA ApplyFileInv ==
    ASSUME IInv, NEW p \in Processes, ApplyFile(p)  PROVE IInv'
<1> USE DEF IInv, ApplyFile
<1>1. /\ File(p) \in pending[p] /\ File(p) \in Nat
      /\ \A f \in pending[p] : f \in Nat /\ File(p) <= f
  BY LowestFile DEF MigrateInv
<1>2. schema' \in Seq(Nat) /\ Range(schema') = Range(schema) \cup {File(p)}
  BY <1>1, Recorded DEF TypeOK
<1>3. TypeOK'
  BY <1>2 DEF TypeOK
<1>4. MigrateInv'
  BY <1>1, <1>2 DEF TypeOK, MigrateInv
<1>5. Once'
  BY <1>1, RecordedOnce DEF TypeOK, Once
<1>6. Alone'
  <2> SUFFICES ASSUME ~overlapped PROVE Alone'
    BY DEF Alone
  <2>1. Ascending'
    BY <1>1, NextInOrder, RecordedAscending DEF TypeOK, Alone, Ascending
  <2>2. \A q \in Processes : pc[q] = "migrate" => q = p
    BY DEF Alone, Running, Live, Booting
  <2>3. \A v \in Range(schema') : v \in seen[p] \/ \A f \in pending'[p] : v < f
    BY <1>1, <1>2 DEF TypeOK, Alone
  <2> QED BY <2>1, <2>2, <2>3 DEF Alone, Running
<1>7. HolderInv' /\ InterruptedMeansDead'
  BY DEF HolderInv, InterruptedMeansDead, Running
<1> QED BY <1>3, <1>4, <1>5, <1>6, <1>7

LEMMA MigrateFailsInv ==
    ASSUME IInv, NEW p \in Processes, MigrateFails(p)  PROVE IInv'
<1> USE DEF IInv, MigrateFails, Goto
<1>1. /\ File(p) \in pending[p] /\ File(p) \in Nat
  BY LowestFile DEF MigrateInv
<1>2. \/ schema' = schema
      \/ /\ schema' = Append(schema, File(p))
         /\ ~AddedLate(p) /\ File(p) \notin Range(schema)
  OBVIOUS
<1>3. schema' \in Seq(Nat) /\ Range(schema) \subseteq Range(schema')
  <2>1. CASE schema' = schema
    BY <2>1 DEF TypeOK
  <2>2. CASE schema' = Append(schema, File(p))
    BY <1>1, <2>2, Recorded DEF TypeOK
  <2> QED BY <1>2, <2>1, <2>2
<1>4. TypeOK'
  BY <1>3 DEF TypeOK
<1>5. MigrateInv'
  BY <1>3 DEF TypeOK, MigrateInv, PastMigrate
<1>6. Once'
  <2>1. CASE schema' = schema
    BY <2>1 DEF Once
  <2>2. CASE schema' = Append(schema, File(p)) /\ File(p) \notin Range(schema)
    BY <1>1, <2>2, RecordedOnce DEF TypeOK, Once
  <2> QED BY <1>2, <2>1, <2>2
<1>7. Running' = Running \ {p}
  BY DEF TypeOK, Running, Live, Booting
<1>8. Alone'
  <2> SUFFICES ASSUME ~overlapped PROVE Alone'
    BY DEF Alone
  <2>1. Ascending'
    BY <1>1, <1>2, NextInOrder, RecordedAscending DEF TypeOK, Alone, Ascending
  <2>2. \A q \in Processes : pc'[q] # "migrate"
    BY DEF TypeOK, Alone, Running, Live, Booting
  <2> QED BY <1>7, <2>1, <2>2 DEF Alone
<1>9. HolderInv' /\ InterruptedMeansDead'
  BY <1>7 DEF TypeOK, HolderInv, InterruptedMeansDead
<1> QED BY <1>4, <1>5, <1>6, <1>8, <1>9

LEMMA MigratedInv ==
    ASSUME IInv, NEW p \in Processes, Migrated(p)  PROVE IInv'
<1> USE DEF IInv, Migrated, Goto
<1>1. TypeOK' /\ MigrateInv' /\ Once'
  BY DEF TypeOK, Live, Booting, MigrateInv, PastMigrate, Once
<1>2. Running' = Running
  BY DEF TypeOK, Running, Live, Booting
<1>3. Alone'
  BY <1>2 DEF TypeOK, Alone, Ascending
<1>4. HolderInv' /\ InterruptedMeansDead'
  BY <1>2 DEF TypeOK, HolderInv, InterruptedMeansDead
<1> QED BY <1>1, <1>3, <1>4

LEMMA MarkInv ==
    ASSUME IInv, NEW p \in Processes, Mark(p)  PROVE IInv'
<1> USE DEF IInv, Mark, Goto
<1>1. Running' = Running
  BY DEF TypeOK, Running, Live, Booting
<1>2. games' \in [Matches -> [status : Phases \cup {"none", "interrupted"}, interrupted : BOOLEAN]]
  <2>1. [status |-> "interrupted", interrupted |-> TRUE]
           \in [status : Phases \cup {"none", "interrupted"}, interrupted : BOOLEAN]
    OBVIOUS
  <2> QED BY <2>1 DEF TypeOK, MarkInterrupted
<1>3. TypeOK'
  BY <1>2 DEF TypeOK, Live, Booting
<1>4. MigrateInv' /\ Once'
  BY DEF TypeOK, MigrateInv, PastMigrate, Once
<1>5. Alone'
  BY <1>1 DEF TypeOK, Alone, Ascending
<1>6. HolderInv'
  BY DEF TypeOK, HolderInv
<1>7. InterruptedMeansDead'
  <2>1. ASSUME NEW m \in Matches, ~overlapped  PROVE holder[m] \notin Running
    <3>1. \A q \in Running : q = p
      BY <2>1 DEF Alone, Running, Live, Booting
    <3>2. holder[m] # p
      BY DEF HolderInv
    <3> QED BY <3>1, <3>2
  <2>2. ASSUME NEW m \in Matches
        PROVE  \/ games'[m] = games[m]
               \/ games'[m].status = "interrupted"
    BY DEF MarkInterrupted
  <2> QED BY <1>1, <2>1, <2>2 DEF InterruptedMeansDead
<1> QED BY <1>3, <1>4, <1>5, <1>6, <1>7

LEMMA CreateInv ==
    ASSUME IInv, NEW p \in Processes, NEW m \in Matches, Create(p, m)  PROVE IInv'
<1> USE DEF IInv, Create
<1>1. TypeOK'
  BY DEF TypeOK, Phases
<1>2. MigrateInv' /\ Once' /\ Alone'
  BY DEF MigrateInv, Once, Alone, Ascending, Running
<1>3. HolderInv'
  BY DEF TypeOK, HolderInv, Serving
<1>4. InterruptedMeansDead'
  BY DEF TypeOK, InterruptedMeansDead, Running
<1> QED BY <1>1, <1>2, <1>3, <1>4

LEMMA TransitionInv ==
    ASSUME IInv, NEW p \in Processes, NEW m \in Matches, NEW to \in Phases, Transition(p, m, to)
    PROVE  IInv'
<1> USE DEF IInv, Transition
<1>1. TypeOK'
  BY DEF TypeOK
<1>2. MigrateInv' /\ Once' /\ Alone' /\ HolderInv'
  BY DEF MigrateInv, Once, Alone, Ascending, Running, HolderInv
<1>3. holder[m] \in Running
  BY DEF Running, Serving, Live
<1>4. \A n \in Matches : games'[n].interrupted = games[n].interrupted
  BY DEF TypeOK
<1>5. \A n \in Matches : n # m => games'[n] = games[n]
  BY DEF TypeOK
<1>6. InterruptedMeansDead'
  BY <1>3, <1>4, <1>5 DEF InterruptedMeansDead, Running
<1> QED BY <1>1, <1>2, <1>6

LEMMA TerminateInv ==
    ASSUME IInv, NEW p \in Processes, Terminate(p)  PROVE IInv'
<1> USE DEF IInv, Terminate, Goto
<1>1. Running' = Running
  BY DEF TypeOK, Running, Live, Booting
<1>2. TypeOK' /\ MigrateInv' /\ Once'
  BY DEF TypeOK, Live, Booting, MigrateInv, PastMigrate, Once
<1>3. Alone'
  BY <1>1 DEF TypeOK, Alone, Ascending
<1>4. HolderInv' /\ InterruptedMeansDead'
  BY <1>1 DEF TypeOK, HolderInv, InterruptedMeansDead
<1> QED BY <1>2, <1>3, <1>4

LEMMA DieInv ==
    ASSUME IInv, NEW p \in Processes, Die(p)  PROVE IInv'
<1> USE DEF IInv, Die, Goto
<1>1. Running' = Running \ {p}
  BY DEF TypeOK, Running, Live, Booting
<1>2. TypeOK' /\ MigrateInv' /\ Once'
  BY DEF TypeOK, MigrateInv, PastMigrate, Once
<1>3. Alone'
  BY <1>1 DEF TypeOK, Alone, Ascending
<1>4. HolderInv' /\ InterruptedMeansDead'
  BY <1>1 DEF TypeOK, HolderInv, InterruptedMeansDead
<1> QED BY <1>2, <1>3, <1>4

\* Whatever a process does, from its boot to its death, keeps the invariant the
\* theorems below follow from.
THEOREM InductiveInvariant == Spec => []IInv
<1>1. IInv /\ [Next]_vars => IInv'
  <2> SUFFICES ASSUME IInv, [Next]_vars PROVE IInv'
    OBVIOUS
  <2>1. CASE UNCHANGED vars
    BY <2>1 DEF vars, IInv, TypeOK, MigrateInv, Once, Alone, Ascending, Running, HolderInv,
                InterruptedMeansDead
  <2>2. ASSUME NEW p \in Processes,
               \/ Connect(p) \/ ReadApplied(p) \/ ApplyFile(p) \/ MigrateFails(p) \/ Migrated(p)
               \/ Mark(p) \/ Terminate(p) \/ Die(p)
        PROVE  IInv'
    BY <2>2, ConnectInv, ReadAppliedInv, ApplyFileInv, MigrateFailsInv, MigratedInv, MarkInv,
       TerminateInv, DieInv
  <2>3. ASSUME NEW p \in Processes, NEW m \in Matches,
               Create(p, m) \/ \E to \in Phases : Transition(p, m, to)
        PROVE  IInv'
    BY <2>3, CreateInv, TransitionInv
  <2> QED BY <2>1, <2>2, <2>3 DEF Next
<1> QED BY <1>1, InitInv, PTL DEF Spec

-----------------------------------------------------------------------------
(* The properties. *)

\* The state of the processes, the schema and the match rows keep their types.
THEOREM TypeCorrect == Spec => []TypeOK
<1>1. IInv => TypeOK
  BY DEF IInv
<1> QED BY <1>1, InductiveInvariant, PTL

\* Migrate leaves no file of a serving process's build out, however many boots
\* race, fail between two files or lose the reply to a commit.
THEOREM SchemaOfServing == Spec => []ServingHasSchema
<1>1. IInv => ServingHasSchema
  BY DEF IInv, MigrateInv, PastMigrate, ServingHasSchema, CheckSchema
<1> QED BY <1>1, InductiveInvariant, PTL

\* Migrate runs no file twice, and runs them in the order of their versions when
\* the processes that boot do not overlap.
THEOREM MigrationOrder == Spec => []SchemaInOrder
<1>1. IInv => SchemaInOrder
  <2> SUFFICES ASSUME IInv, NEW i \in 1 .. Len(schema), NEW j \in 1 .. Len(schema), i < j
               PROVE  schema[i] # schema[j] /\ (overlapped \/ schema[i] < schema[j])
    BY DEF SchemaInOrder
  <2>1. i \in DOMAIN schema /\ j \in DOMAIN schema /\ i # j
    BY DEF IInv, TypeOK
  <2> QED BY <2>1 DEF IInv, Once, Alone, Ascending
<1> QED BY <1>1, InductiveInvariant, PTL

\* MarkInterrupted marks no match whose process still runs, and none that has
\* ended or will end, unless two processes overlapped.
THEOREM OnlyTheDeadInterrupted == Spec => []InterruptedMeansDead
<1>1. IInv => InterruptedMeansDead
  BY DEF IInv
<1> QED BY <1>1, InductiveInvariant, PTL
=============================================================================
