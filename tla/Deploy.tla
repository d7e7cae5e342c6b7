-------------------------------- MODULE Deploy --------------------------------
(***************************************************************************)
(* Server processes over one database, from boot to exit: migrations, the  *)
(* marking of leftover matches, serving, draining, death.  Nothing in the  *)
(* code keeps two processes apart, so a deploy may overlap them; the       *)
(* repository documents a single instance as the supported topology.       *)
(*                                                                         *)
(* A build carries a set of migration files, named by their versions.  A   *)
(* migration and its schema_migrations row are one transaction, and a      *)
(* second run of it fails on what it finds already created.  Of a match    *)
(* only its lifecycle is kept: MatchStore has the commits, Registry the    *)
(* eviction.                                                               *)
(***************************************************************************)
EXTENDS Integers, Sequences, FiniteSets, FiniteSetsExt, Functions

CONSTANTS
    Processes,
    Carries,     \* the migration versions in each process's build
    Tables,      \* the versions that create the tables CheckSchema looks for
    Matches      \* matches that may be created

Nobody == "nobody"

ASSUME DeployAssumption ==
    /\ \A p \in Processes : Carries[p] \in SUBSET (Nat \ {0}) /\ IsFiniteSet(Carries[p])
    /\ Tables \in SUBSET (Nat \ {0})
    /\ Nobody \notin Processes

Phases == {"lobby", "playing", "ended"}

VARIABLES
    pc,         \* how far each process has come
    seen,       \* the versions Migrate read as applied
    pending,    \* the files it has still to run
    schema,     \* schema_migrations, in the order of the commits
    games,      \* the games row of each match: status and interrupted
    holder,     \* the process whose registry holds the match
    phase,      \* the phase of the match in that process's memory
    overlapped  \* history: two processes have run at the same time

vars == <<pc, seen, pending, schema, games, holder, phase, overlapped>>

NoRow == [status |-> "none", interrupted |-> FALSE]

Booting == {"read", "migrate", "mark"}
Live    == Booting \cup {"serve", "drain"}
Running == {p \in Processes : pc[p] \in Live}

Init ==
    /\ pc = [p \in Processes |-> "off"]
    /\ seen = [p \in Processes |-> {}]
    /\ pending = [p \in Processes |-> {}]
    /\ schema = <<>>
    /\ games = [m \in Matches |-> NoRow]
    /\ holder = [m \in Matches |-> Nobody]
    /\ phase = [m \in Matches |-> "lobby"]
    /\ overlapped = FALSE

Goto(p, stage) == pc' = [pc EXCEPT ![p] = stage]

-----------------------------------------------------------------------------
(* Boot. *)

\* The process connects and makes sure that schema_migrations exists.
Connect(p) ==
    /\ pc[p] = "off"
    /\ Goto(p, "read")
    /\ overlapped' = (overlapped \/ Running # {})
    /\ UNCHANGED <<seen, pending, schema, games, holder, phase>>

\* Mutant: files up to the highest version applied count as applied.
Unapplied_watermark(p) ==
    {f \in Carries[p] : \A v \in Range(schema) : f > v}

Unapplied(p) == Carries[p] \ Range(schema)

ReadApplied(p) ==
    /\ pc[p] = "read"
    /\ seen' = [seen EXCEPT ![p] = Range(schema)]
    /\ pending' = [pending EXCEPT ![p] = Unapplied(p)]
    /\ Goto(p, "migrate")
    /\ UNCHANGED <<schema, games, holder, phase, overlapped>>

\* The file the loop is at: they are sorted by version.
File(p) == Min(pending[p])

\* Mutant: nothing is refused.
AddedLate_never(p) == FALSE

\* Below the highest version that was applied when Migrate read them.
AddedLate(p) == \E v \in seen[p] : File(p) < v

\* Everything that returns an error from Migrate ends the process: a file
\* added late, a transaction that finds its work done by another process, a
\* fault of the database.  A COMMIT whose reply is lost may have happened.
MigrateFails(p) ==
    /\ pc[p] = "migrate"
    /\ pending[p] # {}
    /\ schema' \in {schema} \cup
          (IF AddedLate(p) \/ File(p) \in Range(schema) THEN {}
           ELSE {Append(schema, File(p))})
    /\ Goto(p, "gone")
    /\ UNCHANGED <<seen, pending, games, holder, phase, overlapped>>

ApplyFile(p) ==
    /\ pc[p] = "migrate"
    /\ pending[p] # {} /\ ~AddedLate(p)
    /\ File(p) \notin Range(schema)
    /\ schema' = Append(schema, File(p))
    /\ pending' = [pending EXCEPT ![p] = @ \ {File(p)}]
    /\ UNCHANGED <<pc, seen, games, holder, phase, overlapped>>

Migrated(p) ==
    /\ pc[p] = "migrate"
    /\ pending[p] = {}
    /\ Goto(p, "mark")
    /\ UNCHANGED <<seen, pending, schema, games, holder, phase, overlapped>>

MarkInterrupted ==
    games' = [m \in Matches |->
                IF games[m].status \in {"lobby", "playing"}
                THEN [status |-> "interrupted", interrupted |-> TRUE] ELSE games[m]]

\* An error is logged and the process serves all the same.
Mark(p) ==
    /\ pc[p] = "mark"
    /\ MarkInterrupted \/ UNCHANGED games
    /\ Goto(p, "serve")
    /\ UNCHANGED <<seen, pending, schema, holder, phase, overlapped>>

-----------------------------------------------------------------------------
(* Serving. *)

\* Mutant: requests are taken before the leftovers are marked.
Serving_early(p) == pc[p] \in {"mark", "serve", "drain"}

\* Shutdown waits for the requests that are being served and for no websocket,
\* so matches are created and actions commit until the process ends.
Serving(p) == pc[p] \in {"serve", "drain"}

\* CreateMatch: the row, and the registry entry unless the reply was lost.
Create(p, m) ==
    /\ Serving(p)
    /\ games[m] = NoRow
    /\ holder' \in {holder, [holder EXCEPT ![m] = p]}
    /\ games' = [games EXCEPT ![m] = [status |-> "lobby", interrupted |-> FALSE]]
    /\ UNCHANGED <<pc, seen, pending, schema, phase, overlapped>>

\* A transition: memory moves on, and the row gets the phase it moves to.
Transition(p, m, to) ==
    /\ Serving(p)
    /\ holder[m] = p
    /\ \/ phase[m] = "lobby" /\ to \in {"lobby", "playing"}
       \/ phase[m] = "playing" /\ to \in {"playing", "ended"}
    /\ phase' = [phase EXCEPT ![m] = to]
    /\ games' = [games EXCEPT ![m].status = to]
    /\ UNCHANGED <<pc, seen, pending, schema, holder, overlapped>>

\* SIGTERM: the listener closes.
Terminate(p) ==
    /\ pc[p] = "serve"
    /\ Goto(p, "drain")
    /\ UNCHANGED <<seen, pending, schema, games, holder, phase, overlapped>>

\* The drained process ends, or a process dies wherever it is.
Die(p) ==
    /\ pc[p] \in Live
    /\ Goto(p, "gone")
    /\ UNCHANGED <<seen, pending, schema, games, holder, phase, overlapped>>

Next ==
    \E p \in Processes :
        \/ Connect(p) \/ ReadApplied(p) \/ ApplyFile(p) \/ MigrateFails(p) \/ Migrated(p)
        \/ Mark(p) \/ Terminate(p) \/ Die(p)
        \/ \E m \in Matches : Create(p, m) \/ \E to \in Phases : Transition(p, m, to)

Spec == Init /\ [][Next]_vars

\* What GET /ready answers: Ping and CheckSchema.
CheckSchema == Tables \subseteq Range(schema)

-----------------------------------------------------------------------------
(* Properties. *)

TypeOK ==
    /\ pc \in [Processes -> {"off", "gone"} \cup Live]
    /\ seen \in [Processes -> SUBSET Nat]
    /\ pending \in [Processes -> SUBSET Nat]
    /\ schema \in Seq(Nat)
    /\ games \in [Matches -> [status : Phases \cup {"none", "interrupted"}, interrupted : BOOLEAN]]
    /\ holder \in [Matches -> Processes \cup {Nobody}]
    /\ phase \in [Matches -> Phases]
    /\ overlapped \in BOOLEAN

\* A process that serves has its schema, however many boots raced for the
\* migrations, failed between them or lost the reply to a commit: every file
\* of its build is applied, and readiness says so.
ServingHasSchema ==
    \A p \in Processes : pc[p] \in {"mark", "serve", "drain"} =>
        /\ Carries[p] \subseteq Range(schema)
        /\ Tables \subseteq Carries[p] => CheckSchema

\* A migration is applied once, also by boots that race; and as long as one
\* process runs at a time they are applied in the order of their versions,
\* whichever builds are deployed one after the other.
SchemaInOrder ==
    \A i, j \in 1 .. Len(schema) : i < j =>
        /\ schema[i] # schema[j]
        /\ overlapped \/ schema[i] < schema[j]

\* A match is marked interrupted only when the process that held it is gone,
\* unless two processes ran at the same time; a match that ended is never
\* marked after the fact.
InterruptedMeansDead ==
    \A m \in Matches : games[m].interrupted =>
        /\ overlapped \/ holder[m] \notin Running
        /\ games[m].status = "ended" => overlapped
=============================================================================
