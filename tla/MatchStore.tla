------------------------------ MODULE MatchStore ------------------------------
(***************************************************************************)
(* One match runtime and its database: how a transition becomes durable,   *)
(* what happens when the outcome of a commit is not known, and what is     *)
(* left after the process dies.                                            *)
(*                                                                         *)
(* A game state is identified with the sequence of transitions that led to *)
(* it, so its tick is the length of that sequence.  A transition is named  *)
(* by the request that caused it: a seat claim, or the action a session    *)
(* sent under a sequence number.  Which actions the engine accepts is left *)
(* open (BoardGame has them): a rejected action changes nothing here.      *)
(*                                                                         *)
(* claimSeat and ApplyAction hold the match mutex until they return, so at *)
(* most one request is in progress (cur).  The database runs beside it: a  *)
(* COMMIT whose reply was lost or timed out may have happened, may still   *)
(* be on its way (inflight), or may never happen.                          *)
(***************************************************************************)
EXTENDS Integers, Sequences, FiniteSets

CONSTANTS
    Joiners,     \* seat claims that may be made
    Sessions,    \* connections; an id is minted per connection, never reused
    MaxSeq,      \* bound: highest sequence number a client sends
    MaxTick,     \* bound: highest tick a request is made at
    MaxFaults    \* bound: commits and read-backs that may go wrong

ASSUME BoundsAssumption ==
    MaxSeq \in Nat /\ MaxTick \in Nat /\ MaxFaults \in Nat

JoinTx == [kind : {"join"}, who : Joiners, seq : {0}]
ActTx  == [kind : {"act"}, who : Sessions, seq : 1 .. MaxSeq]
Tx     == JoinTx \cup ActTx

None == [kind |-> "none"]     \* no request in progress
NoCommit == <<>>              \* no commit of unknown outcome is on its way

VARIABLES
    mem,       \* Match.state
    db,        \* the durable snapshot, event log and cursor: one transaction writes all
    inflight,  \* the state a COMMIT of unknown outcome would install, or NoCommit
    status,    \* games.status: "open" or "interrupted"
    alive,     \* the process is up and holds the match
    cur,       \* the request holding the match mutex, None when it is free
    step,      \* how far cur has come: "commit", "durable", "reconcile"
    tokens,    \* seat claims whose token was handed out
    session,   \* state of each connection
    lastSeq,   \* action watermark of each session
    acked,     \* requests reported as done
    failed,    \* requests reported as not persisted
    faults     \* database faults so far

vars == <<mem, db, inflight, status, alive, cur, step, tokens,
          session, lastSeq, acked, failed, faults>>

Init ==
    /\ mem = <<>> /\ db = <<>>
    /\ inflight = NoCommit
    /\ status = "open"
    /\ alive = TRUE
    /\ cur = None /\ step = "idle"
    /\ tokens = {}
    /\ session = [s \in Sessions |-> "new"]
    /\ lastSeq = [s \in Sessions |-> 0]
    /\ acked = {} /\ failed = {}
    /\ faults = 0

Unlocked == alive /\ cur = None

-----------------------------------------------------------------------------
(* Sessions. *)

\* Bind needs a token this process handed out.
Bind(s) ==
    /\ Unlocked
    /\ tokens # {}
    /\ session[s] = "new"
    /\ session' = [session EXCEPT ![s] = "bound"]
    /\ UNCHANGED <<mem, db, inflight, status, alive, cur, step, tokens,
                   lastSeq, acked, failed, faults>>

\* The session is deleted with its watermark; the seat stays taken.
Disconnect(s) ==
    /\ Unlocked
    /\ session[s] = "bound"
    /\ session' = [session EXCEPT ![s] = "gone"]
    /\ UNCHANGED <<mem, db, inflight, status, alive, cur, step, tokens,
                   lastSeq, acked, failed, faults>>

-----------------------------------------------------------------------------
(* Requests. *)

Begin(tx) ==
    /\ Unlocked
    /\ Len(mem) < MaxTick
    /\ cur' = tx
    /\ step' = "commit"
    /\ UNCHANGED <<mem, db, inflight, status, alive, tokens, session,
                   lastSeq, acked, failed, faults>>

\* A seat claim whose caller was told it failed may be made again.
BeginJoin(j) ==
    /\ j \notin tokens
    /\ Begin([kind |-> "join", who |-> j, seq |-> 0])

\* Mutant: the last sequence number is applied again.
Fresh_orRepeat(s, n) == n >= lastSeq[s]

Fresh(s, n) == n > lastSeq[s]

\* A sequence at or below the watermark is replayed or refused, and changes
\* nothing; one above it is applied.
BeginAction(s, n) ==
    /\ session[s] = "bound"
    /\ Fresh(s, n)
    /\ Begin([kind |-> "act", who |-> s, seq |-> n])

\* Mutant: event rows are upserted instead of inserted.
Collides_never == FALSE

\* The event rows of this tick exist already: a hard error.
Collides == Len(db) > Len(mem)

\* Mutant: the transaction leaves the snapshot and the event log as they were.
DbCommit_playerRowOnly ==
    /\ step = "commit"
    /\ inflight = NoCommit
    /\ ~Collides
    /\ step' = "durable"
    /\ UNCHANGED <<mem, db, inflight, status, alive, cur, tokens, session,
                   lastSeq, acked, failed, faults>>

\* The transaction commits.  Its event rows would wait for the outcome of an
\* earlier transaction that inserted the same keys.
DbCommit ==
    /\ step = "commit"
    /\ inflight = NoCommit
    /\ ~Collides
    /\ db' = Append(mem, cur)
    /\ step' = "durable"
    /\ UNCHANGED <<mem, inflight, status, alive, cur, tokens, session,
                   lastSeq, acked, failed, faults>>

\* Mutant: the next expected sequence is stored as the watermark.
Watermark_hint ==
    IF cur.kind = "act" THEN [lastSeq EXCEPT ![cur.who] = cur.seq + 1] ELSE lastSeq

Watermark ==
    IF cur.kind = "act" THEN [lastSeq EXCEPT ![cur.who] = cur.seq] ELSE lastSeq

\* What a successful commit is followed by: memory, then the token
\* or the watermark and the cached acknowledgement.
Install ==
    /\ step = "durable"
    /\ mem' = Append(mem, cur)
    /\ tokens' = IF cur.kind = "join" THEN tokens \cup {cur.who} ELSE tokens
    /\ lastSeq' = Watermark
    /\ acked' = acked \cup {cur}
    /\ cur' = None /\ step' = "idle"
    /\ UNCHANGED <<db, inflight, status, alive, session, failed, faults>>

\* What an error from the commit leads to: claimSeat gives up at once,
\* ApplyAction reads the durable cursor back.
OnCommitError ==
    IF cur.kind = "join"
    THEN /\ failed' = failed \cup {cur}
         /\ cur' = None /\ step' = "idle"
    ELSE /\ step' = "reconcile"
         /\ UNCHANGED <<failed, cur>>

Fault == faults < MaxFaults /\ faults' = faults + 1

\* The commit fails and leaves nothing behind: a fault of the database, or a
\* collision with a tick that is already durable.
CommitFails ==
    /\ step = "commit"
    /\ \/ Fault
       \/ Collides /\ inflight = NoCommit /\ UNCHANGED faults
    /\ OnCommitError
    /\ UNCHANGED <<mem, db, inflight, status, alive, tokens, session, lastSeq, acked>>

\* The reply to a commit that did happen is lost.
ReplyLost ==
    /\ step = "durable"
    /\ Fault
    /\ OnCommitError
    /\ UNCHANGED <<mem, db, inflight, status, alive, tokens, session, lastSeq, acked>>

\* The deadline expires while COMMIT is on its way.
CommitTimesOut ==
    /\ step = "commit"
    /\ inflight = NoCommit
    /\ ~Collides
    /\ Fault
    /\ inflight' = Append(mem, cur)
    /\ OnCommitError
    /\ UNCHANGED <<mem, db, status, alive, tokens, session, lastSeq, acked>>

InflightLands ==
    /\ inflight # NoCommit
    /\ db' = inflight
    /\ inflight' = NoCommit
    /\ UNCHANGED <<mem, status, alive, cur, step, tokens, session,
                   lastSeq, acked, failed, faults>>

InflightAborts ==
    /\ inflight # NoCommit
    /\ inflight' = NoCommit
    /\ UNCHANGED <<mem, db, status, alive, cur, step, tokens, session,
                   lastSeq, acked, failed, faults>>

\* Mutant: when the cursor cannot be read back the commit is assumed.
Unreadable_assumed == Fault /\ mem' = Append(mem, cur)

\* LoadMatch fails: the state before the action is kept.
Unreadable == Fault /\ UNCHANGED mem

\* reconcileCommit: adopt the durable state when it is exactly one tick ahead,
\* otherwise keep the state before the action; report the error either way.
Reconcile ==
    /\ step = "reconcile"
    /\ \/ /\ Len(db) = Len(mem) + 1
          /\ mem' = db
          /\ UNCHANGED faults
       \/ /\ Len(db) # Len(mem) + 1
          /\ UNCHANGED <<mem, faults>>
       \/ Unreadable
    /\ failed' = failed \cup {cur}
    /\ cur' = None /\ step' = "idle"
    /\ UNCHANGED <<db, inflight, status, alive, tokens, session, lastSeq, acked>>

-----------------------------------------------------------------------------
(* Process death and the next boot. *)

Crash ==
    /\ alive
    /\ alive' = FALSE
    /\ cur' = None /\ step' = "idle"
    /\ session' = [s \in Sessions |-> "gone"]
    /\ UNCHANGED <<mem, db, inflight, status, tokens, lastSeq, acked, failed, faults>>

\* MarkInterrupted at boot; its UPDATE waits for the row lock of a commit that
\* is still on its way.  The match is never loaded again.
Boot ==
    /\ ~alive
    /\ status = "open"
    /\ inflight = NoCommit
    /\ status' = "interrupted"
    /\ UNCHANGED <<mem, db, inflight, alive, cur, step, tokens, session,
                   lastSeq, acked, failed, faults>>

Next ==
    \/ \E s \in Sessions : Bind(s) \/ Disconnect(s) \/ \E n \in 1 .. MaxSeq : BeginAction(s, n)
    \/ \E j \in Joiners : BeginJoin(j)
    \/ DbCommit \/ Install
    \/ CommitFails \/ ReplyLost \/ CommitTimesOut
    \/ InflightLands \/ InflightAborts
    \/ Reconcile
    \/ Crash \/ Boot

Spec == Init /\ [][Next]_vars

-----------------------------------------------------------------------------
(* Properties. *)

TypeOK ==
    /\ mem \in Seq(Tx) /\ db \in Seq(Tx) /\ inflight \in Seq(Tx)
    /\ status \in {"open", "interrupted"}
    /\ alive \in BOOLEAN
    /\ cur \in Tx \cup {None}
    /\ step \in {"idle", "commit", "durable", "reconcile"}
    /\ tokens \in SUBSET Joiners
    /\ session \in [Sessions -> {"new", "bound", "gone"}]
    /\ lastSeq \in [Sessions -> 0 .. MaxSeq]
    /\ acked \in SUBSET Tx /\ failed \in SUBSET Tx
    /\ faults \in Nat

Agrees(short, long) == \A i \in 1 .. Len(short) : short[i] = long[i]

\* Memory never runs ahead of the database and is never more than one
\* transition behind it, whatever failed, timed out or landed late; and a
\* commit that is still on its way would leave it that way too.
MemoryFollowsDatabase ==
    /\ Len(mem) <= Len(db) /\ Len(db) <= Len(mem) + 1
    /\ Agrees(mem, db)
    /\ inflight # NoCommit =>
          Len(inflight) = Len(db) + 1 /\ Agrees(db, inflight)

\* A transition a client was told about is durable: it stands in the stored
\* log, also after a crash and after every later reconciliation.
AckedIsDurable == \A tx \in acked : \E i \in 1 .. Len(db) : db[i] = tx

\* A request that was acknowledged is never applied a second time, however
\* often the client repeats its sequence number.
AckedNeverReapplied ==
    [][\A tx \in acked :
          {i \in 1 .. Len(db') : db'[i] = tx} = {i \in 1 .. Len(db) : db[i] = tx}]_vars

\* The runtime and the database keep the promise of DurableLog: the stored log
\* grows by one transition at a time, a late commit or a repeated tick never
\* overwrites what was durable, only what is durable is acknowledged, and an
\* interrupted match is frozen as the dead process left it.
Durable == INSTANCE DurableLog WITH log <- db, told <- acked, closed <- status = "interrupted"

ImplementsDurableLog == Durable!Spec

\* A seat claim that was reported as failed consumed no seat.
FailedJoinConsumesNoSeat ==
    \A tx \in failed \ acked : tx.kind = "join" => \A i \in 1 .. Len(mem) : mem[i] # tx
=============================================================================
