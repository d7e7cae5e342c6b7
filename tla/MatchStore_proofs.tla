--------------------------- MODULE MatchStore_proofs ---------------------------
(***************************************************************************)
(* Proofs about MatchStore, for any sets of seat claims and sessions, any  *)
(* number of faults and any bounds: the type invariant, that memory        *)
(* follows the database, that what was acknowledged is durable and never   *)
(* applied again, and that MatchStore implements DurableLog.               *)
(***************************************************************************)
EXTENDS MatchStore, TLAPS

\* The request holding the mutex and how far it has come go together, and
\* only a live process serves one.
RequestInv ==
    /\ step = "idle" <=> cur = None
    /\ cur # None => alive

\* The stored log is the state in memory, or one transition ahead of it; it is
\* ahead by the request itself between its commit and its installation.
LogInv ==
    /\ db = mem \/ \E tx \in Tx : db = Append(mem, tx)
    /\ step = "durable" => db = Append(mem, cur) /\ inflight = NoCommit

\* A commit on its way extends a log that memory agrees with, by a request
\* nobody was told about; an interrupted match has none.
InflightInv ==
    /\ inflight # NoCommit => db = mem /\ \E tx \in Tx : tx \notin acked /\ inflight = Append(mem, tx)
    /\ status = "interrupted" => ~alive /\ inflight = NoCommit

\* Acknowledged requests are behind the watermarks and the tokens; the request
\* in progress is not.
WatermarkInv ==
    /\ \A tx \in acked : /\ tx.kind = "join" => tx.who \in tokens
                         /\ tx.kind = "act" => tx.seq <= lastSeq[tx.who]
    /\ cur # None => /\ cur.kind = "join" => cur.who \notin tokens
                     /\ cur.kind = "act" => lastSeq[cur.who] < cur.seq

IInv == TypeOK /\ RequestInv /\ LogInv /\ InflightInv /\ WatermarkInv /\ AckedIsDurable

-----------------------------------------------------------------------------

\* A request is a seat claim or an action, and never the absence of one.
LEMMA TxKinds ==
    /\ None \notin Tx
    /\ \A tx \in Tx : \/ tx.kind = "join" /\ tx.who \in Joiners
                      \/ tx.kind = "act" /\ tx.who \in Sessions /\ tx.seq \in 1 .. MaxSeq
BY BoundsAssumption DEF None, Tx, JoinTx, ActTx

\* What Append does to a log, as far as the proofs below look at it.
LEMMA AppendFacts ==
    ASSUME NEW S, NEW s \in Seq(S), NEW e \in S
    PROVE  /\ Append(s, e) \in Seq(S)
           /\ Len(s) \in Nat
           /\ Len(Append(s, e)) = Len(s) + 1
           /\ Append(s, e)[Len(s) + 1] = e
           /\ \A i \in 1 .. Len(s) : Append(s, e)[i] = s[i]
           /\ Append(s, e) # <<>>
OBVIOUS

\* A request in progress was never acknowledged.
LEMMA CurNotAcked == ASSUME TypeOK, WatermarkInv, cur # None PROVE cur \notin acked
BY TxKinds, BoundsAssumption DEF TypeOK, WatermarkInv

\* Without a collision the log and memory are the same.
LEMMA NoCollision == ASSUME IInv, ~Collides PROVE db = mem
<1>1. ASSUME NEW tx \in Tx, db = Append(mem, tx) PROVE FALSE
  BY <1>1, AppendFacts DEF IInv, TypeOK, Collides
<1> QED BY <1>1 DEF IInv, LogInv

\* The initial state: an empty log, no request, nobody connected.
LEMMA InitIInv == Init => IInv
BY TxKinds, BoundsAssumption
   DEF Init, IInv, TypeOK, RequestInv, LogInv, InflightInv, WatermarkInv, AckedIsDurable,
       NoCommit, None

\* Steps of the connections change neither the log nor a request.
LEMMA SessionSteps ==
    ASSUME IInv, NEW s \in Sessions, Bind(s) \/ Disconnect(s)
    PROVE  IInv'
<1> USE DEF IInv
<1>1. TypeOK'
  BY DEF TypeOK, Bind, Disconnect
<1>2. RequestInv' /\ LogInv' /\ InflightInv' /\ WatermarkInv' /\ AckedIsDurable'
  BY DEF RequestInv, LogInv, InflightInv, WatermarkInv, AckedIsDurable, Bind, Disconnect
<1> QED BY <1>1, <1>2

\* A request takes the mutex: it is fresh, and nothing else changes.
LEMMA BeginSteps ==
    ASSUME IInv,
           \/ \E j \in Joiners : BeginJoin(j)
           \/ \E s \in Sessions, n \in 1 .. MaxSeq : BeginAction(s, n)
    PROVE  IInv'
<1> USE DEF IInv
<1> DEFINE Fits(tx) == /\ Begin(tx)
                       /\ tx.kind = "join" => tx.who \notin tokens
                       /\ tx.kind = "act" => lastSeq[tx.who] < tx.seq
<1>0. \E tx \in Tx : Fits(tx)
  <2>1. ASSUME NEW j \in Joiners, BeginJoin(j) PROVE \E tx \in Tx : Fits(tx)
    <3> DEFINE t == [kind |-> "join", who |-> j, seq |-> 0]
    <3>1. t \in Tx BY DEF Tx, JoinTx
    <3>2. Fits(t) BY <2>1 DEF BeginJoin
    <3> QED BY <3>1, <3>2
  <2>2. ASSUME NEW s \in Sessions, NEW n \in 1 .. MaxSeq, BeginAction(s, n)
        PROVE  \E tx \in Tx : Fits(tx)
    <3> DEFINE t == [kind |-> "act", who |-> s, seq |-> n]
    <3>1. t \in Tx BY DEF Tx, ActTx
    <3>2. n \in Int /\ lastSeq[s] \in Int BY BoundsAssumption DEF TypeOK
    <3>3. Fits(t) BY <2>2, <3>2 DEF BeginAction, Fresh
    <3> QED BY <3>1, <3>3
  <2> QED BY <2>1, <2>2
<1>1. PICK tx \in Tx : Fits(tx)
  BY <1>0
<1>2. cur = None /\ alive /\ cur' = tx /\ step' = "commit"
  BY <1>1 DEF Begin, Unlocked
<1>3. TypeOK'
  BY <1>1 DEF TypeOK, Begin
<1>4. RequestInv' /\ LogInv' /\ InflightInv' /\ WatermarkInv' /\ AckedIsDurable'
  BY <1>1, <1>2, TxKinds
     DEF RequestInv, LogInv, InflightInv, WatermarkInv, AckedIsDurable, Begin
<1> QED BY <1>3, <1>4

\* The commit itself: without a collision the log is what memory holds, and
\* grows by the request.
LEMMA DbCommitStep == ASSUME IInv, DbCommit PROVE IInv' /\ Durable!Write(cur)
<1> USE DEF IInv
<1>1. db = mem /\ inflight = NoCommit /\ step = "commit" /\ db' = Append(mem, cur)
  BY NoCollision DEF DbCommit
<1>2. cur \in Tx /\ cur \notin acked /\ alive
  BY <1>1, CurNotAcked DEF TypeOK, RequestInv
<1>3. TypeOK'
  BY <1>1, <1>2, AppendFacts DEF TypeOK, DbCommit
<1>4. RequestInv' /\ LogInv' /\ InflightInv' /\ WatermarkInv'
  BY <1>1, <1>2 DEF DbCommit, RequestInv, LogInv, InflightInv, WatermarkInv
<1>5. AckedIsDurable'
  <2> SUFFICES ASSUME NEW tx \in acked PROVE \E i \in 1 .. Len(db') : db'[i] = tx
    BY DEF AckedIsDurable, DbCommit
  <2>1. PICK i \in 1 .. Len(db) : db[i] = tx
    BY DEF AckedIsDurable
  <2>2. i \in 1 .. Len(db') /\ db'[i] = tx
    BY <1>1, <1>2, <2>1, AppendFacts DEF TypeOK
  <2> QED BY <2>2
<1>6. Durable!Write(cur)
  BY <1>1, <1>2 DEF Durable!Write, InflightInv, DbCommit
<1> QED BY <1>3, <1>4, <1>5, <1>6

\* The installation: memory catches up with the log, and the request is now
\* behind its watermark or its token.
LEMMA InstallStep == ASSUME IInv, Install PROVE IInv' /\ Durable!Tell(cur)
<1> USE DEF IInv
<1>1. db = Append(mem, cur) /\ inflight = NoCommit /\ step = "durable"
  BY DEF Install, LogInv
<1>2. cur \in Tx /\ cur # None /\ alive
  BY <1>1 DEF TypeOK, RequestInv
<1>3. mem' = db /\ db' = db /\ inflight' = NoCommit /\ cur' = None /\ step' = "idle"
      /\ acked' = acked \cup {cur} /\ status' = status /\ alive' = alive
  BY <1>1 DEF Install
<1>4. Watermark \in [Sessions -> 0 .. MaxSeq]
  BY <1>2, TxKinds, BoundsAssumption DEF Watermark, TypeOK
<1>5. TypeOK'
  <2>1. tokens' \in SUBSET Joiners
    BY <1>2, TxKinds DEF Install, TypeOK
  <2> QED BY <1>2, <1>3, <1>4, <2>1 DEF TypeOK, Install
<1>6. RequestInv' /\ LogInv' /\ InflightInv'
  BY <1>1, <1>2, <1>3 DEF RequestInv, LogInv, InflightInv
<1>7. WatermarkInv'
  <2> SUFFICES ASSUME NEW tx \in acked'
               PROVE  /\ tx.kind = "join" => tx.who \in tokens'
                      /\ tx.kind = "act" => tx.seq <= lastSeq'[tx.who]
    BY <1>3 DEF WatermarkInv
  <2>1. tx \in Tx BY <1>2, <1>3 DEF TypeOK
  <2>2. lastSeq' = Watermark /\ tokens \subseteq tokens' BY DEF Install
  <2>3. CASE tx = cur
    BY <2>1, <2>2, <2>3, <1>2, TxKinds, BoundsAssumption DEF Install, Watermark, TypeOK
  <2>4. CASE tx \in acked
    <3>1. tx.kind = "act" =>
            tx.seq \in Int /\ tx.who \in Sessions /\ lastSeq[tx.who] \in Int
      BY <2>1, TxKinds, BoundsAssumption DEF TypeOK
    <3>2. cur.kind = "act" => cur.seq \in Int /\ cur.who \in Sessions
      BY <1>2, TxKinds, BoundsAssumption
    <3> QED BY <1>2, <2>2, <2>4, <3>1, <3>2 DEF WatermarkInv, Watermark, TypeOK
  <2> QED BY <1>3, <2>3, <2>4
<1>8. Len(mem) + 1 \in 1 .. Len(db) /\ db[Len(mem) + 1] = cur
  BY <1>1, <1>2, AppendFacts DEF TypeOK
<1>9. AckedIsDurable'
  BY <1>3, <1>8 DEF AckedIsDurable
<1>10. Durable!Tell(cur)
  BY <1>2, <1>3, <1>8 DEF Durable!Tell, InflightInv
<1> QED BY <1>5, <1>6, <1>7, <1>9, <1>10

\* A request that ends, or goes on to the reconciliation, with nothing but the
\* report of its failure to show for it.
LEMMA ErrorSteps ==
    ASSUME IInv, CommitFails \/ ReplyLost
    PROVE  IInv' /\ UNCHANGED <<db, acked, status>>
<1> USE DEF IInv
<1>1. /\ cur \in Tx /\ cur # None
      /\ UNCHANGED <<mem, db, inflight, status, alive, tokens, session, lastSeq, acked>>
      /\ OnCommitError
      /\ faults' \in Nat
  BY DEF CommitFails, ReplyLost, RequestInv, TypeOK, Fault
<1>2. TypeOK'
  BY <1>1 DEF TypeOK, OnCommitError
<1>3. RequestInv' /\ LogInv' /\ InflightInv' /\ WatermarkInv' /\ AckedIsDurable'
  BY <1>1 DEF OnCommitError, RequestInv, LogInv, InflightInv, WatermarkInv, AckedIsDurable
<1> QED BY <1>1, <1>2, <1>3

\* The deadline expires: from here on a commit is on its way.
LEMMA TimeoutStep ==
    ASSUME IInv, CommitTimesOut
    PROVE  IInv' /\ UNCHANGED <<db, acked, status>>
<1> USE DEF IInv
<1>1. /\ db = mem /\ cur \in Tx /\ cur # None /\ cur \notin acked /\ alive
      /\ UNCHANGED <<mem, db, status, alive, tokens, session, lastSeq, acked>>
      /\ inflight' = Append(mem, cur)
      /\ OnCommitError
      /\ faults' \in Nat
  BY NoCollision, CurNotAcked DEF CommitTimesOut, RequestInv, TypeOK, Fault
<1>2. TypeOK'
  BY <1>1, AppendFacts DEF TypeOK, OnCommitError
<1>3. RequestInv' /\ LogInv' /\ InflightInv' /\ WatermarkInv' /\ AckedIsDurable'
  BY <1>1 DEF OnCommitError, RequestInv, LogInv, InflightInv, WatermarkInv, AckedIsDurable
<1> QED BY <1>1, <1>2, <1>3

\* A late commit lands: it extends the log by a request nobody was told about.
LEMMA LandsStep ==
    ASSUME IInv, InflightLands
    PROVE  IInv' /\ \E tx \in Tx : Durable!Write(tx)
<1> USE DEF IInv
<1>1. PICK tx \in Tx : db = mem /\ tx \notin acked /\ inflight = Append(mem, tx)
  BY DEF InflightLands, InflightInv
<1>2. db' = Append(db, tx) /\ inflight' = NoCommit /\ step # "durable"
      /\ UNCHANGED <<mem, status, alive, cur, step, tokens, session, lastSeq, acked, failed, faults>>
  BY <1>1 DEF InflightLands, LogInv
<1>3. TypeOK'
  BY <1>1, <1>2, AppendFacts DEF TypeOK, NoCommit
<1>4. RequestInv' /\ LogInv' /\ InflightInv' /\ WatermarkInv'
  BY <1>1, <1>2 DEF RequestInv, LogInv, InflightInv, WatermarkInv
<1>5. AckedIsDurable'
  <2> SUFFICES ASSUME NEW a \in acked PROVE \E i \in 1 .. Len(db') : db'[i] = a
    BY <1>2 DEF AckedIsDurable
  <2>1. PICK i \in 1 .. Len(db) : db[i] = a
    BY DEF AckedIsDurable
  <2>2. i \in 1 .. Len(db') /\ db'[i] = a
    BY <1>2, <2>1, AppendFacts DEF TypeOK
  <2> QED BY <2>2
<1>6. Durable!Write(tx)
  BY <1>1, <1>2 DEF Durable!Write, InflightInv, InflightLands
<1> QED BY <1>3, <1>4, <1>5, <1>6

\* A late commit that never lands.
LEMMA AbortsStep ==
    ASSUME IInv, InflightAborts
    PROVE  IInv' /\ UNCHANGED <<db, acked, status>>
<1> USE DEF IInv
<1>1. TypeOK'
  BY DEF InflightAborts, TypeOK, NoCommit
<1>2. RequestInv' /\ LogInv' /\ InflightInv' /\ WatermarkInv' /\ AckedIsDurable'
  BY DEF InflightAborts, RequestInv, LogInv, InflightInv, WatermarkInv, AckedIsDurable
<1> QED BY <1>1, <1>2 DEF InflightAborts

\* The reconciliation: memory keeps its state or takes over the stored one,
\* and never while a commit is still on its way.
LEMMA ReconcileStep ==
    ASSUME IInv, Reconcile
    PROVE  IInv' /\ UNCHANGED <<db, acked, status>>
<1> USE DEF IInv
<1>1. /\ cur \in Tx /\ cur # None
      /\ cur' = None /\ step' = "idle" /\ failed' = failed \cup {cur} /\ faults' \in Nat
      /\ UNCHANGED <<db, inflight, status, alive, tokens, session, lastSeq, acked>>
  BY DEF Reconcile, RequestInv, TypeOK, Unreadable, Fault
<1>2. mem' = mem \/ (mem' = db /\ inflight = NoCommit)
  <2>1. CASE mem' = db /\ Len(db) = Len(mem) + 1
    BY <2>1, AppendFacts DEF InflightInv, TypeOK
  <2> QED BY <2>1 DEF Reconcile, Unreadable
<1>3. TypeOK'
  BY <1>1, <1>2 DEF TypeOK
<1>4. RequestInv' /\ LogInv' /\ InflightInv' /\ WatermarkInv' /\ AckedIsDurable'
  BY <1>1, <1>2 DEF RequestInv, LogInv, InflightInv, WatermarkInv, AckedIsDurable
<1> QED BY <1>1, <1>3, <1>4

\* The process dies wherever it is.
LEMMA CrashStep ==
    ASSUME IInv, Crash
    PROVE  IInv' /\ UNCHANGED <<db, acked, status>>
<1> USE DEF IInv
<1>1. TypeOK'
  BY DEF Crash, TypeOK
<1>2. RequestInv' /\ LogInv' /\ InflightInv' /\ WatermarkInv' /\ AckedIsDurable'
  BY DEF Crash, RequestInv, LogInv, InflightInv, WatermarkInv, AckedIsDurable
<1> QED BY <1>1, <1>2 DEF Crash

\* The next boot closes the log.
LEMMA BootStep == ASSUME IInv, Boot PROVE IInv' /\ Durable!Close
<1> USE DEF IInv
<1>1. TypeOK'
  BY DEF Boot, TypeOK
<1>2. RequestInv' /\ LogInv' /\ InflightInv' /\ WatermarkInv' /\ AckedIsDurable'
  BY DEF Boot, RequestInv, LogInv, InflightInv, WatermarkInv, AckedIsDurable
<1>3. Durable!Close
  BY DEF Boot, Durable!Close
<1> QED BY <1>1, <1>2, <1>3

\* Every step keeps the invariant, and is a step of DurableLog or invisible
\* to it.
LEMMA NextStep ==
    ASSUME IInv, [Next]_vars
    PROVE  IInv' /\ [Durable!Next]_<<db, acked, status = "interrupted">>
<1> DEFINE Refines == [Durable!Next]_<<db, acked, status = "interrupted">>
<1>1. ASSUME UNCHANGED <<db, acked, status>> PROVE Refines
  BY <1>1
<1>2. ASSUME NEW s \in Sessions, Bind(s) \/ Disconnect(s) PROVE IInv' /\ Refines
  BY <1>1, <1>2, SessionSteps DEF Bind, Disconnect
<1>3. ASSUME \/ \E j \in Joiners : BeginJoin(j)
             \/ \E s \in Sessions, n \in 1 .. MaxSeq : BeginAction(s, n)
      PROVE  IInv' /\ Refines
  BY <1>1, <1>3, BeginSteps DEF BeginJoin, BeginAction, Begin
<1>4. CASE DbCommit
  <2>1. cur \in Tx BY <1>4 DEF IInv, TypeOK, RequestInv, DbCommit
  <2> QED BY <1>4, <2>1, DbCommitStep DEF Durable!Next
<1>5. CASE Install
  <2>1. cur \in Tx BY <1>5 DEF IInv, TypeOK, RequestInv, Install
  <2> QED BY <1>5, <2>1, InstallStep DEF Durable!Next
<1>6. CASE CommitFails \/ ReplyLost
  BY <1>1, <1>6, ErrorSteps
<1>7. CASE CommitTimesOut
  BY <1>1, <1>7, TimeoutStep
<1>8. CASE InflightLands
  BY <1>8, LandsStep DEF Durable!Next
<1>9. CASE InflightAborts
  BY <1>1, <1>9, AbortsStep
<1>10. CASE Reconcile
  BY <1>1, <1>10, ReconcileStep
<1>11. CASE Crash
  BY <1>1, <1>11, CrashStep
<1>12. CASE Boot
  BY <1>12, BootStep DEF Durable!Next
<1>13. CASE UNCHANGED vars
  BY <1>1, <1>13
     DEF vars, IInv, TypeOK, RequestInv, LogInv, InflightInv, WatermarkInv, AckedIsDurable
<1> QED
  BY <1>2, <1>3, <1>4, <1>5, <1>6, <1>7, <1>8, <1>9, <1>10, <1>11, <1>12, <1>13 DEF Next

-----------------------------------------------------------------------------

\* IInv holds in every reachable state of the runtime and its database.
THEOREM InductiveInvariant == Spec => []IInv
<1>1. Init => IInv
  BY InitIInv
<1>2. IInv /\ [Next]_vars => IInv'
  BY NextStep
<1> QED BY <1>1, <1>2, PTL DEF Spec

\* The variables keep their types.
THEOREM TypeCorrect == Spec => []TypeOK
<1>1. IInv => TypeOK
  BY DEF IInv
<1> QED BY <1>1, InductiveInvariant, PTL

\* Memory never runs ahead of the database and is at most one transition behind
\* it, whatever became of the commits: what reconcileCommit is there for.
THEOREM MemoryIsNeverAhead == Spec => []MemoryFollowsDatabase
<1>1. ASSUME IInv PROVE MemoryFollowsDatabase
  <2> USE DEF IInv
  <2>1. Len(mem) <= Len(db) /\ Len(db) <= Len(mem) + 1 /\ Agrees(mem, db)
    <3>1. CASE db = mem
      BY <3>1, <1>1 DEF TypeOK, Agrees
    <3>2. ASSUME NEW tx \in Tx, db = Append(mem, tx) PROVE <2>1
      BY <3>2, <1>1, AppendFacts DEF TypeOK, Agrees
    <3> QED BY <1>1, <3>1, <3>2 DEF LogInv
  <2>2. ASSUME inflight # NoCommit PROVE Len(inflight) = Len(db) + 1 /\ Agrees(db, inflight)
    BY <1>1, <2>2, AppendFacts DEF InflightInv, TypeOK, Agrees
  <2> QED BY <2>1, <2>2 DEF MemoryFollowsDatabase
<1> QED BY <1>1, InductiveInvariant, PTL

\* What a client was told is in the stored log, after any crash too.
THEOREM AcknowledgedIsDurable == Spec => []AckedIsDurable
<1>1. IInv => AckedIsDurable
  BY DEF IInv
<1> QED BY <1>1, InductiveInvariant, PTL

\* The runtime over its database implements the append-only log of DurableLog.
THEOREM Refinement == Spec => ImplementsDurableLog
<1>1. Init => Durable!Init
  BY DEF Init, Durable!Init
<1>2. IInv /\ [Next]_vars => [Durable!Next]_(Durable!vars)
  BY NextStep DEF Durable!vars
<1> QED BY <1>1, <1>2, InductiveInvariant, PTL DEF Spec, ImplementsDurableLog, Durable!Spec

\* An acknowledged request is never applied again, however often its sequence
\* number is repeated: the log only grows by requests nobody was told about.
THEOREM AppliedOnce == Spec => AckedNeverReapplied
<1> DEFINE Keeps ==
      \A tx \in acked :
          {i \in 1 .. Len(db') : db'[i] = tx} = {i \in 1 .. Len(db) : db[i] = tx}
<1>1. ASSUME IInv, [Next]_vars PROVE [Keeps]_vars
  <2>1. CASE db' = db
    BY <2>1
  <2>2. ASSUME NEW t \in Tx, Durable!Write(t) PROVE Keeps
    <3> SUFFICES ASSUME NEW tx \in acked
                 PROVE  {i \in 1 .. Len(db') : db'[i] = tx} = {i \in 1 .. Len(db) : db[i] = tx}
      OBVIOUS
    <3>1. db' = Append(db, t) /\ t # tx
      BY <2>2 DEF Durable!Write
    <3>2. db \in Seq(Tx)
      BY <1>1 DEF IInv, TypeOK
    <3> QED BY <3>1, <3>2, AppendFacts
  <2>3. [Durable!Next]_<<db, acked, status = "interrupted">>
    BY <1>1, NextStep
  <2> QED BY <2>1, <2>2, <2>3 DEF Durable!Next, Durable!Tell, Durable!Close
<1> QED BY <1>1, InductiveInvariant, PTL DEF Spec, AckedNeverReapplied
=============================================================================
