-------------------------------- MODULE Fanout --------------------------------
(***************************************************************************)
(* How committed transitions reach the clients of one match: the handler   *)
(* goroutines that commit under the match mutex and publish under the      *)
(* fan-out mutex afterwards, the handshake that hands a new connection its *)
(* snapshot, and the client store that folds what arrives.                 *)
(*                                                                         *)
(* A transition is its tick.  Commits always succeed here (MatchStore has  *)
(* the failures).  A connection is a client and the number of its attempt; *)
(* the goroutine serving it commits, publishes and acknowledges in turn.   *)
(* Seat claims arrive over HTTP and are served by goroutines of their own. *)
(***************************************************************************)
EXTENDS Integers, Sequences, FiniteSets

CONSTANTS
    Clients,
    Resuming,    \* clients whose hello carries a cursor, resumeFromTick
    Joiners,     \* HTTP requests claiming a seat
    MaxTick,     \* bound: transitions committed
    MaxConns     \* bound: connections a client opens

ASSUME BoundsAssumption == MaxTick \in Nat /\ MaxConns \in Nat
ASSUME ResumingAssumption == Resuming \subseteq Clients

Connections == Clients \X (1 .. MaxConns)
Writers     == Connections \cup (Joiners \X {0})
Ticks       == 1 .. MaxTick
Nobody      == <<>>

VARIABLES
    tick,     \* Match.state.Tick
    fan,      \* holder of fanoutMu, Nobody when free
    task,     \* what each goroutine is doing: its stage, tick and remaining recipients
    conn,     \* number of each client's current connection
    link,     \* stage of that connection's handshake
    snap,     \* tick of the snapshot ResumeFor took for it
    replay,   \* first tick of the range it is to catch up with, 0 for none
    wire,     \* frames written to it and not yet read
    view,     \* the client's store
    since     \* history: tick at which the current connection became ready

vars == <<tick, fan, task, conn, link, snap, replay, wire, view, since>>

Idle == [stage |-> "idle", tick |-> 0, to |-> {}]

\* held: a snapshot was installed; tick: the tick of the view; times: how often
\* each transition's effect is in the view; applied: the dedup set.
EmptyView == [held |-> FALSE, tick |-> 0, times |-> [t \in Ticks |-> 0], applied |-> {}]

Init ==
    /\ tick = 0
    /\ fan = Nobody
    /\ task = [w \in Writers |-> Idle]
    /\ conn = [c \in Clients |-> 0]
    /\ link = [c \in Clients |-> "down"]
    /\ snap = [c \in Clients |-> 0]
    /\ replay = [c \in Clients |-> 0]
    /\ wire = [c \in Clients |-> <<>>]
    /\ view = [c \in Clients |-> EmptyView]
    /\ since = [c \in Clients |-> 0]

-----------------------------------------------------------------------------
(* The handshake. *)

\* A connection opens and Bind attaches it to its seat, closed to publications.
Connect(c) ==
    /\ link[c] = "down"
    /\ conn[c] < MaxConns
    /\ conn' = [conn EXCEPT ![c] = @ + 1]
    /\ link' = [link EXCEPT ![c] = "bound"]
    /\ UNCHANGED <<tick, fan, task, snap, replay, wire, view, since>>

\* The catch-up ranges ResumeFor may return, by their first tick: none without a
\* cursor, at the newest tick, ahead of it or before the retained window
\* (RetainedHistory has which), and all that follows the cursor otherwise.
Replayable(c) == {0} \cup (IF c \in Resuming THEN 1 .. tick ELSE {})

\* Mutant: the snapshot is labelled with the tick that comes next.
ResumeFor_ahead(c) ==
    /\ link[c] = "bound"
    /\ snap' = [snap EXCEPT ![c] = tick + 1]
    /\ \E from \in Replayable(c) : replay' = [replay EXCEPT ![c] = from]
    /\ link' = [link EXCEPT ![c] = "resumed"]
    /\ UNCHANGED <<tick, fan, task, conn, wire, view, since>>

\* Snapshot and catch-up range are taken under one acquisition of the match mutex.
ResumeFor(c) ==
    /\ link[c] = "bound"
    /\ snap' = [snap EXCEPT ![c] = tick]
    /\ \E from \in Replayable(c) : replay' = [replay EXCEPT ![c] = from]
    /\ link' = [link EXCEPT ![c] = "resumed"]
    /\ UNCHANGED <<tick, fan, task, conn, wire, view, since>>

\* The range goes out first, as one frame.
SendCatchup(c) ==
    /\ link[c] = "resumed" /\ replay[c] # 0
    /\ wire' = [wire EXCEPT
          ![c] = Append(@, [type |-> "catchup", from |-> replay[c], tick |-> snap[c]])]
    /\ replay' = [replay EXCEPT ![c] = 0]
    /\ UNCHANGED <<tick, fan, task, conn, link, snap, view, since>>

SendSnapshot(c) ==
    /\ link[c] = "resumed" /\ replay[c] = 0
    /\ wire' = [wire EXCEPT ![c] = Append(@, [type |-> "snapshot", tick |-> snap[c]])]
    /\ link' = [link EXCEPT ![c] = "sent"]
    /\ UNCHANGED <<tick, fan, task, conn, snap, replay, view, since>>

MarkReady(c) ==
    /\ link[c] = "sent"
    /\ link' = [link EXCEPT ![c] = "ready"]
    /\ since' = [since EXCEPT ![c] = tick]
    /\ UNCHANGED <<tick, fan, task, conn, snap, replay, wire, view>>

\* The socket dies with whatever is still on it; the store survives.
Drop(c) ==
    /\ link[c] # "down"
    /\ conn[c] < MaxConns
    /\ link' = [link EXCEPT ![c] = "down"]
    /\ replay' = [replay EXCEPT ![c] = 0]
    /\ wire' = [wire EXCEPT ![c] = <<>>]
    /\ UNCHANGED <<tick, fan, task, conn, snap, view, since>>

-----------------------------------------------------------------------------
(* Commit, publish, acknowledge. *)

Commit(w) ==
    /\ tick < MaxTick
    /\ task[w] = Idle
    /\ tick' = tick + 1
    /\ task' = [task EXCEPT ![w] = [stage |-> "publish", tick |-> tick + 1, to |-> {}]]
    /\ UNCHANGED <<fan, conn, link, snap, replay, wire, view, since>>

\* ApplyAction, on the goroutine of a connection that finished its handshake.
Act(c) == link[c] = "ready" /\ Commit(<<c, conn[c]>>)

\* claimSeat, once per request.
Join(j) == Commit(<<j, 0>>)

\* Mutant: a connection is published to as soon as it is bound.
Readied_bound == {c \in Clients : link[c] # "down"}

Readied == {c \in Clients : link[c] = "ready"}

\* Broadcast takes fanoutMu and then, under the match mutex, collects the
\* connections that are ready at this moment.
Collect(w) ==
    /\ task[w].stage = "publish"
    /\ fan = Nobody
    /\ fan' = w
    /\ task' = [task EXCEPT ![w].stage = "send", ![w].to = {<<c, conn[c]>> : c \in Readied}]
    /\ UNCHANGED <<tick, conn, link, snap, replay, wire, view, since>>

Transition(t) == [type |-> "transition", from |-> t, tick |-> t]

Deliver(c, k, frame) ==
    wire' = IF conn[c] = k /\ link[c] # "down"
            THEN [wire EXCEPT ![c] = Append(@, frame)] ELSE wire

\* One write of the fan-out; to a dead connection it fails and is skipped.
Send(w) ==
    /\ task[w].stage = "send"
    /\ \E r \in task[w].to :
          /\ task' = [task EXCEPT ![w].to = @ \ {r}]
          /\ Deliver(r[1], r[2], Transition(task[w].tick))
    /\ UNCHANGED <<tick, fan, conn, link, snap, replay, view, since>>

\* Mutant: the publication of a seat claim does not give the lock back.
Release_joinKeeps(w) ==
    /\ task[w].stage = "send" /\ task[w].to = {}
    /\ fan' = IF w \in Connections THEN Nobody ELSE fan
    /\ task' = [task EXCEPT ![w].stage = IF w \in Connections THEN "ack" ELSE "done"]
    /\ UNCHANGED <<tick, conn, link, snap, replay, wire, view, since>>

Release(w) ==
    /\ task[w].stage = "send" /\ task[w].to = {}
    /\ fan' = Nobody
    /\ task' = [task EXCEPT ![w].stage = IF w \in Connections THEN "ack" ELSE "done"]
    /\ UNCHANGED <<tick, conn, link, snap, replay, wire, view, since>>

\* The acknowledgement carries the snapshot taken when the action committed.
Ack(w) ==
    /\ task[w].stage = "ack"
    /\ Deliver(w[1], w[2], [type |-> "ack", tick |-> task[w].tick])
    /\ task' = [task EXCEPT ![w] = Idle]
    /\ UNCHANGED <<tick, fan, conn, link, snap, replay, view, since>>

-----------------------------------------------------------------------------
(* The client store. *)

\* applySnapshot: a snapshot older than the view is ignored; it does not touch
\* the dedup set.
ApplySnapshot(v, t) ==
    IF v.held /\ t < v.tick THEN v
    ELSE [v EXCEPT !.held = TRUE, !.tick = t,
                   !.times = [u \in Ticks |-> IF u <= t THEN 1 ELSE 0]]

\* The effects of the ticks of a batch, folded into a view.
FoldBatch(v, batch, t) ==
    [v EXCEPT !.tick = IF t > @ THEN t ELSE @,
              !.times = [u \in Ticks |-> @[u] + (IF u \in batch THEN 1 ELSE 0)]]

\* Mutant: what the view has passed counts as applied.
ApplyEvents_byTick(v, from, t) ==
    IF v.held /\ from > v.tick THEN FoldBatch(v, from .. t, t) ELSE v

\* applyEvents: a batch goes by the tick of its first event, and is not folded
\* again when that tick is in the dedup set; without a view there is nothing to
\* fold into, but the tick is marked all the same.
ApplyEvents(v, from, t) ==
    LET folded == IF v.held /\ from \notin v.applied THEN FoldBatch(v, from .. t, t) ELSE v
    IN  [folded EXCEPT !.applied = @ \cup {from}]

Receive(c) ==
    /\ wire[c] # <<>>
    /\ LET f == Head(wire[c])
       IN  view' = [view EXCEPT ![c] = IF f.type \in {"transition", "catchup"}
                                       THEN ApplyEvents(@, f.from, f.tick)
                                       ELSE ApplySnapshot(@, f.tick)]
    /\ wire' = [wire EXCEPT ![c] = Tail(@)]
    /\ UNCHANGED <<tick, fan, task, conn, link, snap, replay, since>>

-----------------------------------------------------------------------------

Publishing(w) == Collect(w) \/ Send(w) \/ Release(w) \/ Ack(w)

Next ==
    \/ \E c \in Clients :
          \/ Connect(c) \/ ResumeFor(c) \/ SendCatchup(c) \/ SendSnapshot(c)
          \/ MarkReady(c) \/ Drop(c) \/ Act(c) \/ Receive(c)
    \/ \E j \in Joiners : Join(j)
    \/ \E w \in Writers : Publishing(w)

Spec == Init /\ [][Next]_vars

\* Goroutines that can run do run, every write is bounded by a timeout, and
\* sync.Mutex hands over to a waiter that has been starved.
FairSpec ==
    /\ Spec
    /\ \A w \in Writers : SF_vars(Collect(w)) /\ WF_vars(Send(w) \/ Release(w) \/ Ack(w))
    /\ \A c \in Clients : WF_vars(Receive(c))

-----------------------------------------------------------------------------
(* Properties. *)

Frame == [type : {"snapshot", "ack"}, tick : 0 .. MaxTick]
         \cup [type : {"transition", "catchup"}, from : Ticks, tick : Ticks]

\* Connections, goroutines and client stores stay within their stages and bounds.
TypeOK ==
    /\ tick \in 0 .. MaxTick
    /\ fan \in Writers \cup {Nobody}
    /\ task \in [Writers -> [stage : {"idle", "publish", "send", "ack", "done"},
                             tick : 0 .. MaxTick, to : SUBSET Connections]]
    /\ conn \in [Clients -> 0 .. MaxConns]
    /\ link \in [Clients -> {"down", "bound", "resumed", "sent", "ready"}]
    /\ snap \in [Clients -> 0 .. MaxTick]
    /\ replay \in [Clients -> 0 .. MaxTick]
    /\ wire \in [Clients -> Seq(Frame)]
    /\ view \in [Clients -> [held : BOOLEAN, tick : 0 .. MaxTick,
                             times : [Ticks -> Nat], applied : SUBSET Ticks]]
    /\ since \in [Clients -> 0 .. MaxTick]

\* Nothing live reaches a connection before its snapshot: no client reads a
\* transition or an acknowledgement ahead of the state it builds on, also when
\* it reconnects while others act.  The one frame that may precede the snapshot is
\* the catch-up of a client that sent a cursor; it ends at the snapshot's tick and
\* nothing is written between the two.
SnapshotBeforeLive ==
    \A c \in Clients :
        /\ link[c] \notin {"sent", "ready"} =>
              \A i \in 1 .. Len(wire[c]) : wire[c][i].type = "catchup"
        /\ \A i \in 1 .. Len(wire[c]) : wire[c][i].type = "snapshot" =>
              \A j \in 1 .. i - 1 : wire[c][j].type = "catchup"
        /\ \A i \in 1 .. Len(wire[c]) : wire[c][i].type = "catchup" =>
              /\ i = 1
              /\ Len(wire[c]) > 1 =>
                    wire[c][2] = [type |-> "snapshot", tick |-> wire[c][1].tick]

Quiet ==
    /\ \A w \in Writers : task[w].stage \in {"idle", "done"}
    /\ \A c \in Clients : wire[c] = <<>> /\ link[c] \in {"down", "ready"}

\* A client that was ready when a transition committed does not lose it,
\* whichever order the frames of several writers and its own acknowledgements
\* reach it in.
NoLossWhileReady ==
    Quiet => \A c \in Readied : \A t \in since[c] + 1 .. tick : view[c].times[t] >= 1

\* Every committed transition is published: its goroutine gets the fan-out
\* lock, writes to everyone and lets go of it.
CommitIsPublished == \A w \in Writers : task[w].stage = "publish" ~> task[w].stage \in {"idle", "done"}

\* The handshake loses nothing: once all is delivered, a connected client's
\* view contains every committed transition.
HandshakeLosesNothing ==
    Quiet => \A c \in Readied : \A t \in 1 .. tick : view[c].times[t] >= 1
=============================================================================
