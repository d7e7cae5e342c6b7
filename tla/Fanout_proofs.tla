----------------------------- MODULE Fanout_proofs -----------------------------
(***************************************************************************)
(* Proofs about Fanout, for any number of clients, seat claims, commits    *)
(* and connections: the type invariant, that nothing but the catch-up      *)
(* reaches a connection before its snapshot, and that a client which was   *)
(* ready when a transition committed does not lose it.                     *)
(***************************************************************************)
EXTENDS Fanout, TLAPS

Views == [held : BOOLEAN, tick : 0 .. MaxTick, times : [Ticks -> Nat], applied : SUBSET Ticks]
Tasks == [stage : {"idle", "publish", "send", "ack", "done"}, tick : 0 .. MaxTick, to : SUBSET Connections]

Busy(w) == task[w].stage \in {"publish", "send", "ack"}

\* Connection r is past its handshake, or gone: nothing is written to it while
\* it is being set up.
Established(r) == r[2] < conn[r[1]] \/ (r[2] = conn[r[1]] /\ link[r[1]] \in {"ready", "down"})

\* Connections are counted from one; those that act or are published to have
\* finished their handshake.
ConnInv ==
    /\ \A c \in Clients : link[c] # "down" => conn[c] >= 1
    /\ \A w \in Writers : task[w].stage = "ack" => w \in Connections
    /\ \A w \in Connections : Busy(w) => Established(w)
    /\ \A w \in Writers : task[w].stage = "send" => \A r \in task[w].to : Established(r)

\* Nothing is published or known ahead of its commit, and a transition goes by
\* its own tick.
TickInv ==
    /\ \A w \in Writers : Busy(w) => task[w].tick \in 1 .. tick
    /\ \A c \in Clients : \A i \in 1 .. Len(wire[c]) :
          wire[c][i].type = "transition" => /\ wire[c][i].tick \in 1 .. tick
                                            /\ wire[c][i].from = wire[c][i].tick
    /\ \A c \in Clients : view[c].applied \subseteq 1 .. tick

\* What the handshake of client c has written: nothing before ResumeFor; a
\* catch-up that is still to be sent is the first frame; one that was sent ends at
\* the snapshot, which follows it; and all of it was committed when the client
\* became ready.
CatchupOf(c) ==
    /\ link[c] \in {"down", "bound"} => wire[c] = <<>>
    /\ replay[c] # 0 => link[c] = "resumed" /\ wire[c] = <<>>
    /\ snap[c] \in 0 .. tick /\ replay[c] \in 0 .. snap[c]
    /\ link[c] = "ready" => snap[c] <= since[c]
    /\ \A i \in 1 .. Len(wire[c]) : wire[c][i].type = "catchup" =>
          wire[c][i].from \in 1 .. snap[c] /\ wire[c][i].tick = snap[c]
    /\ link[c] \in {"sent", "ready"} /\ wire[c] # <<>> /\ wire[c][1].type = "catchup" =>
          Len(wire[c]) > 1

CatchupInv == \A c \in Clients : CatchupOf(c)

\* A view starts with a snapshot; after the handshake the client has one, or
\* its snapshot is still to be read.
ViewInv ==
    /\ \A c \in Clients : view[c].held \/ view[c].tick = 0
    /\ \A c \in Clients : link[c] \in {"sent", "ready"} =>
          view[c].held \/ \E i \in 1 .. Len(wire[c]) : wire[c][i].type = "snapshot"

\* Transition t is in the view of client c for good.
Folded(c, t) == view[c].times[t] >= 1 /\ t <= view[c].tick

\* Transition t is on its way to client c.
Coming(c, t) ==
    \/ \E w \in Writers : task[w].stage = "publish" /\ task[w].tick = t
    \/ \E w \in Writers : task[w].stage = "send" /\ task[w].tick = t /\ <<c, conn[c]>> \in task[w].to
    \/ \E i \in 1 .. Len(wire[c]) : wire[c][i].type = "transition" /\ wire[c][i].tick = t

\* What was committed since a client became ready is in its view or on its way,
\* and what its dedup set holds of that is in its view.
DeliveryInv ==
    \A c \in Readied : \A t \in since[c] + 1 .. tick :
        /\ Folded(c, t) \/ Coming(c, t)
        /\ t \in view[c].applied => Folded(c, t)

\* The frames on the wire of client c come in order: what SnapshotBeforeLive
\* says of one client.
InOrder(c) ==
    /\ link[c] \notin {"sent", "ready"} =>
          \A i \in 1 .. Len(wire[c]) : wire[c][i].type = "catchup"
    /\ \A i \in 1 .. Len(wire[c]) : wire[c][i].type = "snapshot" =>
          \A j \in 1 .. i - 1 : wire[c][j].type = "catchup"
    /\ \A i \in 1 .. Len(wire[c]) : wire[c][i].type = "catchup" =>
          /\ i = 1
          /\ Len(wire[c]) > 1 =>
                wire[c][2] = [type |-> "snapshot", tick |-> wire[c][1].tick]

OrderInv == \A c \in Clients : InOrder(c)

IInv == TypeOK /\ ConnInv /\ TickInv /\ OrderInv /\ CatchupInv /\ ViewInv /\ DeliveryInv

-----------------------------------------------------------------------------
(* The client store. *)

\* A snapshot keeps every transition the view is past, and the dedup set.
LEMMA SnapshotFacts ==
    ASSUME NEW v \in Views, v.held \/ v.tick = 0, NEW t \in 0 .. MaxTick
    PROVE  /\ ApplySnapshot(v, t) \in Views
           /\ ApplySnapshot(v, t).held
           /\ ApplySnapshot(v, t).applied = v.applied
           /\ \A u \in Ticks : v.times[u] >= 1 /\ u <= v.tick =>
                 ApplySnapshot(v, t).times[u] >= 1 /\ u <= ApplySnapshot(v, t).tick
<1>1. CASE v.held /\ t < v.tick
  <2>1. ApplySnapshot(v, t) = v
    BY <1>1 DEF ApplySnapshot
  <2> QED BY <1>1, <2>1
<1>2. CASE ~(v.held /\ t < v.tick)
  <2> DEFINE ts == [u \in Ticks |-> IF u <= t THEN 1 ELSE 0]
  <2>1. ApplySnapshot(v, t) = [v EXCEPT !.held = TRUE, !.tick = t, !.times = ts]
    BY <1>2 DEF ApplySnapshot
  <2>2. ts \in [Ticks -> Nat]
    OBVIOUS
  <2> HIDE DEF ts
  <2>3. ApplySnapshot(v, t) \in Views
    BY <2>1, <2>2 DEF Views
  <2>4. /\ ApplySnapshot(v, t).held /\ ApplySnapshot(v, t).applied = v.applied
        /\ ApplySnapshot(v, t).tick = t /\ ApplySnapshot(v, t).times = ts
    BY <2>1 DEF Views
  <2>5. ASSUME v.held PROVE v.tick <= t
    BY <1>2, <2>5, BoundsAssumption DEF Views
  <2>6. ASSUME NEW u \in Ticks, u <= v.tick PROVE ts[u] >= 1 /\ u <= t
    <3>1. u \in Nat /\ u >= 1 /\ v.tick \in Int /\ v.held
      BY <2>6, BoundsAssumption DEF Ticks, Views
    <3>2. u <= t
      BY <2>5, <2>6, <3>1
    <3> QED BY <3>2 DEF ts
  <2> QED BY <2>3, <2>4, <2>6
<1> QED BY <1>1, <1>2

\* A folded batch is in the view, and takes nothing out of it.
LEMMA EventsFacts ==
    ASSUME NEW v \in Views, NEW from \in Ticks, NEW t \in Ticks, from <= t
    PROVE  /\ ApplyEvents(v, from, t) \in Views
           /\ ApplyEvents(v, from, t).held = v.held
           /\ ApplyEvents(v, from, t).applied = v.applied \cup {from}
           /\ \A u \in Ticks : v.times[u] >= 1 /\ u <= v.tick =>
                 ApplyEvents(v, from, t).times[u] >= 1 /\ u <= ApplyEvents(v, from, t).tick
           /\ v.held /\ from \notin v.applied =>
                 ApplyEvents(v, from, t).times[from] >= 1 /\ from <= ApplyEvents(v, from, t).tick
           /\ ~v.held => ApplyEvents(v, from, t).tick = v.tick
<1>1. MaxTick \in Nat /\ t \in Nat /\ t \in 0 .. MaxTick /\ from \in Nat
  BY BoundsAssumption DEF Ticks
<1>2. CASE v.held /\ from \notin v.applied
  <2> DEFINE nt == IF t > v.tick THEN t ELSE v.tick
             ts == [u \in Ticks |-> v.times[u] + (IF u \in from .. t THEN 1 ELSE 0)]
             w == [v EXCEPT !.tick = nt, !.times = ts]
  <2>1. ApplyEvents(v, from, t) = [w EXCEPT !.applied = @ \cup {from}]
    BY <1>2 DEF ApplyEvents, FoldBatch, Views
  <2>2. nt \in 0 .. MaxTick /\ v.tick <= nt /\ t <= nt
    BY <1>1 DEF Views
  <2>3. v.times \in [Ticks -> Nat]
    BY DEF Views
  <2>4. ts \in [Ticks -> Nat] /\ \A u \in Ticks : ts[u] >= v.times[u] /\ v.times[u] \in Nat
    BY <2>3
  <2>5. ts[from] >= 1
    <3>1. from \in from .. t
      BY <1>1
    <3> QED BY <2>3, <3>1
  <2> HIDE DEF nt, ts
  <2>6. w \in Views /\ w.held = v.held /\ w.applied = v.applied /\ w.tick = nt /\ w.times = ts
    BY <2>2, <2>4 DEF Views
  <2> HIDE DEF w
  <2>7. /\ ApplyEvents(v, from, t) \in Views /\ ApplyEvents(v, from, t).held = w.held
        /\ ApplyEvents(v, from, t).applied = w.applied \cup {from}
        /\ ApplyEvents(v, from, t).tick = w.tick /\ ApplyEvents(v, from, t).times = w.times
    BY <2>1, <2>6 DEF Views
  <2>8. ASSUME NEW u \in Ticks, v.times[u] >= 1, u <= v.tick PROVE ts[u] >= 1 /\ u <= nt
    <3>1. v.tick \in Int /\ u \in Int /\ ts[u] \in Nat
      BY <2>4 DEF Views, Ticks
    <3> QED BY <2>2, <2>4, <2>8, <3>1
  <2>9. from <= nt
    BY <1>1, <2>2
  <2> QED BY <1>2, <2>5, <2>6, <2>7, <2>8, <2>9
<1>3. CASE ~(v.held /\ from \notin v.applied)
  <2>1. ApplyEvents(v, from, t) = [v EXCEPT !.applied = @ \cup {from}]
    BY <1>3 DEF ApplyEvents
  <2>2. /\ ApplyEvents(v, from, t) \in Views /\ ApplyEvents(v, from, t).held = v.held
        /\ ApplyEvents(v, from, t).applied = v.applied \cup {from}
        /\ ApplyEvents(v, from, t).tick = v.tick /\ ApplyEvents(v, from, t).times = v.times
    BY <2>1 DEF Views
  <2> QED BY <1>3, <2>2
<1> QED BY <1>2, <1>3

-----------------------------------------------------------------------------
(* The handshake. *)

\* What the invariant says about types, in the words of this module.
LEMMA Types ==
    ASSUME TypeOK
    PROVE  /\ task \in [Writers -> Tasks] /\ view \in [Clients -> Views]
           /\ MaxTick \in Nat /\ MaxConns \in Nat /\ tick \in Nat
           /\ \A c \in Clients : conn[c] \in Nat /\ wire[c] \in Seq(Frame)
           /\ \A r \in Connections : r[1] \in Clients /\ r[2] \in Nat /\ r = <<r[1], r[2]>>
           /\ Connections \subseteq Writers
BY BoundsAssumption DEF TypeOK, Tasks, Views, Connections, Writers

\* A fresh match has nothing to deliver.
LEMMA InitIInv == Init => IInv
<1> SUFFICES ASSUME Init PROVE IInv
  OBVIOUS
<1>1. 0 \in 0 .. MaxTick /\ 0 \in 0 .. MaxConns
  BY BoundsAssumption
<1>2. Idle \in Tasks /\ EmptyView \in Views
  BY <1>1 DEF Idle, EmptyView, Tasks, Views
<1>3. \A c \in Clients : wire[c] = <<>> /\ link[c] = "down" /\ view[c] = EmptyView
  BY DEF Init
<1>4. \A w \in Writers : task[w] = Idle /\ Idle.stage = "idle"
  BY DEF Init, Idle
<1>5. TypeOK
  <2>1. <<>> \in Seq(Frame)
    OBVIOUS
  <2> QED BY <1>1, <1>2, <2>1 DEF Init, TypeOK, Tasks, Views
<1>6. ConnInv
  BY <1>3, <1>4, <1>5, Types DEF ConnInv, Busy
<1>7. TickInv
  BY <1>3, <1>4 DEF TickInv, Busy, EmptyView
<1>8. OrderInv /\ CatchupInv
  <2>1. \A c \in Clients : snap[c] = 0 /\ replay[c] = 0
    BY DEF Init
  <2>2. Len(<<>>) = 0 /\ 0 \in 0 .. tick
    BY DEF Init
  <2>3. OrderInv
    BY <1>3, <2>2 DEF OrderInv, InOrder
  <2>4. CatchupInv
    BY <1>3, <2>1, <2>2 DEF CatchupInv, CatchupOf
  <2> QED BY <2>3, <2>4
<1>9. ViewInv /\ DeliveryInv
  BY <1>3 DEF ViewInv, DeliveryInv, Readied, EmptyView
<1> QED BY <1>5, <1>6, <1>7, <1>8, <1>9 DEF IInv

\* What is said of one client's wire stays true while that client is left alone.
LEMMA Untouched ==
    ASSUME NEW c, CatchupOf(c), InOrder(c), tick \in Nat, tick' \in Nat, tick <= tick',
           wire'[c] = wire[c], link'[c] = link[c], replay'[c] = replay[c],
           snap'[c] = snap[c], since'[c] = since[c]
    PROVE  CatchupOf(c)' /\ InOrder(c)'
<1>1. InOrder(c)'
  BY DEF InOrder
<1>2. snap[c] \in 0 .. tick => snap[c] \in 0 .. tick'
  OBVIOUS
<1>3. CatchupOf(c)'
  BY <1>2 DEF CatchupOf
<1> QED BY <1>1, <1>3

\* Nor does what is said of the wires change in a step that leaves the handshakes,
\* the wires and the stores alone.
LEMMA WiresKept ==
    ASSUME IInv, tick' \in Nat, tick <= tick', UNCHANGED <<link, snap, replay, wire, view, since>>
    PROVE  OrderInv' /\ CatchupInv' /\ ViewInv'
<1>1. ASSUME NEW c \in Clients PROVE CatchupOf(c)' /\ InOrder(c)'
  <2>1. CatchupOf(c) /\ InOrder(c) /\ tick \in Nat
    BY Types DEF IInv, OrderInv, CatchupInv
  <2> QED BY <2>1, Untouched
<1>2. ViewInv'
  BY DEF IInv, ViewInv
<1> QED BY <1>1, <1>2 DEF OrderInv, CatchupInv

\* A connection that is being set up is nobody's recipient, so nothing that is
\* established changes when its handshake advances.
LEMMA HandshakeFrame ==
    ASSUME IInv, NEW c \in Clients, NEW x \in {"bound", "resumed", "sent", "ready", "down"},
           link' = [link EXCEPT ![c] = x], task' = task,
           \/ conn' = conn /\ (x \in {"ready", "down"} \/ link[c] \notin {"ready", "down"})
           \/ conn' = [conn EXCEPT ![c] = @ + 1] /\ conn[c] < MaxConns,
           x # "down" => conn'[c] >= 1
    PROVE  ConnInv' /\ conn' \in [Clients -> 0 .. MaxConns]
           /\ link' \in [Clients -> {"down", "bound", "resumed", "sent", "ready"}]
<1>1. /\ \A r \in Connections : r[1] \in Clients /\ r[2] \in Nat
      /\ \A d \in Clients : conn[d] \in Nat
      /\ MaxConns \in Nat
  BY Types DEF IInv
<1>2. link \in [Clients -> {"down", "bound", "resumed", "sent", "ready"}] /\ conn \in [Clients -> 0 .. MaxConns]
  BY DEF IInv, TypeOK
<1>3. conn' \in [Clients -> 0 .. MaxConns]
  BY <1>1, <1>2
<1>4. \A d \in Clients : d # c => conn'[d] = conn[d] /\ link'[d] = link[d]
  BY <1>2
<1>5. link'[c] = x /\ link' \in [Clients -> {"down", "bound", "resumed", "sent", "ready"}]
  BY <1>2
<1>6. ASSUME NEW r \in Connections, Established(r) PROVE Established(r)'
  <2>1. CASE r[1] # c
    BY <1>1, <1>4, <1>6, <2>1 DEF Established
  <2>2. CASE r[1] = c /\ conn' = conn
    <3>1. x \in {"ready", "down"} \/ link[c] \notin {"ready", "down"}
      BY <1>1, <1>2, <2>2
    <3> QED BY <1>1, <1>5, <1>6, <2>2, <3>1 DEF Established
  <2>3. CASE r[1] = c /\ conn' = [conn EXCEPT ![c] = @ + 1]
    <3>1. conn'[c] = conn[c] + 1
      BY <1>2, <2>3
    <3> QED BY <1>1, <1>6, <2>3, <3>1 DEF Established
  <2> QED BY <2>1, <2>2, <2>3
<1>7. \A d \in Clients : link'[d] # "down" => conn'[d] >= 1
  BY <1>4, <1>5 DEF IInv, ConnInv
<1>8. /\ \A w \in Writers : task'[w].stage = "ack" => w \in Connections
      /\ \A w \in Connections : Busy(w)' => Established(w)'
  BY <1>6 DEF IInv, ConnInv, Busy
<1>9. \A w \in Writers : task'[w].stage = "send" => \A r \in task'[w].to : Established(r)'
  <2>1. \A w \in Writers : task[w].to \subseteq Connections
    BY Types DEF IInv, Tasks
  <2> QED BY <1>6, <2>1 DEF IInv, ConnInv
<1> QED BY <1>3, <1>5, <1>7, <1>8, <1>9 DEF ConnInv

\* A connection opens, closed to publications.
LEMMA ConnectStep == ASSUME IInv, NEW c \in Clients, Connect(c) PROVE IInv'
<1>1. /\ link[c] = "down" /\ conn[c] < MaxConns
      /\ conn' = [conn EXCEPT ![c] = @ + 1]
      /\ link' = [link EXCEPT ![c] = "bound"]
      /\ UNCHANGED <<tick, fan, task, snap, replay, wire, view, since>>
  BY DEF Connect
<1>2. conn'[c] >= 1
  BY <1>1, Types DEF IInv, TypeOK
<1>3. ConnInv' /\ conn' \in [Clients -> 0 .. MaxConns]
      /\ link' \in [Clients -> {"down", "bound", "resumed", "sent", "ready"}]
  BY <1>1, <1>2, HandshakeFrame
<1>4. TypeOK'
  BY <1>1, <1>3 DEF IInv, TypeOK
<1>5. TickInv'
  BY <1>1 DEF IInv, TickInv, Busy
<1>6. \A d \in Clients : link'[d] \in {"sent", "ready"} => link[d] = link'[d] /\ conn'[d] = conn[d]
  BY <1>1 DEF IInv, TypeOK
<1>7. OrderInv' /\ CatchupInv'
  <2> SUFFICES ASSUME NEW d \in Clients PROVE CatchupOf(d)' /\ InOrder(d)'
    BY DEF OrderInv, CatchupInv
  <2>1. CatchupOf(d) /\ InOrder(d) /\ tick \in Nat
    BY Types DEF IInv, OrderInv, CatchupInv
  <2>2. CASE d = c
    <3>1. link'[d] = "bound" /\ link[d] = "down"
      BY <1>1, <2>2 DEF IInv, TypeOK
    <3>2. CatchupOf(d)'
      BY <1>1, <2>1, <3>1 DEF CatchupOf
    <3>3. InOrder(d)'
      BY <1>1, <2>1, <3>1 DEF InOrder
    <3> QED BY <3>2, <3>3
  <2>3. CASE d # c
    <3>1. link'[d] = link[d]
      BY <1>1, <2>3 DEF IInv, TypeOK
    <3> QED BY <1>1, <2>1, <3>1, Untouched
  <2> QED BY <2>2, <2>3
<1>8. ViewInv'
  BY <1>1, <1>6 DEF IInv, ViewInv
<1>9. DeliveryInv'
  BY <1>1, <1>6 DEF IInv, DeliveryInv, Readied, Folded, Coming
<1> QED BY <1>3, <1>4, <1>5, <1>7, <1>8, <1>9 DEF IInv

\* ResumeFor notes the tick of the state it captured, and the range that leads
\* up to it.
LEMMA ResumeForStep == ASSUME IInv, NEW c \in Clients, ResumeFor(c) PROVE IInv'
<1>1. /\ link[c] = "bound"
      /\ snap' = [snap EXCEPT ![c] = tick]
      /\ link' = [link EXCEPT ![c] = "resumed"]
      /\ UNCHANGED <<tick, fan, task, conn, wire, view, since>>
  BY DEF ResumeFor
<1>2. PICK from \in Replayable(c) : replay' = [replay EXCEPT ![c] = from]
  BY DEF ResumeFor
<1>3. tick \in Nat /\ from \in 0 .. tick /\ tick \in 0 .. MaxTick /\ MaxTick \in Nat /\ from \in 0 .. MaxTick
  BY Types DEF Replayable, IInv, TypeOK
<1>4. conn'[c] >= 1
  BY <1>1 DEF IInv, ConnInv
<1>5. ConnInv' /\ conn' \in [Clients -> 0 .. MaxConns]
      /\ link' \in [Clients -> {"down", "bound", "resumed", "sent", "ready"}]
  BY <1>1, <1>4, HandshakeFrame
<1>6. TypeOK'
  BY <1>1, <1>2, <1>3, <1>5 DEF IInv, TypeOK
<1>7. TickInv'
  BY <1>1 DEF IInv, TickInv, Busy
<1>8. \A d \in Clients : link'[d] \in {"sent", "ready"} <=> link[d] \in {"sent", "ready"}
  BY <1>1 DEF IInv, TypeOK
<1>9. OrderInv' /\ CatchupInv'
  <2> SUFFICES ASSUME NEW d \in Clients PROVE CatchupOf(d)' /\ InOrder(d)'
    BY DEF OrderInv, CatchupInv
  <2>1. CatchupOf(d) /\ InOrder(d)
    BY DEF IInv, OrderInv, CatchupInv
  <2>2. CASE d = c
    <3>1. link'[d] = "resumed" /\ snap'[d] = tick /\ replay'[d] = from
      BY <1>1, <1>2, <2>2 DEF IInv, TypeOK
    <3>2. wire'[d] = <<>> /\ Len(<<>>) = 0
      BY <1>1, <2>1, <2>2 DEF CatchupOf
    <3>3. CatchupOf(d)'
      BY <1>1, <1>3, <3>1, <3>2 DEF CatchupOf
    <3>4. InOrder(d)'
      BY <3>2 DEF InOrder
    <3> QED BY <3>3, <3>4
  <2>3. CASE d # c
    <3>1. link'[d] = link[d] /\ snap'[d] = snap[d] /\ replay'[d] = replay[d]
      BY <1>1, <1>2, <2>3 DEF IInv, TypeOK
    <3> QED BY <1>1, <1>3, <2>1, <3>1, Untouched
  <2> QED BY <2>2, <2>3
<1>10. ViewInv'
  BY <1>1, <1>8 DEF IInv, ViewInv
<1>11. Readied' = Readied
  BY <1>1 DEF IInv, TypeOK, Readied
<1>12. DeliveryInv'
  BY <1>1, <1>11 DEF IInv, DeliveryInv, Folded, Coming
<1> QED BY <1>5, <1>6, <1>7, <1>9, <1>10, <1>12 DEF IInv

\* A frame of the handshake goes behind what the connection holds, and changes
\* nothing that is owed to anyone.
LEMMA Written ==
    ASSUME IInv, NEW c \in Clients, NEW f \in Frame, f.type # "transition", link[c] # "ready",
           wire' = [wire EXCEPT ![c] = Append(@, f)],
           UNCHANGED <<tick, task, conn, view, since>>, Readied' = Readied
    PROVE  /\ wire' \in [Clients -> Seq(Frame)]
           /\ \A d \in Clients \ {c} : wire'[d] = wire[d]
           /\ wire[c] \in Seq(Frame) /\ wire'[c] = Append(wire[c], f)
           /\ Len(wire[c]) \in Nat /\ Len(wire'[c]) = Len(wire[c]) + 1
           /\ wire'[c][Len(wire[c]) + 1] = f
           /\ \A i \in 1 .. Len(wire[c]) : wire'[c][i] = wire[c][i]
           /\ TickInv' /\ DeliveryInv'
<1>1. wire \in [Clients -> Seq(Frame)] /\ wire[c] \in Seq(Frame)
  BY DEF IInv, TypeOK
<1>2. /\ wire' \in [Clients -> Seq(Frame)]
      /\ wire'[c] = Append(wire[c], f) /\ \A d \in Clients \ {c} : wire'[d] = wire[d]
  BY <1>1
<1>3. /\ Len(wire[c]) \in Nat /\ Len(wire'[c]) = Len(wire[c]) + 1
      /\ wire'[c][Len(wire[c]) + 1] = f
      /\ \A i \in 1 .. Len(wire[c]) : wire'[c][i] = wire[c][i]
  BY <1>1, <1>2
<1>4. TickInv'
  <2>1. \A w \in Writers : Busy(w)' => task'[w].tick \in 1 .. tick'
    BY DEF IInv, TickInv, Busy
  <2>2. ASSUME NEW d \in Clients, NEW i \in 1 .. Len(wire'[d]), wire'[d][i].type = "transition"
        PROVE  wire'[d][i].tick \in 1 .. tick /\ wire'[d][i].from = wire'[d][i].tick
    <3>1. CASE d = c
      <4>1. i \in 1 .. Len(wire[c])
        BY <1>3, <2>2, <3>1
      <4> QED BY <1>3, <2>2, <3>1, <4>1 DEF IInv, TickInv
    <3>2. CASE d # c
      BY <1>2, <2>2, <3>2 DEF IInv, TickInv
    <3> QED BY <3>1, <3>2
  <2> QED BY <2>1, <2>2 DEF IInv, TickInv
<1>5. \A d \in Readied : wire'[d] = wire[d]
  BY <1>2 DEF Readied
<1>6. DeliveryInv'
  BY <1>5 DEF IInv, DeliveryInv, Folded, Coming
<1> QED BY <1>1, <1>2, <1>3, <1>4, <1>6

\* The catch-up is the first frame of its connection, and ends at the tick of
\* the snapshot that follows.
LEMMA SendCatchupStep == ASSUME IInv, NEW c \in Clients, SendCatchup(c) PROVE IInv'
<1>1. PICK f : f = [type |-> "catchup", from |-> replay[c], tick |-> snap[c]]
  OBVIOUS
<1>2. /\ link[c] = "resumed" /\ replay[c] # 0
      /\ wire' = [wire EXCEPT ![c] = Append(@, f)]
      /\ replay' = [replay EXCEPT ![c] = 0]
      /\ UNCHANGED <<tick, fan, task, conn, link, snap, view, since>>
  BY <1>1 DEF SendCatchup
<1>3. CatchupOf(c) /\ tick \in 0 .. MaxTick /\ MaxTick \in Nat
  BY BoundsAssumption DEF IInv, CatchupInv, TypeOK
<1>4. wire[c] = <<>> /\ replay[c] \in 1 .. snap[c] /\ snap[c] \in 0 .. tick
  BY <1>2, <1>3 DEF CatchupOf
<1>5. f \in Frame /\ f.type = "catchup" /\ f.from = replay[c] /\ f.tick = snap[c]
  <2>1. replay[c] \in Ticks /\ snap[c] \in Ticks
    BY <1>3, <1>4 DEF Ticks
  <2> QED BY <1>1, <2>1 DEF Frame
<1>6. /\ wire' \in [Clients -> Seq(Frame)]
      /\ \A d \in Clients \ {c} : wire'[d] = wire[d]
      /\ wire'[c] = Append(wire[c], f)
      /\ TickInv' /\ DeliveryInv'
  <2>1. Readied' = Readied /\ f.type # "transition" /\ link[c] # "ready"
    BY <1>2, <1>5 DEF Readied
  <2> QED BY <1>2, <1>5, <2>1, Written
<1>7. wire'[c] = <<f>> /\ Len(<<f>>) = 1 /\ <<f>>[1] = f
  BY <1>4, <1>6
<1>8. /\ replay'[c] = 0 /\ replay' \in [Clients -> 0 .. MaxTick]
      /\ \A d \in Clients \ {c} : replay'[d] = replay[d]
  BY <1>2, <1>3 DEF IInv, TypeOK
<1>9. TypeOK'
  BY <1>2, <1>6, <1>8 DEF IInv, TypeOK
<1>10. ConnInv'
  BY <1>2 DEF IInv, ConnInv, Busy, Established
<1>11. OrderInv' /\ CatchupInv'
  <2> SUFFICES ASSUME NEW d \in Clients PROVE CatchupOf(d)' /\ InOrder(d)'
    BY DEF OrderInv, CatchupInv
  <2>1. CatchupOf(d) /\ InOrder(d)
    BY DEF IInv, OrderInv, CatchupInv
  <2>2. CASE d = c
    <3>1. CatchupOf(d)'
      BY <1>2, <1>3, <1>4, <1>5, <1>7, <1>8, <2>2 DEF CatchupOf
    <3>2. InOrder(d)'
      BY <1>2, <1>5, <1>7, <2>2 DEF InOrder
    <3> QED BY <3>1, <3>2
  <2>3. CASE d # c
    BY <1>2, <1>3, <1>6, <1>8, <2>1, <2>3, Untouched
  <2> QED BY <2>2, <2>3
<1>12. ViewInv'
  <2>1. \A d \in Clients : link'[d] \in {"sent", "ready"} => wire'[d] = wire[d]
    BY <1>2, <1>6
  <2> QED BY <1>2, <2>1 DEF IInv, ViewInv
<1> QED BY <1>6, <1>9, <1>10, <1>11, <1>12 DEF IInv

\* The snapshot is the first frame of its connection, or follows its catch-up.
LEMMA SendSnapshotStep == ASSUME IInv, NEW c \in Clients, SendSnapshot(c) PROVE IInv'
<1>1. PICK f : f = [type |-> "snapshot", tick |-> snap[c]]
  OBVIOUS
<1>2. /\ link[c] = "resumed" /\ replay[c] = 0
      /\ wire' = [wire EXCEPT ![c] = Append(@, f)]
      /\ link' = [link EXCEPT ![c] = "sent"]
      /\ UNCHANGED <<tick, fan, task, conn, snap, replay, view, since>>
  BY <1>1 DEF SendSnapshot
<1>3. conn'[c] >= 1
  BY <1>2 DEF IInv, ConnInv
<1>4. ConnInv' /\ conn' \in [Clients -> 0 .. MaxConns]
      /\ link' \in [Clients -> {"down", "bound", "resumed", "sent", "ready"}]
  BY <1>2, <1>3, HandshakeFrame
<1>5. f \in Frame /\ f.type = "snapshot" /\ f.tick = snap[c]
  BY <1>1 DEF IInv, TypeOK, Frame
<1>6. link'[c] = "sent" /\ \A d \in Clients \ {c} : link'[d] = link[d]
  BY <1>2 DEF IInv, TypeOK
<1>7. /\ wire' \in [Clients -> Seq(Frame)]
      /\ \A d \in Clients \ {c} : wire'[d] = wire[d]
      /\ wire[c] \in Seq(Frame) /\ Len(wire[c]) \in Nat /\ Len(wire'[c]) = Len(wire[c]) + 1
      /\ wire'[c][Len(wire[c]) + 1] = f
      /\ \A i \in 1 .. Len(wire[c]) : wire'[c][i] = wire[c][i]
      /\ TickInv' /\ DeliveryInv'
  <2>1. Readied' = Readied /\ f.type # "transition" /\ link[c] # "ready"
    BY <1>2, <1>5, <1>6 DEF Readied
  <2> QED BY <1>2, <1>5, <2>1, Written
<1>8. CatchupOf(c) /\ InOrder(c) /\ tick \in Nat
  BY Types DEF IInv, OrderInv, CatchupInv
<1>9. /\ \A i \in 1 .. Len(wire[c]) : wire[c][i].type = "catchup" /\ i = 1
      /\ Len(wire[c]) \in {0, 1}
  <2>1. \A i \in 1 .. Len(wire[c]) : wire[c][i].type = "catchup" /\ i = 1
    BY <1>2, <1>8 DEF InOrder
  <2>2. PICK n \in Nat : n = Len(wire[c])
    BY <1>7
  <2>3. ASSUME n > 1 PROVE FALSE
    <3>1. 2 \in 1 .. n
      BY <2>3
    <3>2. 2 = 1
      BY <2>1, <2>2, <3>1
    <3> QED BY <3>2
  <2>4. n \in {0, 1}
    BY <2>3
  <2> QED BY <2>1, <2>2, <2>4
<1>10. TypeOK'
  BY <1>2, <1>4, <1>7 DEF IInv, TypeOK
<1>11. CatchupOf(c)'
  <2>1. ASSUME NEW i \in 1 .. Len(wire'[c]), wire'[c][i].type = "catchup"
        PROVE  i = 1 /\ Len(wire[c]) = 1 /\ wire'[c][i] = wire[c][i]
    BY <1>5, <1>7, <1>9, <2>1
  <2>2. Len(wire[c]) = 1 => Len(wire'[c]) > 1
    BY <1>7
  <2>3. wire'[c] # <<>> => 1 \in 1 .. Len(wire'[c])
    BY <1>7
  <2> QED BY <1>2, <1>6, <1>7, <1>8, <2>1, <2>2, <2>3 DEF CatchupOf
<1>12. InOrder(c)'
  <2>1. CASE Len(wire[c]) = 0
    <3>1. Len(wire'[c]) = 1 /\ wire'[c][1] = f
      BY <1>7, <2>1
    <3> QED BY <1>5, <1>6, <3>1 DEF InOrder
  <2>2. CASE Len(wire[c]) = 1
    <3>1. /\ Len(wire'[c]) = 2 /\ wire'[c][2] = f /\ wire'[c][1] = wire[c][1]
          /\ wire[c][1].type = "catchup"
      BY <1>7, <1>9, <2>2
    <3>2. wire[c][1].tick = snap[c]
      BY <1>8, <2>2, <3>1 DEF CatchupOf
    <3>3. \A i \in 1 .. 2 : i = 1 \/ i = 2
      OBVIOUS
    <3> QED BY <1>1, <1>5, <1>6, <3>1, <3>2, <3>3 DEF InOrder
  <2> QED BY <1>9, <2>1, <2>2
<1>13. OrderInv' /\ CatchupInv'
  <2>1. ASSUME NEW d \in Clients, d # c PROVE CatchupOf(d)' /\ InOrder(d)'
    <3>1. CatchupOf(d) /\ InOrder(d)
      BY DEF IInv, OrderInv, CatchupInv
    <3> QED BY <1>2, <1>6, <1>7, <1>8, <2>1, <3>1, Untouched
  <2> QED BY <1>11, <1>12, <2>1 DEF OrderInv, CatchupInv
<1>14. ViewInv'
  <2> SUFFICES ASSUME NEW d \in Clients, link'[d] \in {"sent", "ready"}
               PROVE  view'[d].held \/ \E i \in 1 .. Len(wire'[d]) : wire'[d][i].type = "snapshot"
    BY <1>2 DEF IInv, ViewInv
  <2>1. CASE d = c
    <3>1. Len(wire[c]) + 1 \in 1 .. Len(wire'[c])
      BY <1>7
    <3> QED BY <1>5, <1>7, <2>1, <3>1
  <2>2. CASE d # c
    BY <1>2, <1>6, <1>7, <2>2 DEF IInv, ViewInv
  <2> QED BY <2>1, <2>2
<1> QED BY <1>4, <1>7, <1>10, <1>13, <1>14 DEF IInv

\* A connection that becomes ready has nothing to wait for yet: all it is owed
\* commits after this step.
LEMMA MarkReadyStep == ASSUME IInv, NEW c \in Clients, MarkReady(c) PROVE IInv'
<1>1. /\ link[c] = "sent"
      /\ link' = [link EXCEPT ![c] = "ready"]
      /\ since' = [since EXCEPT ![c] = tick]
      /\ UNCHANGED <<tick, fan, task, conn, snap, replay, wire, view>>
  BY DEF MarkReady
<1>2. conn'[c] >= 1
  BY <1>1 DEF IInv, ConnInv
<1>3. ConnInv' /\ conn' \in [Clients -> 0 .. MaxConns]
      /\ link' \in [Clients -> {"down", "bound", "resumed", "sent", "ready"}]
  BY <1>1, <1>2, HandshakeFrame
<1>4. TypeOK'
  BY <1>1, <1>3 DEF IInv, TypeOK
<1>5. TickInv'
  BY <1>1 DEF IInv, TickInv, Busy
<1>6. \A d \in Clients : link'[d] \in {"sent", "ready"} <=> link[d] \in {"sent", "ready"}
  BY <1>1 DEF IInv, TypeOK
<1>7. OrderInv' /\ CatchupInv' /\ ViewInv'
  <2>1. ASSUME NEW d \in Clients PROVE CatchupOf(d)' /\ InOrder(d)'
    <3>1. CatchupOf(d) /\ InOrder(d) /\ tick \in Nat /\ snap[d] \in 0 .. tick
      BY Types DEF IInv, OrderInv, CatchupInv, CatchupOf
    <3>2. CASE d = c
      <4>1. link'[d] = "ready" /\ link[d] = "sent" /\ since'[d] = tick
        BY <1>1, <3>2 DEF IInv, TypeOK
      <4>2. InOrder(d)'
        BY <1>1, <3>1, <4>1 DEF InOrder
      <4>3. CatchupOf(d)'
        BY <1>1, <3>1, <4>1 DEF CatchupOf
      <4> QED BY <4>2, <4>3
    <3>3. CASE d # c
      <4>1. link'[d] = link[d] /\ since'[d] = since[d]
        BY <1>1, <3>3 DEF IInv, TypeOK
      <4> QED BY <1>1, <3>1, <4>1, Untouched
    <3> QED BY <3>2, <3>3
  <2>2. ViewInv'
    BY <1>1, <1>6 DEF IInv, ViewInv
  <2> QED BY <2>1, <2>2 DEF OrderInv, CatchupInv
<1>8. DeliveryInv'
  <2> SUFFICES ASSUME NEW d \in Readied', NEW t \in since'[d] + 1 .. tick
               PROVE  /\ Folded(d, t)' \/ Coming(d, t)'
                      /\ t \in view'[d].applied => Folded(d, t)'
    BY <1>1 DEF DeliveryInv
  <2>1. d # c
    <3>1. since'[c] = tick /\ tick \in Nat
      BY <1>1, Types DEF IInv, TypeOK
    <3> QED BY <3>1
  <2>2. d \in Readied /\ since'[d] = since[d]
    BY <1>1, <2>1 DEF IInv, TypeOK, Readied
  <2> QED BY <1>1, <2>2 DEF IInv, DeliveryInv, Folded, Coming
<1> QED BY <1>3, <1>4, <1>5, <1>7, <1>8 DEF IInv

\* A connection that drops loses what is on the wire, and is owed nothing.
LEMMA DropStep == ASSUME IInv, NEW c \in Clients, Drop(c) PROVE IInv'
<1>1. /\ link[c] # "down"
      /\ link' = [link EXCEPT ![c] = "down"]
      /\ replay' = [replay EXCEPT ![c] = 0]
      /\ wire' = [wire EXCEPT ![c] = <<>>]
      /\ UNCHANGED <<tick, fan, task, conn, snap, view, since>>
  BY DEF Drop
<1>2. ConnInv' /\ conn' \in [Clients -> 0 .. MaxConns]
      /\ link' \in [Clients -> {"down", "bound", "resumed", "sent", "ready"}]
  BY <1>1, HandshakeFrame
<1>3. /\ wire'[c] = <<>> /\ link'[c] = "down" /\ replay'[c] = 0
      /\ \A d \in Clients \ {c} :
            wire'[d] = wire[d] /\ link'[d] = link[d] /\ replay'[d] = replay[d]
  BY <1>1 DEF IInv, TypeOK
<1>4. TypeOK'
  <2>1. <<>> \in Seq(Frame) /\ wire \in [Clients -> Seq(Frame)]
    BY DEF IInv, TypeOK
  <2>2. wire' \in [Clients -> Seq(Frame)]
    BY <1>1, <2>1
  <2>3. replay' \in [Clients -> 0 .. MaxTick]
    BY <1>1, BoundsAssumption DEF IInv, TypeOK
  <2> QED BY <1>1, <1>2, <2>2, <2>3 DEF IInv, TypeOK
<1>5. Len(<<>>) = 0
  OBVIOUS
<1>6. TickInv'
  <2>1. \A d \in Clients : \A i \in 1 .. Len(wire'[d]) :
           wire'[d][i].type = "transition" => /\ wire'[d][i].tick \in 1 .. tick
                                              /\ wire'[d][i].from = wire'[d][i].tick
    <3> TAKE d \in Clients
    <3>1. CASE d = c
      BY <1>3, <1>5, <3>1
    <3>2. CASE d # c
      BY <1>3, <3>2 DEF IInv, TickInv
    <3> QED BY <3>1, <3>2
  <2> QED BY <1>1, <2>1 DEF IInv, TickInv, Busy
<1>7. OrderInv' /\ CatchupInv'
  <2>1. ASSUME NEW d \in Clients PROVE CatchupOf(d)' /\ InOrder(d)'
    <3>1. CatchupOf(d) /\ InOrder(d) /\ tick \in Nat
      BY Types DEF IInv, OrderInv, CatchupInv
    <3>2. CASE d = c
      <4>1. InOrder(d)'
        BY <1>3, <1>5, <3>2 DEF InOrder
      <4>2. snap[d] \in 0 .. tick /\ 0 \in 0 .. snap[d]
        BY <3>1 DEF CatchupOf
      <4>3. CatchupOf(d)'
        BY <1>1, <1>3, <1>5, <3>2, <4>2 DEF CatchupOf
      <4> QED BY <4>1, <4>3
    <3>3. CASE d # c
      BY <1>1, <1>3, <3>1, <3>3, Untouched
    <3> QED BY <3>2, <3>3
  <2> QED BY <2>1 DEF OrderInv, CatchupInv
<1>8. ViewInv'
  BY <1>1, <1>3 DEF IInv, ViewInv
<1>9. \A d \in Readied' : d \in Readied /\ wire'[d] = wire[d]
  BY <1>3 DEF Readied
<1>10. DeliveryInv'
  BY <1>1, <1>9 DEF IInv, DeliveryInv, Folded, Coming
<1> QED BY <1>2, <1>4, <1>6, <1>7, <1>8, <1>10 DEF IInv

-----------------------------------------------------------------------------
(* Commit, publish, acknowledge. *)

\* A commit is on its way to everybody.
LEMMA CommitStep ==
    ASSUME IInv, NEW w \in Writers, Commit(w), w \in Connections => Established(w) PROVE IInv'
<1> DEFINE n == [stage |-> "publish", tick |-> tick + 1, to |-> {}]
<1>1. /\ tick < MaxTick /\ task[w] = Idle
      /\ tick' = tick + 1
      /\ task' = [task EXCEPT ![w] = n]
      /\ UNCHANGED <<fan, conn, link, snap, replay, wire, view, since>>
  BY DEF Commit
<1>2. tick \in Nat /\ MaxTick \in Nat /\ task \in [Writers -> Tasks]
  BY Types DEF IInv
<1>3. tick' \in 0 .. MaxTick
  BY <1>1, <1>2
<1>4. n \in Tasks /\ n.stage = "publish" /\ n.tick = tick + 1 /\ n.to = {}
  BY <1>1, <1>3 DEF Tasks
<1> HIDE DEF n
<1>5. /\ task'[w] = n /\ \A x \in Writers \ {w} : task'[x] = task[x]
      /\ task' \in [Writers -> Tasks]
  BY <1>1, <1>2, <1>4
<1>6. TypeOK'
  BY <1>1, <1>3, <1>5 DEF IInv, TypeOK, Tasks
<1>7. \A r : Established(r)' <=> Established(r)
  BY <1>1 DEF Established
<1>8. ConnInv'
  <2>1. Connections \subseteq Writers
    BY DEF Writers
  <2>2. \A x \in Connections : Busy(x)' => Established(x)
    BY <1>5, <2>1 DEF IInv, ConnInv, Busy
  <2>3. \A x \in Writers : task'[x].stage = "ack" => x \in Connections
    BY <1>4, <1>5 DEF IInv, ConnInv
  <2>4. \A x \in Writers : task'[x].stage = "send" => \A r \in task'[x].to : Established(r)
    BY <1>4, <1>5 DEF IInv, ConnInv
  <2> QED BY <1>1, <1>7, <2>2, <2>3, <2>4 DEF IInv, ConnInv
<1>9. TickInv'
  <2>1. 1 .. tick \subseteq 1 .. tick' /\ tick + 1 \in 1 .. tick'
    BY <1>1, <1>2
  <2>2. \A x \in Writers : Busy(x)' => task'[x].tick \in 1 .. tick'
    <3> TAKE x \in Writers
    <3>1. CASE x = w
      BY <1>4, <1>5, <2>1, <3>1
    <3>2. CASE x # w
      BY <1>5, <2>1, <3>2 DEF IInv, TickInv, Busy
    <3> QED BY <3>1, <3>2
  <2>3. \A c \in Clients : \A i \in 1 .. Len(wire'[c]) :
          wire'[c][i].type = "transition" => /\ wire'[c][i].tick \in 1 .. tick'
                                             /\ wire'[c][i].from = wire'[c][i].tick
    BY <1>1, <2>1 DEF IInv, TickInv
  <2>4. \A c \in Clients : view'[c].applied \subseteq 1 .. tick'
    BY <1>1, <2>1 DEF IInv, TickInv
  <2> QED BY <2>2, <2>3, <2>4 DEF TickInv
<1>10. OrderInv' /\ CatchupInv' /\ ViewInv'
  BY <1>1, <1>2, WiresKept
<1>11. DeliveryInv'
  <2> SUFFICES ASSUME NEW c \in Readied', NEW t \in since'[c] + 1 .. tick'
               PROVE  /\ Folded(c, t)' \/ Coming(c, t)'
                      /\ t \in view'[c].applied => Folded(c, t)'
    BY DEF DeliveryInv
  <2>1. c \in Readied /\ c \in Clients /\ since'[c] = since[c] /\ since[c] \in Int
    BY <1>1 DEF Readied, IInv, TypeOK
  <2>2. CASE t = tick + 1
    <3>1. Coming(c, t)'
      BY <1>4, <1>5, <2>2 DEF Coming
    <3>2. t \notin view'[c].applied
      <4>1. view[c].applied \subseteq 1 .. tick
        BY <2>1 DEF IInv, TickInv
      <4> QED BY <1>1, <1>2, <2>2, <4>1
    <3> QED BY <3>1, <3>2
  <2>3. CASE t # tick + 1
    <3>1. t \in since[c] + 1 .. tick
      BY <1>1, <1>2, <2>1, <2>3
    <3>2. Folded(c, t) \/ Coming(c, t)
      BY <2>1, <3>1 DEF IInv, DeliveryInv
    <3>3. t \in view[c].applied => Folded(c, t)
      BY <2>1, <3>1 DEF IInv, DeliveryInv
    <3>4. Folded(c, t)' <=> Folded(c, t)
      BY <1>1 DEF Folded
    <3>5. Coming(c, t) => Coming(c, t)'
      <4>1. Idle.stage = "idle"
        BY DEF Idle
      <4> QED BY <1>1, <1>5, <4>1 DEF Coming
    <3> QED BY <1>1, <3>2, <3>3, <3>4, <3>5
  <2> QED BY <2>2, <2>3
<1> QED BY <1>6, <1>8, <1>9, <1>10, <1>11 DEF IInv

\* ApplyAction runs on a connection that finished its handshake, claimSeat on
\* a goroutine of its own.
LEMMA ActStep == ASSUME IInv, NEW c \in Clients, Act(c) PROVE IInv'
<1>1. link[c] = "ready" /\ Commit(<<c, conn[c]>>)
  BY DEF Act
<1>2. <<c, conn[c]>> \in Connections
  BY <1>1, Types DEF IInv, TypeOK, ConnInv, Connections
<1>3. Established(<<c, conn[c]>>)
  BY <1>1 DEF Established
<1> QED BY <1>1, <1>2, <1>3, CommitStep DEF Writers

\* The same for a seat claim.
LEMMA JoinStep == ASSUME IInv, NEW j \in Joiners, Join(j) PROVE IInv'
<1>1. <<j, 0>> \in Writers /\ <<j, 0>> \notin Connections
  BY Types DEF IInv, Writers, Connections
<1> QED BY <1>1, CommitStep DEF Join

\* A writer's task changes its stage and recipients, never its tick.
LEMMA TaskFrame ==
    ASSUME IInv, NEW w \in Writers, NEW n \in Tasks, task' = [task EXCEPT ![w] = n],
           UNCHANGED <<tick, conn, link, view, since>>
    PROVE  /\ task' \in [Writers -> Tasks] /\ task'[w] = n
           /\ \A x \in Writers \ {w} : task'[x] = task[x]
           /\ \A r : Established(r)' <=> Established(r)
           /\ \A c, t : Folded(c, t)' <=> Folded(c, t)
           /\ Readied' = Readied
BY Types DEF IInv, Established, Folded, Readied

\* Broadcast collects every connection that is ready.
LEMMA CollectStep == ASSUME IInv, NEW w \in Writers, Collect(w) PROVE IInv'
<1> DEFINE to == {<<c, conn[c]>> : c \in Readied}
           n == [task[w] EXCEPT !.stage = "send", !.to = to]
<1>1. /\ task[w].stage = "publish"
      /\ fan' = w
      /\ task' = [task EXCEPT ![w] = n]
      /\ UNCHANGED <<tick, conn, link, snap, replay, wire, view, since>>
  BY Types DEF Collect, IInv, Tasks
<1>2. task[w] \in Tasks
  BY Types DEF IInv
<1>3. to \subseteq Connections
  BY Types DEF IInv, TypeOK, ConnInv, Readied, Connections
<1>4. \A r \in to : Established(r)
  BY DEF Established, Readied
<1>5. \A c \in Readied : <<c, conn[c]>> \in to
  OBVIOUS
<1> HIDE DEF to
<1>6. n \in Tasks /\ n.stage = "send" /\ n.to = to /\ n.tick = task[w].tick
  BY <1>2, <1>3 DEF Tasks
<1> HIDE DEF n
<1>7. /\ task' \in [Writers -> Tasks] /\ task'[w] = n
      /\ \A x \in Writers \ {w} : task'[x] = task[x]
      /\ \A r : Established(r)' <=> Established(r)
      /\ \A c, t : Folded(c, t)' <=> Folded(c, t)
      /\ Readied' = Readied
  BY <1>1, <1>6, TaskFrame
<1>8. TypeOK'
  BY <1>1, <1>7 DEF IInv, TypeOK, Tasks
<1>9. ConnInv'
  <2>1. \A x \in Connections : Busy(x)' => Established(x)
    BY <1>1, <1>7 DEF IInv, ConnInv, Busy, Writers
  <2>2. \A x \in Writers : task'[x].stage = "ack" => x \in Connections
    BY <1>6, <1>7 DEF IInv, ConnInv
  <2>3. \A x \in Writers : task'[x].stage = "send" => \A r \in task'[x].to : Established(r)
    BY <1>4, <1>6, <1>7 DEF IInv, ConnInv
  <2> QED BY <1>1, <1>7, <2>1, <2>2, <2>3 DEF IInv, ConnInv
<1>10. TickInv'
  <2>1. \A x \in Writers : Busy(x)' => task'[x].tick \in 1 .. tick'
    BY <1>1, <1>6, <1>7 DEF IInv, TickInv, Busy
  <2> QED BY <1>1, <2>1 DEF IInv, TickInv
<1>11. OrderInv' /\ CatchupInv' /\ ViewInv'
  BY <1>1, Types, WiresKept DEF IInv
<1>12. DeliveryInv'
  <2>1. ASSUME NEW c \in Readied, NEW t, Coming(c, t) PROVE Coming(c, t)'
    <3>1. CASE \E i \in 1 .. Len(wire[c]) : wire[c][i].type = "transition" /\ wire[c][i].tick = t
      BY <1>1, <3>1 DEF Coming
    <3>2. CASE task[w].tick = t
      <4>1. task'[w].stage = "send" /\ task'[w].tick = t /\ <<c, conn'[c]>> \in task'[w].to
        BY <1>1, <1>5, <1>6, <1>7, <3>2
      <4> QED BY <4>1 DEF Coming
    <3>3. CASE \E x \in Writers \ {w} : /\ task[x].tick = t
                                       /\ \/ task[x].stage = "publish"
                                          \/ task[x].stage = "send" /\ <<c, conn[c]>> \in task[x].to
      BY <1>1, <1>7, <3>3 DEF Coming
    <3> QED BY <2>1, <3>1, <3>2, <3>3 DEF Coming
  <2> QED BY <1>1, <1>7, <2>1 DEF IInv, DeliveryInv
<1> QED BY <1>8, <1>9, <1>10, <1>11, <1>12 DEF IInv

\* A write reaches an established connection that is still there, behind
\* everything written to it before.
LEMMA Delivered ==
    ASSUME IInv, NEW r \in Connections, Established(r), NEW f \in Frame, f.type # "snapshot",
           f.type # "catchup",
           f.type = "transition" => f.tick \in 1 .. tick /\ f.from = f.tick,
           Deliver(r[1], r[2], f), UNCHANGED <<tick, link, snap, replay, view, since>>
    PROVE  /\ wire' \in [Clients -> Seq(Frame)]
           /\ \A d \in Clients : \A i \in 1 .. Len(wire[d]) :
                 i \in 1 .. Len(wire'[d]) /\ wire'[d][i] = wire[d][i]
           /\ \A d \in Clients : \A i \in 1 .. Len(wire'[d]) :
                 wire'[d][i].type = "transition" => /\ wire'[d][i].tick \in 1 .. tick
                                                    /\ wire'[d][i].from = wire'[d][i].tick
           /\ conn[r[1]] = r[2] /\ link[r[1]] # "down" =>
                 \E i \in 1 .. Len(wire'[r[1]]) : wire'[r[1]][i] = f
           /\ OrderInv' /\ CatchupInv' /\ ViewInv'
<1> DEFINE c == r[1]
<1>1. c \in Clients /\ \A d \in Clients : wire[d] \in Seq(Frame) /\ conn[c] \in Nat /\ r[2] \in Nat
  BY Types DEF IInv
<1>2. wire \in [Clients -> Seq(Frame)]
  BY DEF IInv, TypeOK
<1>3. CASE conn[c] = r[2] /\ link[c] # "down"
  <2>1. link[c] = "ready"
    BY <1>1, <1>3 DEF Established
  <2>2. wire' = [wire EXCEPT ![c] = Append(@, f)]
    BY <1>3 DEF Deliver
  <2>3. wire'[c] = Append(wire[c], f) /\ \A d \in Clients \ {c} : wire'[d] = wire[d]
    BY <1>1, <1>2, <2>2
  <2>4. wire' \in [Clients -> Seq(Frame)]
    BY <1>1, <1>2, <2>2
  <2>5. /\ Len(wire[c]) \in Nat /\ Len(wire'[c]) = Len(wire[c]) + 1
        /\ wire'[c][Len(wire[c]) + 1] = f /\ wire'[c] # <<>>
        /\ \A i \in 1 .. Len(wire[c]) : wire'[c][i] = wire[c][i]
    BY <1>1, <2>3
  <2>6. ASSUME NEW i \in 1 .. Len(wire'[c])
        PROVE  i \in 1 .. Len(wire[c]) \/ (i = Len(wire[c]) + 1 /\ wire'[c][i] = f)
    BY <2>5
  <2>7. ASSUME NEW d \in Clients, NEW i \in 1 .. Len(wire[d])
        PROVE  i \in 1 .. Len(wire'[d]) /\ wire'[d][i] = wire[d][i]
    BY <2>3, <2>5
  <2>8. ASSUME NEW d \in Clients, NEW i \in 1 .. Len(wire'[d]), wire'[d][i].type = "transition"
        PROVE  wire'[d][i].tick \in 1 .. tick /\ wire'[d][i].from = wire'[d][i].tick
    <3>1. CASE d = c
      BY <2>5, <2>6, <2>8, <3>1 DEF IInv, TickInv
    <3>2. CASE d # c
      BY <2>3, <2>8, <3>2 DEF IInv, TickInv
    <3> QED BY <3>1, <3>2
  <2>9. OrderInv' /\ CatchupInv'
    <3> SUFFICES ASSUME NEW d \in Clients PROVE CatchupOf(d)' /\ InOrder(d)'
      BY DEF OrderInv, CatchupInv
    <3>1. CatchupOf(d) /\ InOrder(d) /\ tick \in Nat
      BY Types DEF IInv, OrderInv, CatchupInv
    <3>2. CASE d = c
      <4>1. ASSUME NEW i \in 1 .. Len(wire'[c]), wire'[c][i].type = "catchup"
            PROVE  i \in 1 .. Len(wire[c]) /\ wire'[c][i] = wire[c][i]
        BY <2>5, <2>6, <4>1
      <4>2. ASSUME NEW i \in 1 .. Len(wire'[c]), wire'[c][i].type = "snapshot"
            PROVE  i \in 1 .. Len(wire[c]) /\ wire'[c][i] = wire[c][i]
        BY <2>5, <2>6, <4>2
      <4>3. CatchupOf(c)'
        <5>1. wire'[c][1].type = "catchup" => Len(wire'[c]) > 1
          <6>1. 1 \in 1 .. Len(wire'[c])
            BY <2>5
          <6>2. ASSUME wire'[c][1].type = "catchup" PROVE 1 \in 1 .. Len(wire[c])
            BY <4>1, <6>1, <6>2
          <6> QED BY <2>5, <6>2
        <5> QED BY <2>1, <2>5, <3>1, <3>2, <4>1, <5>1 DEF CatchupOf
      <4>4. InOrder(c)'
        <5>1. ASSUME NEW i \in 1 .. Len(wire'[c]), wire'[c][i].type = "snapshot", NEW j \in 1 .. i - 1
              PROVE  wire'[c][j].type = "catchup"
          <6>1. wire[c][i].type = "snapshot" /\ i \in 1 .. Len(wire[c])
            BY <4>2, <5>1
          <6>2. wire[c][j].type = "catchup" /\ j \in 1 .. Len(wire[c])
            BY <2>5, <3>1, <3>2, <5>1, <6>1 DEF InOrder
          <6> QED BY <2>5, <6>2
        <5>2. ASSUME NEW i \in 1 .. Len(wire'[c]), wire'[c][i].type = "catchup"
              PROVE  /\ i = 1
                     /\ wire'[c][2] = [type |-> "snapshot", tick |-> wire'[c][1].tick]
          <6>1. wire[c][i].type = "catchup" /\ i \in 1 .. Len(wire[c]) /\ wire[c] # <<>>
            BY <1>1, <4>1, <5>2
          <6>2. i = 1
            BY <3>1, <3>2, <6>1 DEF InOrder
          <6>3. Len(wire[c]) > 1
            BY <2>1, <3>1, <3>2, <6>1, <6>2 DEF CatchupOf
          <6>4. wire[c][2] = [type |-> "snapshot", tick |-> wire[c][1].tick]
            BY <3>1, <3>2, <6>1, <6>2, <6>3 DEF InOrder
          <6>5. wire'[c][2] = wire[c][2] /\ wire'[c][1] = wire[c][1]
            BY <2>5, <6>3
          <6> QED BY <6>2, <6>4, <6>5
        <5> QED BY <2>1, <5>1, <5>2 DEF InOrder
      <4> QED BY <3>2, <4>3, <4>4
    <3>3. CASE d # c
      BY <2>3, <3>1, <3>3, Untouched
    <3> QED BY <3>2, <3>3
  <2>10. ViewInv'
    BY <2>7 DEF IInv, ViewInv
  <2>11. Len(wire[c]) + 1 \in 1 .. Len(wire'[c])
    BY <2>5
  <2> QED BY <2>4, <2>5, <2>7, <2>8, <2>9, <2>10, <2>11
<1>4. CASE ~(conn[c] = r[2] /\ link[c] # "down")
  <2>1. wire' = wire
    BY <1>4 DEF Deliver
  <2>2. OrderInv' /\ CatchupInv' /\ ViewInv'
    BY <2>1, Types, WiresKept DEF IInv
  <2>3. \A d \in Clients : \A i \in 1 .. Len(wire'[d]) :
           wire'[d][i].type = "transition" => /\ wire'[d][i].tick \in 1 .. tick
                                              /\ wire'[d][i].from = wire'[d][i].tick
    BY <2>1 DEF IInv, TickInv
  <2> QED BY <1>2, <1>4, <2>1, <2>2, <2>3
<1> QED BY <1>3, <1>4

\* One write of the fan-out takes the transition from the publication to the wire.
LEMMA SendStep == ASSUME IInv, NEW w \in Writers, Send(w) PROVE IInv'
<1>1. PICK f : f = Transition(task[w].tick)
  OBVIOUS
<1>2. PICK r \in task[w].to :
         /\ task' = [task EXCEPT ![w].to = @ \ {r}]
         /\ Deliver(r[1], r[2], f)
  BY <1>1 DEF Send
<1>3. task[w].stage = "send" /\ UNCHANGED <<tick, fan, conn, link, snap, replay, view, since>>
  BY DEF Send
<1>4. task[w] \in Tasks /\ task \in [Writers -> Tasks]
  BY Types DEF IInv
<1>5. r \in Connections /\ Established(r)
  BY <1>3, <1>4 DEF IInv, ConnInv, Tasks
<1>6. task[w].tick \in 1 .. tick
  BY <1>3 DEF IInv, TickInv, Busy
<1>7. f \in Frame /\ f.type = "transition" /\ f.tick = task[w].tick /\ f.from = f.tick
  <2>1. task[w].tick \in Ticks
    BY <1>4, <1>6, BoundsAssumption DEF IInv, TypeOK, Ticks
  <2> QED BY <1>1, <2>1 DEF Frame, Transition
<1>8. /\ wire' \in [Clients -> Seq(Frame)]
      /\ \A d \in Clients : \A i \in 1 .. Len(wire[d]) :
            i \in 1 .. Len(wire'[d]) /\ wire'[d][i] = wire[d][i]
      /\ \A d \in Clients : \A i \in 1 .. Len(wire'[d]) :
            wire'[d][i].type = "transition" => /\ wire'[d][i].tick \in 1 .. tick
                                               /\ wire'[d][i].from = wire'[d][i].tick
      /\ conn[r[1]] = r[2] /\ link[r[1]] # "down" =>
            \E i \in 1 .. Len(wire'[r[1]]) : wire'[r[1]][i] = f
      /\ OrderInv' /\ CatchupInv' /\ ViewInv'
  BY <1>2, <1>3, <1>5, <1>6, <1>7, Delivered
<1> DEFINE n == [task[w] EXCEPT !.to = @ \ {r}]
<1>9. task' = [task EXCEPT ![w] = n]
  BY <1>2, <1>4
<1>10. n \in Tasks /\ n.stage = "send" /\ n.tick = task[w].tick /\ n.to = task[w].to \ {r}
  BY <1>3, <1>4 DEF Tasks
<1> HIDE DEF n
<1>11. /\ task' \in [Writers -> Tasks] /\ task'[w] = n
       /\ \A x \in Writers \ {w} : task'[x] = task[x]
       /\ \A s : Established(s)' <=> Established(s)
       /\ \A c, t : Folded(c, t)' <=> Folded(c, t)
       /\ Readied' = Readied
  BY <1>3, <1>9, <1>10, TaskFrame
<1>12. TypeOK'
  BY <1>3, <1>8, <1>11 DEF IInv, TypeOK, Tasks
<1>13. ConnInv'
  <2>1. \A x \in Connections : Busy(x)' => Established(x)
    BY <1>3, <1>10, <1>11 DEF IInv, ConnInv, Busy, Writers
  <2>2. \A x \in Writers : task'[x].stage = "ack" => x \in Connections
    BY <1>10, <1>11 DEF IInv, ConnInv
  <2>3. \A x \in Writers : task'[x].stage = "send" => \A s \in task'[x].to : Established(s)
    BY <1>3, <1>10, <1>11 DEF IInv, ConnInv
  <2> QED BY <1>3, <1>11, <2>1, <2>2, <2>3 DEF IInv, ConnInv
<1>14. TickInv'
  <2>1. \A x \in Writers : Busy(x)' => task'[x].tick \in 1 .. tick'
    BY <1>3, <1>6, <1>10, <1>11 DEF IInv, TickInv, Busy
  <2> QED BY <1>3, <1>8, <2>1 DEF IInv, TickInv
<1>15. DeliveryInv'
  <2>1. ASSUME NEW c \in Readied, NEW t, Coming(c, t) PROVE Coming(c, t)'
    <3>0. c \in Clients /\ link[c] = "ready"
      BY DEF Readied
    <3>1. CASE \E i \in 1 .. Len(wire[c]) : wire[c][i].type = "transition" /\ wire[c][i].tick = t
      BY <1>8, <3>0, <3>1 DEF Coming
    <3>2. CASE task[w].tick = t /\ <<c, conn[c]>> = r
      <4>1. r[1] = c /\ r[2] = conn[c]
        BY <3>2
      <4>2. \E i \in 1 .. Len(wire'[c]) : wire'[c][i] = f
        BY <1>8, <3>0, <4>1
      <4> QED BY <1>7, <3>2, <4>2 DEF Coming
    <3>3. CASE task[w].tick = t /\ <<c, conn[c]>> \in task[w].to \ {r}
      <4>1. task'[w].stage = "send" /\ task'[w].tick = t /\ <<c, conn'[c]>> \in task'[w].to
        BY <1>3, <1>10, <1>11, <3>3
      <4> QED BY <4>1 DEF Coming
    <3>4. CASE \E x \in Writers \ {w} : /\ task[x].tick = t
                                       /\ \/ task[x].stage = "publish"
                                          \/ task[x].stage = "send" /\ <<c, conn[c]>> \in task[x].to
      BY <1>3, <1>11, <3>4 DEF Coming
    <3> QED BY <1>3, <2>1, <3>1, <3>2, <3>3, <3>4 DEF Coming
  <2> QED BY <1>3, <1>11, <2>1 DEF IInv, DeliveryInv
<1> QED BY <1>8, <1>12, <1>13, <1>14, <1>15 DEF IInv

\* The lock is released when everybody was written to.
LEMMA ReleaseStep == ASSUME IInv, NEW w \in Writers, Release(w) PROVE IInv'
<1> DEFINE st == IF w \in Connections THEN "ack" ELSE "done"
           n == [task[w] EXCEPT !.stage = st]
<1>1. /\ task[w].stage = "send" /\ task[w].to = {}
      /\ fan' = Nobody
      /\ task' = [task EXCEPT ![w] = n]
      /\ UNCHANGED <<tick, conn, link, snap, replay, wire, view, since>>
  BY Types DEF Release, IInv, Tasks
<1>2. task[w] \in Tasks
  BY Types DEF IInv
<1>3. n \in Tasks /\ n.stage = st /\ n.to = {} /\ n.tick = task[w].tick
  BY <1>1, <1>2 DEF Tasks
<1> HIDE DEF n
<1>4. /\ task' \in [Writers -> Tasks] /\ task'[w] = n
      /\ \A x \in Writers \ {w} : task'[x] = task[x]
      /\ \A r : Established(r)' <=> Established(r)
      /\ \A c, t : Folded(c, t)' <=> Folded(c, t)
      /\ Readied' = Readied
  BY <1>1, <1>3, TaskFrame
<1>5. TypeOK'
  BY <1>1, <1>4 DEF IInv, TypeOK, Tasks
<1>6. ConnInv'
  <2>1. \A x \in Connections : Busy(x)' => Established(x)
    BY <1>1, <1>4 DEF IInv, ConnInv, Busy, Writers
  <2>2. \A x \in Writers : task'[x].stage = "ack" => x \in Connections
    BY <1>3, <1>4 DEF IInv, ConnInv
  <2>3. \A x \in Writers : task'[x].stage = "send" => \A r \in task'[x].to : Established(r)
    BY <1>3, <1>4 DEF IInv, ConnInv
  <2> QED BY <1>1, <1>4, <2>1, <2>2, <2>3 DEF IInv, ConnInv
<1>7. TickInv'
  <2>1. \A x \in Writers : Busy(x)' => task'[x].tick \in 1 .. tick'
    BY <1>1, <1>3, <1>4 DEF IInv, TickInv, Busy
  <2> QED BY <1>1, <2>1 DEF IInv, TickInv
<1>8. OrderInv' /\ CatchupInv' /\ ViewInv'
  BY <1>1, Types, WiresKept DEF IInv
<1>9. \A c, t : Coming(c, t) => Coming(c, t)'
  BY <1>1, <1>4 DEF Coming
<1>10. DeliveryInv'
  BY <1>1, <1>4, <1>9 DEF IInv, DeliveryInv
<1> QED BY <1>5, <1>6, <1>7, <1>8, <1>10 DEF IInv

\* The acknowledgement goes to the connection that acted.
LEMMA AckStep == ASSUME IInv, NEW w \in Writers, Ack(w) PROVE IInv'
<1>1. PICK f : f = [type |-> "ack", tick |-> task[w].tick]
  OBVIOUS
<1>2. /\ task[w].stage = "ack"
      /\ Deliver(w[1], w[2], f)
      /\ task' = [task EXCEPT ![w] = Idle]
      /\ UNCHANGED <<tick, fan, conn, link, snap, replay, view, since>>
  BY <1>1 DEF Ack
<1>3. task[w] \in Tasks
  BY Types DEF IInv
<1>4. w \in Connections /\ Established(w)
  BY <1>2 DEF IInv, ConnInv, Busy
<1>5. f \in Frame /\ f.type = "ack"
  BY <1>1, <1>3 DEF Frame, Tasks
<1>6. /\ wire' \in [Clients -> Seq(Frame)]
      /\ \A d \in Clients : \A i \in 1 .. Len(wire[d]) :
            i \in 1 .. Len(wire'[d]) /\ wire'[d][i] = wire[d][i]
      /\ \A d \in Clients : \A i \in 1 .. Len(wire'[d]) :
            wire'[d][i].type = "transition" => /\ wire'[d][i].tick \in 1 .. tick
                                               /\ wire'[d][i].from = wire'[d][i].tick
      /\ OrderInv' /\ CatchupInv' /\ ViewInv'
  BY <1>2, <1>4, <1>5, Delivered
<1>7. Idle \in Tasks /\ Idle.stage = "idle"
  BY BoundsAssumption DEF Idle, Tasks
<1>8. /\ task' \in [Writers -> Tasks] /\ task'[w] = Idle
      /\ \A x \in Writers \ {w} : task'[x] = task[x]
      /\ \A r : Established(r)' <=> Established(r)
      /\ \A c, t : Folded(c, t)' <=> Folded(c, t)
      /\ Readied' = Readied
  BY <1>2, <1>7, TaskFrame
<1>9. TypeOK'
  BY <1>2, <1>6, <1>8 DEF IInv, TypeOK, Tasks
<1>10. ConnInv'
  <2>1. \A x \in Connections : Busy(x)' => Established(x)
    BY <1>7, <1>8 DEF IInv, ConnInv, Busy, Writers
  <2>2. \A x \in Writers : task'[x].stage = "ack" => x \in Connections
    BY <1>7, <1>8 DEF IInv, ConnInv
  <2>3. \A x \in Writers : task'[x].stage = "send" => \A r \in task'[x].to : Established(r)
    BY <1>7, <1>8 DEF IInv, ConnInv
  <2> QED BY <1>2, <1>8, <2>1, <2>2, <2>3 DEF IInv, ConnInv
<1>11. TickInv'
  <2>1. \A x \in Writers : Busy(x)' => task'[x].tick \in 1 .. tick'
    BY <1>2, <1>7, <1>8 DEF IInv, TickInv, Busy
  <2> QED BY <1>2, <1>6, <2>1 DEF IInv, TickInv
<1>12. \A c \in Clients : \A t : Coming(c, t) => Coming(c, t)'
  BY <1>2, <1>6, <1>8 DEF Coming
<1>13. DeliveryInv'
  BY <1>2, <1>8, <1>12 DEF IInv, DeliveryInv, Readied
<1> QED BY <1>6, <1>9, <1>10, <1>11, <1>13 DEF IInv

\* What a client reads is in its view from then on.
LEMMA ReceiveStep == ASSUME IInv, NEW c \in Clients, Receive(c) PROVE IInv'
<1>1. PICK f : f = Head(wire[c])
  OBVIOUS
<1> DEFINE v == view[c]
           batch == f.type \in {"transition", "catchup"}
           nv == IF batch THEN ApplyEvents(v, f.from, f.tick) ELSE ApplySnapshot(v, f.tick)
<1>2. /\ wire[c] # <<>>
      /\ view' = [view EXCEPT ![c] = nv]
      /\ wire' = [wire EXCEPT ![c] = Tail(@)]
      /\ UNCHANGED <<tick, fan, task, conn, link, snap, replay, since>>
  BY <1>1, Types DEF Receive, IInv
<1>3. /\ wire[c] \in Seq(Frame) /\ view \in [Clients -> Views] /\ v \in Views
      /\ wire \in [Clients -> Seq(Frame)]
  BY Types DEF IInv, TypeOK
<1>4. /\ Len(wire[c]) \in Nat /\ 1 \in 1 .. Len(wire[c]) /\ f = wire[c][1] /\ f \in Frame
      /\ Tail(wire[c]) \in Seq(Frame) /\ Len(Tail(wire[c])) = Len(wire[c]) - 1
      /\ \A i \in 1 .. Len(wire[c]) - 1 : Tail(wire[c])[i] = wire[c][i + 1]
  BY <1>1, <1>2, <1>3
<1>5. /\ f.tick \in 0 .. MaxTick
      /\ f.type \in {"transition", "catchup", "snapshot", "ack"}
      /\ f.type = "transition" => f.from = f.tick
      /\ f.type = "catchup" => f.from <= snap[c]
      /\ batch => f.from \in 1 .. tick /\ f.from \in Ticks /\ f.tick \in Ticks /\ f.from <= f.tick
  <2>1. f.type = "transition" => f.tick \in 1 .. tick /\ f.from = f.tick
    BY <1>4 DEF IInv, TickInv
  <2>2. tick \in 0 .. MaxTick /\ MaxTick \in Nat
    BY BoundsAssumption DEF IInv, TypeOK
  <2>3. f.type = "catchup" => f.from \in 1 .. snap[c] /\ f.tick = snap[c] /\ snap[c] \in 0 .. tick
    BY <1>4 DEF IInv, CatchupInv, CatchupOf
  <2>4. f.type \in {"transition", "catchup", "snapshot", "ack"} /\ f.tick \in 0 .. MaxTick
    <3>1. CASE f \in [type : {"snapshot", "ack"}, tick : 0 .. MaxTick]
      BY <3>1
    <3>2. CASE f \in [type : {"transition", "catchup"}, from : Ticks, tick : Ticks]
      BY <2>2, <3>2 DEF Ticks
    <3> QED BY <1>4, <3>1, <3>2 DEF Frame
  <2>5. CASE f.type = "transition"
    BY <2>1, <2>2, <2>4, <2>5 DEF Ticks
  <2>6. CASE f.type = "catchup"
    BY <2>2, <2>3, <2>4, <2>6 DEF Ticks
  <2> QED BY <2>4, <2>5, <2>6
<1>6. v.held \/ v.tick = 0
  BY DEF IInv, ViewInv
<1>7. /\ nv \in Views
      /\ \A u \in Ticks : v.times[u] >= 1 /\ u <= v.tick => nv.times[u] >= 1 /\ u <= nv.tick
      /\ ~batch => nv.held /\ nv.applied = v.applied
      /\ batch =>
            /\ nv.held = v.held /\ nv.applied = v.applied \cup {f.from}
            /\ ~v.held => nv.tick = v.tick
            /\ v.held /\ f.from \notin v.applied => nv.times[f.from] >= 1 /\ f.from <= nv.tick
  <2>1. CASE batch
    BY <1>3, <1>5, <2>1, EventsFacts
  <2>2. CASE ~batch
    BY <1>3, <1>5, <1>6, <2>2, SnapshotFacts
  <2> QED BY <2>1, <2>2
<1> HIDE DEF nv
<1>8. /\ view'[c] = nv /\ \A d \in Clients \ {c} : view'[d] = view[d]
      /\ view' \in [Clients -> Views]
  BY <1>2, <1>3, <1>7
<1>9. /\ wire'[c] = Tail(wire[c]) /\ \A d \in Clients \ {c} : wire'[d] = wire[d]
      /\ wire' \in [Clients -> Seq(Frame)]
  BY <1>2, <1>3, <1>4
<1>10. \A i \in 1 .. Len(wire'[c]) : i + 1 \in 1 .. Len(wire[c]) /\ wire'[c][i] = wire[c][i + 1]
  BY <1>4, <1>9
<1>11. TypeOK'
  BY <1>2, <1>8, <1>9 DEF IInv, TypeOK, Views
<1>12. ConnInv'
  BY <1>2 DEF IInv, ConnInv, Busy, Established
<1>13. TickInv'
  <2>1. \A x \in Writers : Busy(x)' => task'[x].tick \in 1 .. tick'
    BY <1>2 DEF IInv, TickInv, Busy
  <2>2. ASSUME NEW d \in Clients, NEW i \in 1 .. Len(wire'[d]), wire'[d][i].type = "transition"
        PROVE  wire'[d][i].tick \in 1 .. tick /\ wire'[d][i].from = wire'[d][i].tick
    <3>1. CASE d = c
      BY <1>10, <2>2, <3>1 DEF IInv, TickInv
    <3>2. CASE d # c
      BY <1>9, <2>2, <3>2 DEF IInv, TickInv
    <3> QED BY <3>1, <3>2
  <2>3. \A d \in Clients : view'[d].applied \subseteq 1 .. tick
    BY <1>5, <1>7, <1>8 DEF IInv, TickInv
  <2> QED BY <1>2, <2>1, <2>2, <2>3 DEF TickInv
<1>14. CatchupOf(c) /\ InOrder(c) /\ tick \in Nat
  BY Types DEF IInv, OrderInv, CatchupInv
<1>15. OrderInv' /\ CatchupInv'
  <2>1. \A i \in 1 .. Len(wire'[c]) : wire'[c][i].type = "catchup" => wire[c][i + 1].type = "catchup" /\ i + 1 = 1
    BY <1>10, <1>14 DEF InOrder
  <2>2. \A i \in 1 .. Len(wire'[c]) : wire'[c][i].type # "catchup"
    BY <1>10, <2>1
  <2>3. CatchupOf(c)'
    <3>1. wire'[c] # <<>> => 1 \in 1 .. Len(wire'[c])
      BY <1>3, <1>4, <1>9
    <3>2. link[c] \notin {"down", "bound"} /\ replay[c] = 0
      BY <1>2, <1>14 DEF CatchupOf
    <3> QED BY <1>2, <1>14, <2>2, <3>1, <3>2 DEF CatchupOf
  <2>4. InOrder(c)'
    <3>1. ASSUME NEW i \in 1 .. Len(wire'[c]), wire'[c][i].type = "snapshot", NEW j \in 1 .. i - 1
          PROVE  FALSE
      <4>1. i + 1 \in 1 .. Len(wire[c]) /\ wire[c][i + 1].type = "snapshot"
        BY <1>10, <3>1
      <4>2. j \in 1 .. Len(wire'[c]) /\ j + 1 \in 1 .. (i + 1) - 1
        BY <1>4, <1>9, <3>1
      <4>3. wire[c][j + 1].type = "catchup"
        BY <1>14, <4>1, <4>2 DEF InOrder
      <4> QED BY <1>10, <2>2, <4>2, <4>3
    <3>2. ASSUME link'[c] \notin {"sent", "ready"} PROVE \A i \in 1 .. Len(wire'[c]) : FALSE
      <4>1. \A i \in 1 .. Len(wire[c]) : wire[c][i].type = "catchup"
        BY <1>2, <1>14, <3>2 DEF InOrder
      <4> QED BY <1>10, <2>2, <4>1
    <3> QED BY <2>2, <3>1, <3>2 DEF InOrder
  <2>5. ASSUME NEW d \in Clients, d # c PROVE CatchupOf(d)' /\ InOrder(d)'
    <3>1. CatchupOf(d) /\ InOrder(d)
      BY DEF IInv, OrderInv, CatchupInv
    <3> QED BY <1>2, <1>9, <1>14, <2>5, <3>1, Untouched
  <2> QED BY <2>3, <2>4, <2>5 DEF OrderInv, CatchupInv
<1>16. ViewInv' /\ (link[c] = "ready" => v.held \/ f.type # "transition")
  <2>1. ASSUME link[c] \in {"sent", "ready"}, ~v.held
        PROVE  /\ f.type # "transition"
               /\ nv.held \/ \E i \in 1 .. Len(wire'[c]) : wire'[c][i].type = "snapshot"
    <3>1. PICK i \in 1 .. Len(wire[c]) : wire[c][i].type = "snapshot"
      BY <2>1 DEF IInv, ViewInv
    <3>2. CASE i = 1
      BY <1>4, <1>7, <3>1, <3>2
    <3>3. CASE i # 1
      <4>1. 1 \in 1 .. i - 1
        BY <1>4, <3>3
      <4>2. f.type = "catchup"
        BY <1>4, <1>14, <3>1, <4>1 DEF InOrder
      <4>3. i - 1 \in 1 .. Len(wire'[c]) /\ wire'[c][i - 1] = wire[c][i]
        BY <1>4, <1>9, <3>3
      <4> QED BY <3>1, <4>2, <4>3
    <3> QED BY <3>2, <3>3
  <2>2. ASSUME NEW d \in Clients
        PROVE  /\ view'[d].held \/ view'[d].tick = 0
               /\ link'[d] \in {"sent", "ready"} =>
                     view'[d].held \/ \E i \in 1 .. Len(wire'[d]) : wire'[d][i].type = "snapshot"
    <3>1. CASE d = c
      <4>1. nv.held \/ nv.tick = 0
        BY <1>6, <1>7
      <4>2. v.held => nv.held
        BY <1>7
      <4> QED BY <1>2, <1>8, <2>1, <3>1, <4>1, <4>2
    <3>2. CASE d # c
      BY <1>2, <1>8, <1>9, <3>2 DEF IInv, ViewInv
    <3> QED BY <3>1, <3>2
  <2> QED BY <2>1, <2>2 DEF ViewInv
<1>17. DeliveryInv'
  <2> SUFFICES ASSUME NEW d \in Readied, NEW t \in since[d] + 1 .. tick
               PROVE  /\ Folded(d, t)' \/ Coming(d, t)'
                      /\ t \in view'[d].applied => Folded(d, t)'
    BY <1>2 DEF DeliveryInv, Readied
  <2>1. d \in Clients /\ t \in Ticks
    <3>1. since[d] \in Nat /\ tick \in 0 .. MaxTick /\ MaxTick \in Nat /\ d \in Clients
      BY BoundsAssumption DEF Readied, IInv, TypeOK
    <3> QED BY <3>1 DEF Ticks
  <2>2. /\ Folded(d, t) \/ Coming(d, t)
        /\ t \in view[d].applied => Folded(d, t)
    BY DEF IInv, DeliveryInv
  <2>3. CASE d # c
    <3>1. Coming(d, t) => Coming(d, t)'
      BY <1>2, <1>9, <2>1, <2>3 DEF Coming
    <3>2. Folded(d, t)' <=> Folded(d, t)
      BY <1>8, <2>1, <2>3 DEF Folded
    <3> QED BY <1>8, <2>1, <2>2, <2>3, <3>1, <3>2
  <2>4. CASE d = c
    <3>1. Folded(c, t) => Folded(c, t)'
      BY <1>7, <1>8, <2>1 DEF Folded
    <3>2. CASE f.type = "transition" /\ f.tick = t
      <4>1. Folded(c, t)'
        <5>1. CASE t \in v.applied
          BY <2>2, <2>4, <3>1, <5>1
        <5>2. CASE t \notin v.applied
          <6>1. v.held
            BY <1>16, <2>4, <3>2 DEF Readied
          <6> QED BY <1>5, <1>7, <1>8, <3>2, <5>2, <6>1 DEF Folded
        <5> QED BY <5>1, <5>2
      <4> QED BY <2>4, <4>1
    <3>3. CASE ~(f.type = "transition" /\ f.tick = t)
      <4>1. t \in nv.applied => t \in v.applied
        <5>1. CASE f.type = "catchup"
          <6>1. snap[c] <= since[c] /\ snap[c] \in Int /\ since[c] \in Int
            BY <1>14, <2>4, Types DEF CatchupOf, Readied, IInv, TypeOK
          <6>2. f.from <= snap[c] /\ f.from \in Int
            BY <1>5, <5>1
          <6>3. f.from # t
            BY <2>4, <6>1, <6>2
          <6> QED BY <1>7, <5>1, <6>3
        <5>2. CASE f.type # "catchup"
          BY <1>5, <1>7, <3>3, <5>2
        <5> QED BY <5>1, <5>2
      <4>2. Coming(c, t) => Coming(c, t)'
        <5>1. ASSUME NEW i \in 1 .. Len(wire[c]), wire[c][i].type = "transition", wire[c][i].tick = t
              PROVE  \E j \in 1 .. Len(wire'[c]) : wire'[c][j].type = "transition" /\ wire'[c][j].tick = t
          <6>1. i # 1
            BY <1>4, <3>3, <5>1
          <6>2. i - 1 \in 1 .. Len(wire'[c]) /\ wire'[c][i - 1] = wire[c][i]
            BY <1>4, <1>9, <6>1
          <6> QED BY <5>1, <6>2
        <5> QED BY <1>2, <5>1 DEF Coming
      <4> QED BY <1>8, <2>2, <2>4, <3>1, <4>1, <4>2
    <3> QED BY <3>2, <3>3
  <2> QED BY <2>3, <2>4
<1> QED BY <1>11, <1>12, <1>13, <1>15, <1>16, <1>17 DEF IInv

\* Every step of the match, its connections and its clients, and a step of nothing.
LEMMA NextStep == ASSUME IInv, [Next]_vars PROVE IInv'
<1>1. ASSUME UNCHANGED vars PROVE IInv'
  <2>1. TypeOK'
    BY <1>1 DEF vars, IInv, TypeOK
  <2>2. ConnInv' /\ TickInv'
    BY <1>1 DEF vars, IInv, ConnInv, TickInv, Busy, Established
  <2>3. OrderInv' /\ CatchupInv' /\ ViewInv'
    BY <1>1, Types, WiresKept DEF vars, IInv
  <2>4. DeliveryInv'
    BY <1>1 DEF vars, IInv, DeliveryInv, Folded, Coming, Readied, Busy, Established
  <2> QED BY <2>1, <2>2, <2>3, <2>4 DEF IInv
<1> QED BY <1>1, ConnectStep, ResumeForStep, SendCatchupStep, SendSnapshotStep, MarkReadyStep, DropStep, ActStep,
           ReceiveStep, JoinStep, CollectStep, SendStep, ReleaseStep, AckStep DEF Next, Publishing

-----------------------------------------------------------------------------
(* Theorems. *)

\* However commits, publications, handshakes and reads interleave, IInv holds.
THEOREM InductiveInvariant == Spec => []IInv
<1>1. Init => IInv
  BY InitIInv
<1>2. IInv /\ [Next]_vars => IInv'
  BY NextStep
<1> QED BY <1>1, <1>2, PTL DEF Spec

\* Goroutines, connections and stores stay within their stages and bounds.
THEOREM TypeCorrect == Spec => []TypeOK
<1>1. IInv => TypeOK
  BY DEF IInv
<1> QED BY <1>1, InductiveInvariant, PTL

\* The gate in the session table holds back every transition and acknowledgement
\* until the snapshot of the handshake was written, and lets nothing in between a
\* catch-up and the snapshot it leads up to.
THEOREM SnapshotPrecedesLive == Spec => []SnapshotBeforeLive
<1>1. IInv => SnapshotBeforeLive
  BY DEF IInv, OrderInv, InOrder, SnapshotBeforeLive
<1> QED BY <1>1, InductiveInvariant, PTL

\* Nothing that committed while a client was ready is missing from its view
\* once all is delivered.
THEOREM ReadyLosesNothing == Spec => []NoLossWhileReady
<1>1. ASSUME IInv PROVE NoLossWhileReady
  <2> SUFFICES ASSUME Quiet, NEW c \in Readied, NEW t \in since[c] + 1 .. tick
               PROVE  view[c].times[t] >= 1
    BY DEF NoLossWhileReady
  <2>1. ~Coming(c, t)
    <3>1. wire[c] = <<>> /\ Len(<<>>) = 0
      BY DEF Quiet, Readied
    <3> QED BY <3>1 DEF Quiet, Coming
  <2> QED BY <1>1, <2>1 DEF IInv, DeliveryInv, Folded
<1> QED BY <1>1, InductiveInvariant, PTL
=============================================================================
