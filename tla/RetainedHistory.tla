--------------------------- MODULE RetainedHistory ---------------------------
(***************************************************************************)
(* The events a match keeps in memory for clients that come back: what a   *)
(* transition appends, how the window is trimmed to its capacity, and what *)
(* a client that resumes from a tick is given.                             *)
(*                                                                         *)
(* An event is the tick of its transition and its number within it.        *)
(***************************************************************************)
EXTENDS Integers, Sequences, FiniteSets, SequencesExt, FiniteSetsExt

CONSTANTS
    Cap,          \* historyCap
    MaxEvents,    \* the most events one transition emits
    MaxTick,      \* bound: ticks reached
    MaxAdopts     \* bound: transitions adopted by reconcileCommit

ASSUME HistoryAssumption ==
    /\ MaxEvents \in Nat \ {0}
    /\ Cap \in Nat /\ Cap >= MaxEvents
    /\ MaxTick \in Nat /\ MaxAdopts \in Nat

VARIABLES
    tick,       \* Match.state.Tick
    history,    \* the retained events, oldest first
    base,       \* tick of the oldest retained event, once something was trimmed
    emitted,    \* history: how many events each transition so far had
    adopted     \* history: ticks reached by adopting a stored state

vars == <<tick, history, base, emitted, adopted>>

Init ==
    /\ tick = 0
    /\ history = <<>>
    /\ base = 0
    /\ emitted = <<>>
    /\ adopted = {}

EventsOf(t, n) == [i \in 1 .. n |-> [tick |-> t, nr |-> i]]

\* Mutant: the window is cut by the count alone.
Dropped_byCount(h) == Len(h) - Cap

\* How many events go: those over capacity, and what is left of the
\* transition the cut would otherwise split.
Dropped(h) ==
    LET over     == Len(h) - Cap
        boundary == h[over].tick
        kept     == {i \in over + 1 .. Len(h) : h[i].tick # boundary}
    IN  IF kept = {} THEN Len(h) ELSE Min(kept) - 1

Trimmed(h) == IF Len(h) <= Cap THEN h ELSE SubSeq(h, Dropped(h) + 1, Len(h))

\* A transition of n events is committed and recorded.
Record(n) ==
    /\ tick < MaxTick
    /\ tick' = tick + 1
    /\ emitted' = Append(emitted, n)
    /\ LET h == history \o EventsOf(tick + 1, n)
       IN  /\ history' = Trimmed(h)
           /\ base' = IF Len(h) > Cap /\ Trimmed(h) # <<>> THEN Trimmed(h)[1].tick ELSE base
    /\ UNCHANGED adopted

\* reconcileCommit finds that a commit it was told had failed is durable: it
\* takes over the stored state, and records nothing.
Adopt(n) ==
    /\ tick < MaxTick
    /\ Cardinality(adopted) < MaxAdopts
    /\ adopted' = adopted \cup {tick + 1}
    /\ tick' = tick + 1
    /\ emitted' = Append(emitted, n)
    /\ UNCHANGED <<history, base>>

Next == \E n \in 1 .. MaxEvents : Record(n) \/ Adopt(n)

Spec == Init /\ [][Next]_vars

-----------------------------------------------------------------------------
(* What a resuming client is given. *)

\* Mutant: a cursor older than the window is served from it.
SinceOk_noBase(c) == IF history = <<>> THEN c = 0 ELSE c <= tick

\* sinceLocked: the retained events after a cursor, and whether the window
\* reaches back that far.
SinceOk(c) == IF history = <<>> THEN c = 0 ELSE base <= c + 1 /\ c <= tick

\* Its loop over the window.
EventsAfter(h, c) ==
    LET events[i \in 0 .. Len(h)] ==
          IF i = 0 THEN <<>>
          ELSE IF h[i].tick > c THEN Append(events[i - 1], h[i]) ELSE events[i - 1]
    IN  events[Len(h)]

Since(c) == IF SinceOk(c) THEN EventsAfter(history, c) ELSE <<>>

\* ResumeFor: the events to replay, and whether the client must resynchronise.
CatchUp(c) == IF c > tick THEN <<>> ELSE Since(c)
Resync(c)  == c > tick \/ (CatchUp(c) = <<>> /\ c > 0 /\ c < tick)

-----------------------------------------------------------------------------
(* Properties. *)

HistoryEvent == [tick : 1 .. MaxTick, nr : 1 .. MaxEvents]

\* The window holds events of ticks reached; adopted ticks were reached.
TypeOK ==
    /\ tick \in 0 .. MaxTick
    /\ history \in Seq(HistoryEvent)
    /\ base \in 0 .. MaxTick
    /\ emitted \in Seq(1 .. MaxEvents)
    /\ adopted \subseteq 1 .. tick

\* The window stays within its capacity and never holds part of a transition:
\* whatever the sizes of the transitions, a cut falls between two of them.
WholeTransitions ==
    /\ Len(history) <= Cap
    /\ \A i \in 1 .. Len(history) : \A nr \in 1 .. emitted[history[i].tick] :
          \E j \in 1 .. Len(history) : history[j] = [tick |-> history[i].tick, nr |-> nr]

AllSince(c) == FlattenSeq([k \in 1 .. tick - c |-> EventsOf(c + k, emitted[c + k])])

\* Catch-up is all or nothing: a client is given every event after its cursor,
\* in order, or none, as long as all of them were recorded.  One that is given
\* none and not told to resynchronise holds the newest tick or the cursor 0; and
\* cursor 0 is given none only when the window no longer starts at the first
\* transition.  (ResumeFor tells no client with cursor 0 that it is behind.)
ResumeExact ==
    /\ \A c \in 0 .. tick :
          adopted \cap (c + 1 .. tick) = {} => CatchUp(c) \in {<<>>, AllSince(c)}
    /\ \A c \in 0 .. tick + 1 : CatchUp(c) = <<>> /\ ~Resync(c) => c = tick \/ c = 0
    /\ CatchUp(0) = <<>> => history = <<>> \/ base > 1
=============================================================================
