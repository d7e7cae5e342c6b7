----------------------------- MODULE RateLimiter -----------------------------
(***************************************************************************)
(* The sliding-window limiter in front of player actions and the lobby's   *)
(* HTTP endpoints.  Allow runs under the limiter's mutex, so a call is one *)
(* step; what is hard is the amortised sweep that runs inside it, over     *)
(* keys that other callers are using.                                      *)
(***************************************************************************)
EXTENDS Integers, Sequences, FiniteSets, SequencesExt

CONSTANTS
    Keys,
    Limit,         \* events allowed per window
    Window,
    SweepEvery,    \* calls between two sweeps
    MaxTime        \* bound: the clock stops here

ASSUME LimiterAssumption ==
    /\ Limit \in Nat /\ Window \in Nat \ {0}
    /\ SweepEvery \in Nat \ {0} /\ MaxTime \in Nat

VARIABLES
    now,
    tracked,   \* keys of the hits map
    hits,      \* times retained for each key; empty when it is not tracked
    swept,     \* calls since the last sweep
    allowed    \* history: when each key was allowed to act

vars == <<now, tracked, hits, swept, allowed>>

Init ==
    /\ now = 0
    /\ tracked = {}
    /\ hits = [k \in Keys |-> <<>>]
    /\ swept = 0
    /\ allowed = [k \in Keys |-> <<>>]

Cutoff == now - Window

\* Mutant: the sweep never comes due.
Sweeps_never == FALSE

Sweeps == swept + 1 >= SweepEvery

\* Mutants: the oldest hit decides; only keys without hits are stale.
Stale_oldest(k) == hits[k] = <<>> \/ Head(hits[k]) <= Cutoff
Stale_empty(k)  == hits[k] = <<>>

\* A key whose last hit has left the window is dropped with all its hits.
Stale(k) == hits[k] = <<>> \/ Last(hits[k]) <= Cutoff

Swept(k) == Sweeps /\ k \in tracked /\ Stale(k)

\* Mutant: hits that left the window still count.
Kept_all(k) == IF Swept(k) THEN <<>> ELSE hits[k]

\* The loop over a key's hits, which keeps the ones after the cutoff.
Unexpired(s, cutoff) ==
    LET kept[i \in 0 .. Len(s)] ==
          IF i = 0 THEN <<>>
          ELSE IF s[i] > cutoff THEN Append(kept[i - 1], s[i]) ELSE kept[i - 1]
    IN  kept[Len(s)]

Kept(k) == IF Swept(k) THEN <<>> ELSE Unexpired(hits[k], Cutoff)

Permits(k) == Len(Kept(k)) < Limit

Allow(k) ==
    /\ swept' = IF Sweeps THEN 0 ELSE swept + 1
    /\ tracked' = {j \in tracked : ~Swept(j)} \cup {k}
    /\ hits' = [j \in Keys |->
                  CASE j = k /\ Permits(k)  -> Append(Kept(k), now)
                    [] j = k /\ ~Permits(k) -> Kept(k)
                    [] j # k /\ Swept(j)    -> <<>>
                    [] OTHER                -> hits[j]]
    /\ allowed' = IF Permits(k) THEN [allowed EXCEPT ![k] = Append(@, now)] ELSE allowed
    /\ UNCHANGED now

Tick ==
    /\ now < MaxTime
    /\ now' = now + 1
    /\ UNCHANGED <<tracked, hits, swept, allowed>>

Next == Tick \/ \E k \in Keys : Allow(k)

Spec == Init /\ [][Next]_vars

-----------------------------------------------------------------------------
(* Properties. *)

\* Times never exceed the clock, and the sweep counter its period.
TypeOK ==
    /\ now \in 0 .. MaxTime
    /\ tracked \subseteq Keys
    /\ hits \in [Keys -> Seq(0 .. MaxTime)]
    /\ swept \in 0 .. SweepEvery - 1
    /\ allowed \in [Keys -> Seq(0 .. MaxTime)]

\* The limit holds over every window, not only over the ones the limiter
\* happened to look at: no sweep by another caller, and no refused call, lets
\* a key act more than Limit times within one window.
LimitHolds ==
    \A k \in Keys : \A i \in 1 .. Len(allowed[k]) - Limit :
        allowed[k][i + Limit] - allowed[k][i] >= Window

\* The limiter is no stricter than it says: a call is refused only when Limit
\* calls of that key were allowed within the window that ends now.
RefusalIsEarned ==
    \A k \in Keys : ~Permits(k) =>
        Cardinality({i \in 1 .. Len(allowed[k]) : allowed[k][i] > Cutoff}) >= Limit

\* The map shrinks: a sweep leaves no key behind whose hits have all expired,
\* except the one that is asking.
SweepForgets ==
    [][swept' = 0 /\ swept # swept' =>
         \A k \in tracked' : hits'[k] = <<>> \/ Last(hits'[k]) > Cutoff]_vars
=============================================================================
