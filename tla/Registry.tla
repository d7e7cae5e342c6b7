------------------------------- MODULE Registry -------------------------------
(***************************************************************************)
(* The registry of live matches: creation up to the live-match bound, the  *)
(* lookups that precede a seat claim or a connection, the session table of *)
(* each match, and the janitor that reclaims idle matches.                 *)
(*                                                                         *)
(* A match id is random and never minted twice, so a match is identified   *)
(* with the request that creates it, and a session with its connection.    *)
(* Time is the idle age of each match, which stops counting once it is     *)
(* past the TTL: nothing tells larger ages apart.                          *)
(***************************************************************************)
EXTENDS Integers, FiniteSets

CONSTANTS
    Matches,      \* matches that may be created
    Creators,     \* goroutines serving POST /matches
    Sessions,     \* connections; the id is minted per connection
    Joiners,      \* seat claims over HTTP
    MaxLive,      \* MaxLiveMatches
    Ttl           \* idle TTL, in ticks of the clock

ASSUME RegistryAssumption ==
    /\ MaxLive \in Nat \ {0} /\ Ttl \in Nat \ {0}
    /\ IsFiniteSet(Matches) /\ IsFiniteSet(Creators)

None == "none"

VARIABLES
    live,       \* Registry.matches
    minted,     \* matches whose creation has begun
    making,     \* the match each creator is about to insert, or None
    sessions,   \* Match.sessions, per match
    age,        \* time since Match.lastActivity, per match
    held,       \* the match a connection's goroutine has looked up, or None
    stage,      \* where that goroutine is
    claim,      \* the same for seat claims
    quiet       \* history: time since a session was last attached, per match

vars == <<live, minted, making, sessions, age, held, stage, claim, quiet>>

Init ==
    /\ live = {} /\ minted = {}
    /\ making = [c \in Creators |-> None]
    /\ sessions = [m \in Matches |-> {}]
    /\ age = [m \in Matches |-> 0]
    /\ held = [s \in Sessions |-> None]
    /\ stage = [s \in Sessions |-> "new"]
    /\ claim = [j \in Joiners |-> None]
    /\ quiet = [m \in Matches |-> 0]

-----------------------------------------------------------------------------
(* Create: the bound is checked under a read lock that is released before  *)
(* the match is stored and inserted.                                       *)

\* Mutant: one match too many.
CheckBound_atLimit(c, m) ==
    /\ making[c] = None
    /\ m \notin minted
    /\ Cardinality(live) <= MaxLive
    /\ making' = [making EXCEPT ![c] = m]
    /\ minted' = minted \cup {m}
    /\ UNCHANGED <<live, sessions, age, held, stage, claim, quiet>>

CheckBound(c, m) ==
    /\ making[c] = None
    /\ m \notin minted
    /\ Cardinality(live) < MaxLive
    /\ making' = [making EXCEPT ![c] = m]
    /\ minted' = minted \cup {m}
    /\ UNCHANGED <<live, sessions, age, held, stage, claim, quiet>>

\* Mutant: the error is dropped and no match is inserted in its place.
StoreFails_ignored(c) ==
    /\ making[c] # None
    /\ live' = live \cup {None}
    /\ making' = [making EXCEPT ![c] = None]
    /\ UNCHANGED <<minted, sessions, age, held, stage, claim, quiet>>

StoreFails(c) ==
    /\ making[c] # None
    /\ making' = [making EXCEPT ![c] = None]
    /\ UNCHANGED <<live, minted, sessions, age, held, stage, claim, quiet>>

Insert(c) ==
    /\ making[c] # None
    /\ live' = live \cup {making[c]}
    /\ making' = [making EXCEPT ![c] = None]
    /\ UNCHANGED <<minted, sessions, age, held, stage, claim, quiet>>

-----------------------------------------------------------------------------
(* A connection: look the match up, bind, welcome, serve, disconnect. *)

Get(s, m) ==
    /\ stage[s] = "new"
    /\ m \in live
    /\ held' = [held EXCEPT ![s] = m]
    /\ stage' = [stage EXCEPT ![s] = "found"]
    /\ UNCHANGED <<live, minted, making, sessions, age, claim, quiet>>

Bind(s) ==
    /\ stage[s] = "found"
    /\ sessions' = [sessions EXCEPT ![held[s]] = @ \cup {s}]
    /\ stage' = [stage EXCEPT ![s] = "bound"]
    /\ UNCHANGED <<live, minted, making, age, held, claim, quiet>>

BindRefused(s) ==
    /\ stage[s] = "found"
    /\ stage' = [stage EXCEPT ![s] = "closed"]
    /\ UNCHANGED <<live, minted, making, sessions, age, held, claim, quiet>>

Welcomed(s) ==
    /\ stage[s] = "bound"
    /\ stage' = [stage EXCEPT ![s] = "serving"]
    /\ UNCHANGED <<live, minted, making, sessions, age, held, claim, quiet>>

\* The welcome cannot be written: handshake returns no match, so serveWS
\* defers no Disconnect.
WelcomeFails(s) ==
    /\ stage[s] = "bound"
    /\ stage' = [stage EXCEPT ![s] = "closed"]
    /\ UNCHANGED <<live, minted, making, sessions, age, held, claim, quiet>>

\* Mutant: the idle clock does not restart.
IdleClock_untouched(m, rest) == age

\* The idle clock starts when the last session is gone.
IdleClock(m, rest) == IF rest = {} THEN [age EXCEPT ![m] = 0] ELSE age

Disconnect(s) ==
    /\ stage[s] = "serving"
    /\ LET rest == sessions[held[s]] \ {s}
       IN  /\ sessions' = [sessions EXCEPT ![held[s]] = rest]
           /\ age' = IdleClock(held[s], rest)
    /\ stage' = [stage EXCEPT ![s] = "closed"]
    /\ quiet' = [quiet EXCEPT ![held[s]] = 0]
    /\ UNCHANGED <<live, minted, making, held, claim>>

-----------------------------------------------------------------------------
(* A seat claim restarts the idle clock. *)

GetForJoin(j, m) ==
    /\ claim[j] = None
    /\ m \in live
    /\ claim' = [claim EXCEPT ![j] = m]
    /\ UNCHANGED <<live, minted, making, sessions, age, held, stage, quiet>>

ClaimSeat(j) ==
    /\ claim[j] \in Matches
    /\ age' = [age EXCEPT ![claim[j]] = 0]
    /\ claim' = [claim EXCEPT ![j] = "done"]
    /\ UNCHANGED <<live, minted, making, sessions, held, stage, quiet>>

-----------------------------------------------------------------------------
(* Time and the janitor. *)

\* The clock of a match runs from the moment Create builds it.
Tick ==
    /\ \E m \in minted : age[m] <= Ttl \/ quiet[m] <= Ttl
    /\ age' = [m \in Matches |-> IF m \in minted /\ age[m] <= Ttl THEN age[m] + 1 ELSE age[m]]
    /\ quiet' = [m \in Matches |->
                    CASE sessions[m] # {} -> 0
                      [] sessions[m] = {} /\ m \in minted /\ quiet[m] <= Ttl -> quiet[m] + 1
                      [] OTHER -> quiet[m]]
    /\ UNCHANGED <<live, minted, making, sessions, held, stage, claim>>

\* Mutant: a match nobody ever connected to is not reclaimed.
Evictable_onceAttended(m) ==
    sessions[m] = {} /\ age[m] > Ttl /\ \E s \in Sessions : held[s] = m

Evictable(m) == sessions[m] = {} /\ age[m] > Ttl

EvictIdle ==
    /\ \E m \in live : Evictable(m)
    /\ live' = {m \in live : ~Evictable(m)}
    /\ UNCHANGED <<minted, making, sessions, age, held, stage, claim, quiet>>

Next ==
    \/ \E c \in Creators : StoreFails(c) \/ Insert(c) \/ \E m \in Matches : CheckBound(c, m)
    \/ \E s \in Sessions :
          \/ Bind(s) \/ BindRefused(s) \/ Welcomed(s) \/ WelcomeFails(s) \/ Disconnect(s)
          \/ \E m \in Matches : Get(s, m)
    \/ \E j \in Joiners : ClaimSeat(j) \/ \E m \in Matches : GetForJoin(j, m)
    \/ Tick
    \/ EvictIdle

Spec == Init /\ [][Next]_vars

\* Time passes and the janitor's ticker fires.
FairSpec == Spec /\ WF_vars(Tick) /\ WF_vars(EvictIdle)

-----------------------------------------------------------------------------
(* Properties. *)

\* Live matches were minted, and every table stays over its sets.
TypeOK ==
    /\ live \subseteq minted /\ minted \subseteq Matches
    /\ making \in [Creators -> Matches \cup {None}]
    /\ sessions \in [Matches -> SUBSET Sessions]
    /\ age \in [Matches -> 0 .. Ttl + 1]
    /\ held \in [Sessions -> Matches \cup {None}]
    /\ stage \in [Sessions -> {"new", "found", "bound", "serving", "closed"}]
    /\ claim \in [Joiners -> Matches \cup {None, "done"}]
    /\ quiet \in [Matches -> 0 .. Ttl + 1]

Inserting == {c \in Creators : making[c] # None}

\* What the bound is worth when creations overlap: every creation past the
\* check counts, and the registry exceeds its limit by less than their number.
OvershootBounded ==
    Cardinality(live) + Cardinality(Inserting) <= MaxLive + Cardinality(Creators) - 1

\* Players keep their table: a match is evicted only when nobody is attached
\* to it and nobody was for a whole TTL, so whoever drops out, even after
\* sitting still for longer than that, has the TTL to come back.
ReconnectGrace ==
    [][\A m \in live \ live' : sessions[m] = {} /\ quiet[m] > Ttl]_vars

\* An idle match is reclaimed: once nobody is bound to it, it is evicted or
\* somebody binds again.
IdleIsReclaimed ==
    \A m \in Matches : m \in live /\ sessions[m] = {} ~> m \notin live \/ sessions[m] # {}

Attended(m) == \E s \in Sessions : held[s] = m /\ stage[s] \in {"found", "bound", "serving"}

\* A match that nobody is connected to any more is reclaimed.
AbandonedIsReclaimed ==
    \A m \in Matches : m \in live /\ ~Attended(m) ~> m \notin live \/ Attended(m)
=============================================================================
