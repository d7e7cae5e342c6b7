---------------------------- MODULE Registry_proofs ----------------------------
(***************************************************************************)
(* Proofs about Registry, for any number of matches, creators, sessions    *)
(* and seat claims, any live-match bound and any TTL: the type invariant,  *)
(* how far overlapping creations overshoot the bound, and the time a       *)
(* player has to reconnect before the janitor takes the match away.        *)
(***************************************************************************)
EXTENDS Registry, FiniteSetTheorems, TLAPS

\* What a creator is about to insert has been minted.
MakingInv == \A c \in Creators : making[c] # None => making[c] \in minted

\* While nobody is attached, the idle clock the janitor reads has not run for
\* longer than the match has really been without a session.
QuietInv == \A m \in Matches : sessions[m] = {} => age[m] <= quiet[m]

IInv == TypeOK /\ MakingInv /\ OvershootBounded /\ QuietInv

-----------------------------------------------------------------------------
\* The sets the bound counts are finite.
LEMMA Counted ==
    ASSUME TypeOK
    PROVE  /\ IsFiniteSet(live) /\ Cardinality(live) \in Nat
           /\ IsFiniteSet(Inserting) /\ Cardinality(Inserting) \in Nat
           /\ Cardinality(Inserting) <= Cardinality(Creators)
           /\ Cardinality(Creators) \in Nat /\ MaxLive \in Nat /\ Ttl \in Nat /\ MaxLive > 0
<1>1. live \subseteq Matches /\ Inserting \subseteq Creators
  BY DEF TypeOK, Inserting
<1>2. IsFiniteSet(Matches) /\ IsFiniteSet(Creators) /\ MaxLive \in Nat /\ Ttl \in Nat /\ MaxLive > 0
  BY RegistryAssumption
<1> QED BY <1>1, <1>2, FS_Subset, FS_CardinalityType

\* An empty registry is within every bound.
LEMMA InitIInv == Init => IInv
<1> SUFFICES ASSUME Init PROVE IInv
  OBVIOUS
<1>1. TypeOK
  BY RegistryAssumption DEF Init, TypeOK
<1>2. OvershootBounded
  <2>1. live = {} /\ Inserting = {}
    BY DEF Init, Inserting
  <2>2. Cardinality(live) = 0 /\ Cardinality(Inserting) = 0
    BY <2>1, FS_EmptySet
  <2> QED BY <1>1, <2>2, Counted DEF OvershootBounded
<1>3. MakingInv /\ QuietInv
  BY DEF Init, MakingInv, QuietInv
<1> QED BY <1>1, <1>2, <1>3 DEF IInv

\* Passing the check: the registry is below its limit, and at most every
\* creator is past the check.
LEMMA CheckBoundStep ==
    ASSUME IInv, NEW c \in Creators, NEW m \in Matches, CheckBound(c, m) PROVE IInv'
<1> USE DEF IInv, CheckBound
<1>1. TypeOK'
  BY DEF TypeOK
<1>2. MakingInv'
  BY DEF MakingInv, TypeOK
<1>3. OvershootBounded'
  <2>1. /\ Cardinality(live') = Cardinality(live) /\ Cardinality(live) < MaxLive
        /\ Cardinality(live) \in Nat
    BY Counted
  <2>2. /\ Cardinality(Inserting)' <= Cardinality(Creators) /\ Cardinality(Inserting)' \in Nat
        /\ Cardinality(Creators) \in Nat /\ MaxLive \in Nat
    <3>1. Inserting' \subseteq Creators
      BY DEF Inserting
    <3>2. IsFiniteSet(Creators)
      BY RegistryAssumption
    <3> QED BY <3>1, <3>2, Counted, FS_Subset, FS_CardinalityType
  <2> QED BY <2>1, <2>2 DEF OvershootBounded
<1>4. QuietInv'
  BY DEF QuietInv
<1> QED BY <1>1, <1>2, <1>3, <1>4

\* A creation that ends, in a match or in an error, is no longer inserting.
LEMMA InsertingShrinks ==
    ASSUME IInv, NEW c \in Creators, making[c] # None, making' = [making EXCEPT ![c] = None]
    PROVE  /\ Cardinality(Inserting)' = Cardinality(Inserting) - 1
           /\ Cardinality(Inserting) \in Nat
           /\ making' \in [Creators -> Matches \cup {None}]
<1>1. Inserting' = Inserting \ {c} /\ c \in Inserting
  BY DEF IInv, TypeOK, Inserting
<1>2. IsFiniteSet(Inserting)
  BY Counted DEF IInv
<1>3. making' \in [Creators -> Matches \cup {None}]
  BY DEF IInv, TypeOK
<1> QED BY <1>1, <1>2, <1>3, FS_RemoveElement, FS_CardinalityType

\* A creation whose match cannot be stored inserts nothing.
LEMMA StoreFailsStep == ASSUME IInv, NEW c \in Creators, StoreFails(c) PROVE IInv'
<1> USE DEF IInv, StoreFails
<1>1. TypeOK'
  BY InsertingShrinks DEF TypeOK
<1>2. MakingInv'
  BY DEF MakingInv, TypeOK
<1>3. OvershootBounded'
  <2>1. Cardinality(Inserting)' = Cardinality(Inserting) - 1 /\ Cardinality(Inserting) \in Nat
    BY InsertingShrinks
  <2>2. live' = live /\ Cardinality(live) \in Nat /\ MaxLive \in Nat /\ Cardinality(Creators) \in Nat
    BY Counted
  <2> QED BY <2>1, <2>2 DEF OvershootBounded
<1>4. QuietInv'
  BY DEF QuietInv
<1> QED BY <1>1, <1>2, <1>3, <1>4

\* An insertion trades a creation in progress for at most one live match.
LEMMA InsertStep == ASSUME IInv, NEW c \in Creators, Insert(c) PROVE IInv'
<1> USE DEF IInv, Insert
<1>1. TypeOK'
  BY InsertingShrinks DEF TypeOK, MakingInv
<1>2. MakingInv'
  BY DEF MakingInv, TypeOK
<1>3. OvershootBounded'
  <2>1. Cardinality(live') \in Nat /\ Cardinality(live') <= Cardinality(live) + 1
    <3>1. IsFiniteSet(live) /\ Cardinality(live) \in Nat
      BY Counted
    <3>2. Cardinality(live \cup {making[c]}) \in {Cardinality(live), Cardinality(live) + 1}
      BY <3>1, FS_AddElement
    <3>3. live' = live \cup {making[c]}
      OBVIOUS
    <3> QED BY <3>1, <3>2, <3>3
  <2>2. Cardinality(Inserting)' = Cardinality(Inserting) - 1 /\ Cardinality(Inserting) \in Nat
    BY InsertingShrinks
  <2>3. Cardinality(live) \in Nat /\ MaxLive \in Nat /\ Cardinality(Creators) \in Nat
    BY Counted
  <2> QED BY <2>1, <2>2, <2>3 DEF OvershootBounded
<1>4. QuietInv'
  BY DEF QuietInv
<1> QED BY <1>1, <1>2, <1>3, <1>4

\* A step that only moves connections, seat claims or clocks.
LEMMA Uninvolved ==
    ASSUME IInv, UNCHANGED <<live, minted, making>>
    PROVE  /\ MakingInv' /\ OvershootBounded'
           /\ live' \subseteq minted' /\ minted' \subseteq Matches
           /\ making' \in [Creators -> Matches \cup {None}]
BY DEF IInv, TypeOK, MakingInv, OvershootBounded, Inserting

\* A connection before it serves: sessions only come, clocks stay.
LEMMA ConnectStep ==
    ASSUME IInv, NEW s \in Sessions,
           \/ Bind(s) \/ BindRefused(s) \/ Welcomed(s) \/ WelcomeFails(s)
           \/ \E m \in Matches : Get(s, m)
    PROVE  IInv'
<1> USE DEF IInv
<1>1. CASE Bind(s)
  BY <1>1, Uninvolved DEF Bind, TypeOK, QuietInv
<1>2. CASE BindRefused(s) \/ Welcomed(s) \/ WelcomeFails(s)
  BY <1>2, Uninvolved DEF BindRefused, Welcomed, WelcomeFails, TypeOK, QuietInv
<1>3. CASE \E m \in Matches : Get(s, m)
  BY <1>3, Uninvolved DEF Get, TypeOK, QuietInv
<1> QED BY <1>1, <1>2, <1>3

\* The last session to go restarts the idle clock.
LEMMA DisconnectStep == ASSUME IInv, NEW s \in Sessions, Disconnect(s) PROVE IInv'
<1> USE DEF IInv
<1> DEFINE h == held[s]
           rest == sessions[h] \ {s}
<1>1. /\ sessions' = [sessions EXCEPT ![h] = rest]
      /\ age' = IF rest = {} THEN [age EXCEPT ![h] = 0] ELSE age
      /\ quiet' = [quiet EXCEPT ![h] = 0]
      /\ stage' = [stage EXCEPT ![s] = "closed"]
      /\ UNCHANGED <<live, minted, making, held, claim>>
  BY DEF Disconnect, IdleClock
<1>2. 0 \in 0 .. Ttl + 1
  BY RegistryAssumption
<1>3. sessions' \in [Matches -> SUBSET Sessions]
  BY <1>1 DEF TypeOK
<1>4. age' \in [Matches -> 0 .. Ttl + 1] /\ quiet' \in [Matches -> 0 .. Ttl + 1]
  BY <1>1, <1>2 DEF TypeOK
<1>5. TypeOK'
  BY <1>1, <1>3, <1>4, Uninvolved DEF TypeOK
<1>6. QuietInv'
  <2> SUFFICES ASSUME NEW m \in Matches, sessions'[m] = {} PROVE age'[m] <= quiet'[m]
    BY DEF QuietInv
  <2>1. CASE m = h
    <3>1. sessions'[m] = rest /\ quiet'[m] = 0
      BY <1>1, <2>1 DEF TypeOK
    <3>2. age'[m] = 0
      BY <1>1, <2>1, <3>1 DEF TypeOK
    <3> QED BY <3>1, <3>2
  <2>2. CASE m # h
    <3>1. sessions'[m] = sessions[m] /\ quiet'[m] = quiet[m] /\ age'[m] = age[m]
      BY <1>1, <2>2 DEF TypeOK
    <3> QED BY <3>1 DEF QuietInv
  <2> QED BY <2>1, <2>2
<1> QED BY <1>1, <1>5, <1>6, Uninvolved

\* A seat claim only sets the idle clock back.
LEMMA JoinStep ==
    ASSUME IInv, NEW j \in Joiners, ClaimSeat(j) \/ \E m \in Matches : GetForJoin(j, m)
    PROVE  IInv'
<1> USE DEF IInv
<1>1. CASE ClaimSeat(j)
  <2>1. 0 \in 0 .. Ttl + 1
    BY RegistryAssumption
  <2>2. /\ age' \in [Matches -> 0 .. Ttl + 1]
        /\ \A m \in Matches : age'[m] = age[m] \/ age'[m] = 0
    BY <1>1, <2>1 DEF ClaimSeat, TypeOK
  <2>3. TypeOK'
    BY <1>1, <2>2, Uninvolved DEF ClaimSeat, TypeOK
  <2>4. QuietInv'
    <3>1. \A m \in Matches : quiet[m] \in Nat
      BY DEF TypeOK
    <3> QED BY <1>1, <2>2, <3>1 DEF ClaimSeat, QuietInv
  <2> QED BY <1>1, <2>3, <2>4, Uninvolved DEF ClaimSeat
<1>2. CASE \E m \in Matches : GetForJoin(j, m)
  BY <1>2, Uninvolved DEF GetForJoin, TypeOK, QuietInv
<1> QED BY <1>1, <1>2

\* Time runs alike for the idle clock and for an unattended match.
LEMMA TickStep == ASSUME IInv, Tick PROVE IInv'
<1> USE DEF IInv
<1>1. Ttl \in Nat
  BY RegistryAssumption
<1>2. UNCHANGED <<live, minted, making, sessions, held, stage, claim>>
  BY DEF Tick
<1>3. ASSUME NEW m \in Matches
      PROVE  /\ age[m] \in 0 .. Ttl + 1 /\ quiet[m] \in 0 .. Ttl + 1
             /\ age'[m] = IF m \in minted /\ age[m] <= Ttl THEN age[m] + 1 ELSE age[m]
             /\ sessions[m] # {} => quiet'[m] = 0
             /\ sessions[m] = {} =>
                   quiet'[m] = IF m \in minted /\ quiet[m] <= Ttl THEN quiet[m] + 1 ELSE quiet[m]
  BY DEF Tick, TypeOK
<1>4. age' = [m \in Matches |-> age'[m]] /\ quiet' = [m \in Matches |-> quiet'[m]]
  BY DEF Tick
<1>5. age' \in [Matches -> 0 .. Ttl + 1]
  BY <1>1, <1>3, <1>4
<1>6. quiet' \in [Matches -> 0 .. Ttl + 1]
  BY <1>1, <1>3, <1>4
<1>7. TypeOK'
  BY <1>2, <1>5, <1>6, Uninvolved DEF TypeOK
<1>8. QuietInv'
  <2> SUFFICES ASSUME NEW m \in Matches, sessions[m] = {} PROVE age'[m] <= quiet'[m]
    BY <1>2 DEF QuietInv
  <2>1. age[m] <= quiet[m]
    BY DEF QuietInv
  <2> QED BY <1>1, <1>3, <2>1
<1> QED BY <1>2, <1>7, <1>8, Uninvolved

\* The janitor only removes live matches.
LEMMA EvictIdleStep == ASSUME IInv, EvictIdle PROVE IInv'
<1> USE DEF IInv
<1>1. live' \subseteq live /\ UNCHANGED <<minted, making, sessions, age, held, stage, claim, quiet>>
  BY DEF EvictIdle
<1>2. TypeOK' /\ MakingInv' /\ QuietInv'
  BY <1>1 DEF TypeOK, MakingInv, QuietInv
<1>3. OvershootBounded'
  <2>1. Cardinality(live') \in Nat /\ Cardinality(live') <= Cardinality(live)
    BY <1>1, Counted, FS_Subset, FS_CardinalityType
  <2>2. Inserting' = Inserting
    BY <1>1 DEF Inserting
  <2> QED BY <2>1, <2>2, Counted DEF OvershootBounded
<1> QED BY <1>2, <1>3

\* Every step of the registry, and a step of nothing.
LEMMA NextStep == ASSUME IInv, [Next]_vars PROVE IInv'
<1>1. ASSUME UNCHANGED vars PROVE IInv'
  BY <1>1 DEF vars, IInv, TypeOK, MakingInv, OvershootBounded, Inserting, QuietInv
<1> QED BY <1>1, CheckBoundStep, StoreFailsStep, InsertStep, ConnectStep, DisconnectStep, JoinStep,
           TickStep, EvictIdleStep DEF Next

-----------------------------------------------------------------------------
(* Theorems. *)

\* Whatever requests, connections and sweeps interleave, IInv holds.
THEOREM InductiveInvariant == Spec => []IInv
<1>1. Init => IInv
  BY InitIInv
<1>2. IInv /\ [Next]_vars => IInv'
  BY NextStep
<1> QED BY <1>1, <1>2, PTL DEF Spec

\* The registry's tables stay over their sets, and what is live was minted.
THEOREM TypeCorrect == Spec => []TypeOK
<1>1. IInv => TypeOK
  BY DEF IInv
<1> QED BY <1>1, InductiveInvariant, PTL

\* Create, which drops its lock between the check and the insertion, exceeds
\* the live-match bound by less than the number of overlapping creations.
THEOREM BoundedOvershoot == Spec => []OvershootBounded
<1>1. IInv => OvershootBounded
  BY DEF IInv
<1> QED BY <1>1, InductiveInvariant, PTL

\* EvictIdle takes a match from nobody who was attached within the last TTL.
THEOREM GraceToReconnect == Spec => ReconnectGrace
<1> DEFINE Grace == \A m \in live \ live' : sessions[m] = {} /\ quiet[m] > Ttl
<1>1. ASSUME IInv, [Next]_vars PROVE [Grace]_vars
  <2>1. CASE EvictIdle
    <3> SUFFICES ASSUME NEW m \in live \ live' PROVE sessions[m] = {} /\ quiet[m] > Ttl
      OBVIOUS
    <3>1. sessions[m] = {} /\ age[m] > Ttl
      BY <2>1 DEF EvictIdle, Evictable
    <3>2. m \in Matches /\ age[m] <= quiet[m]
      BY <1>1, <3>1 DEF IInv, TypeOK, QuietInv
    <3>3. age[m] \in Nat /\ quiet[m] \in Nat /\ Ttl \in Nat
      BY <1>1, <3>2, RegistryAssumption DEF IInv, TypeOK
    <3> QED BY <3>1, <3>2, <3>3
  <2>2. CASE live \subseteq live'
    BY <2>2
  <2>3. ASSUME ~EvictIdle PROVE live \subseteq live'
    BY <1>1, <2>3 DEF Next, vars, CheckBound, StoreFails, Insert, Get, Bind, BindRefused, Welcomed,
                      WelcomeFails, Disconnect, GetForJoin, ClaimSeat, Tick
  <2> QED BY <2>1, <2>2, <2>3
<1> QED BY <1>1, InductiveInvariant, PTL DEF Spec, ReconnectGrace
=============================================================================
