--------------------------- MODULE BoardGame_proofs ---------------------------
(***************************************************************************)
(* Proofs about BoardGame, for every valid configuration, any set of dice  *)
(* and any number of rounds: the type invariant, that nobody is in debt,   *)
(* that holdings belong to active players, that the turn is never          *)
(* stranded, that an offer to buy stands until it is answered, that a      *)
(* lobby has one host, that the doubles cap holds, that elimination is     *)
(* final, that nobody's turn is skipped, that an ended match names its     *)
(* rightful winner, that only a leave carries a match past its round       *)
(* limit, that actions taken were offered and offers pass the checks; and  *)
(* about ClientFold, that a client that folds the events of every          *)
(* transition into its view shows the match as it is.                      *)
(***************************************************************************)
EXTENDS ClientFold, FiniteSetTheorems, SequenceTheorems, WellFoundedInduction, TLAPS

Statuses == {"absent", "active", "eliminated"}
Turns    == [seat : Seats, phase : {"none", "await_roll", "await_buy_decision", "turn_over"},
             round : Nat, streak : Nat, extra : BOOLEAN]
Outcomes == [phase : {"playing", "ended"}, winner : Seats \cup {NoSeat}, reason : Reasons]

\* The throws one turn may hold.
RollLimit == IF DoublesExtraRoll THEN MaxDoublesStreak ELSE 1

\* In a running match the turn is with an active player, at least two are
\* active, and a pending decision is about a space its player can buy.
TurnInv ==
    phase = "playing" =>
        /\ Cardinality(Active(status)) >= 2
        /\ status[turn.seat] = "active"
        /\ turn.phase # "none"
        /\ turn.phase = "await_buy_decision" =>
              /\ Board[position[turn.seat]].kind = "property"
              /\ owner[position[turn.seat]] = NoSeat
              /\ money[turn.seat] >= Board[position[turn.seat]].price

\* Before the match starts nobody owns anything, is out, or has thrown, and
\* the host is one of the players.
LobbyInv ==
    phase = "lobby" =>
        /\ \A s \in Spaces : owner[s] = NoSeat
        /\ \A p \in Seats : status[p] # "eliminated"
        /\ \A p \in Seats : isHost[p] => status[p] # "absent"
        /\ rolls = 0

\* As long as a further throw may follow in this turn, every throw so far was
\* a double and counted, and the cap leaves room for one more.
RollInv ==
    /\ phase = "playing" /\ (turn.phase = "await_roll" \/ turn.extra) =>
            rolls = turn.streak /\ rolls < RollLimit
    /\ RollsBounded

IInv == TypeOK /\ Solvent /\ HoldingsAreActive /\ TurnInv /\ LobbyInv /\ OneHost /\ RollInv

-----------------------------------------------------------------------------
\* A non-empty set of seats has a lowest seat, and Min is that seat.
LEMMA MinSeat ==
    ASSUME NEW S, S \subseteq Seats, S # {}
    PROVE  Min(S) \in S /\ \A y \in S : Min(S) <= y
<1>1. S \subseteq Nat
  BY ConfigAssumption DEF Seats, ValidConfig
<1>2. PICK x \in S : \A y \in S : ~(<<y, x>> \in OpToRel(<, Nat))
  BY <1>1, WFMin, NatLessThanWellFounded
<1>3. \A y \in S : ~(y < x)
  BY <1>1, <1>2 DEF OpToRel
<1>4. \A y \in S : x <= y
  BY <1>1, <1>3
<1> QED BY <1>4 DEF Min

\* The board starts at 0; prices, rents and taxes are amounts.
LEMMA BoardFacts ==
    /\ 0 \in Spaces
    /\ \A s \in Spaces : /\ Board[s].price \in Int /\ Board[s].rent \in Int /\ Board[s].amount \in Int
                         /\ Board[s].kind = "property" => Board[s].price >= 0 /\ Board[s].rent >= 0
                         /\ Board[s].kind = "tax" => Board[s].amount >= 0
<1>1. PICK n \in 2 .. 64 : Spaces = 0 .. n - 1 /\ \A i \in Spaces : ValidSpace(Board[i])
  BY ConfigAssumption DEF ValidConfig, ValidBoard
<1>2. 0 \in Spaces
  BY <1>1
<1>3. ASSUME NEW s \in Spaces
      PROVE  /\ Board[s].price \in Int /\ Board[s].rent \in Int /\ Board[s].amount \in Int
             /\ Board[s].kind = "property" => Board[s].price >= 0 /\ Board[s].rent >= 0
             /\ Board[s].kind = "tax" => Board[s].amount >= 0
  BY <1>1 DEF ValidSpace
<1> QED BY <1>2, <1>3

\* A throw takes its player to a space of the board, and pays no negative bonus.
LEMMA ThrowFacts ==
    ASSUME NEW p \in Seats, position[p] \in Spaces, NEW d \in Dice
    PROVE  /\ Target(p, d) \in Spaces
           /\ Passes(p, d) \in Nat
           /\ PassingGoBonus * Passes(p, d) \in Nat
<1>1. PICK n \in 2 .. 64 : Spaces = 0 .. n - 1
  BY ConfigAssumption DEF ValidConfig, ValidBoard
<1>2. Cardinality(Spaces) = n
  BY <1>1, FS_Interval
<1>3. Steps(p, d) \in Nat
  <2>1. position[p] \in Nat
    BY <1>1
  <2>2. d[1] \in Nat /\ d[2] \in Nat
    BY DiceAssumption
  <2> QED BY <2>1, <2>2 DEF Steps
<1>4. Target(p, d) \in 0 .. n - 1
  BY <1>2, <1>3 DEF Target
<1>5. Passes(p, d) \in Nat
  BY <1>2, <1>3 DEF Passes
<1>6. PassingGoBonus \in Nat
  BY ConfigAssumption DEF ValidConfig
<1>7. \A a, b \in Nat : a * b \in Nat
  OBVIOUS
<1> QED BY <1>1, <1>4, <1>5, <1>6, <1>7

\* Any set of seats is finite, and is empty when it has no members to count.
LEMMA SeatSets ==
    ASSUME NEW S, S \subseteq Seats
    PROVE  /\ IsFiniteSet(S) /\ Cardinality(S) \in Nat
           /\ Cardinality(S) = 0 <=> S = {}
<1>1. IsFiniteSet(Seats)
  BY FS_Interval, ConfigAssumption DEF Seats, ValidConfig
<1>2. IsFiniteSet(S)
  BY <1>1, FS_Subset
<1> QED BY <1>2, FS_CardinalityType, FS_EmptySet

\* Min(Active(st)), wherever the code looks for the first active seat.
LEMMA FirstActive ==
    ASSUME NEW st, Cardinality(Active(st)) >= 1
    PROVE  Min(Active(st)) \in Seats /\ st[Min(Active(st))] = "active"
<1>1. Active(st) \subseteq Seats
  BY DEF Active
<1>2. Active(st) # {}
  BY <1>1, SeatSets
<1> QED BY <1>1, <1>2, MinSeat DEF Active

\* The match goes on only with two active players; a winner is a seat.
LEMMA ShortageFacts ==
    ASSUME NEW st
    PROVE  /\ MaybeEndForInsufficientPlayers(st) \in Outcomes
           /\ MaybeEndForInsufficientPlayers(st).phase = "playing" => Cardinality(Active(st)) >= 2
<1>1. Cardinality(Active(st)) \in Nat
  BY SeatSets DEF Active
<1> DEFINE n == Cardinality(Active(st))
<1>2. CASE n >= 2
  BY <1>1, <1>2 DEF MaybeEndForInsufficientPlayers, Playing, Outcomes, Reasons
<1>3. CASE n = 1
  BY <1>1, <1>3, FirstActive DEF MaybeEndForInsufficientPlayers, Ended, Outcomes, Reasons
<1>4. CASE n = 0
  BY <1>1, <1>4 DEF MaybeEndForInsufficientPlayers, Ended, Outcomes, Reasons
<1> QED BY <1>1, <1>2, <1>3, <1>4

\* The richest active player is an active player, or nobody.
LEMMA RichestIsASeat ==
    ASSUME NEW st, NEW mo, NEW ow
    PROVE  RichestActive(st, mo, ow) \in Seats \cup {NoSeat}
<1> DEFINE best == {p \in Active(st) :
                    \A q \in Active(st) : NetWorth(mo, ow, q) <= NetWorth(mo, ow, p)}
<1>1. best \subseteq Seats
  BY DEF Active
<1>2. best # {} => Min(best) \in Seats
  BY <1>1, MinSeat
<1>3. RichestActive(st, mo, ow) = IF best = {} THEN NoSeat ELSE Min(best)
  BY DEF RichestActive
<1> HIDE DEF best
<1> QED BY <1>2, <1>3

\* The same for the full evaluation, whatever victory condition is configured.
LEMMA OutcomeFacts ==
    ASSUME NEW st, NEW mo, NEW ow, NEW r
    PROVE  /\ EvaluateMatchEnd(st, mo, ow, r) \in Outcomes
           /\ EvaluateMatchEnd(st, mo, ow, r).phase = "playing" => Cardinality(Active(st)) >= 2
<1>1. Cardinality(Active(st)) \in Nat
  BY SeatSets DEF Active
<1> DEFINE e == EvaluateMatchEnd(st, mo, ow, r)
           w == RichestActive(st, mo, ow)
<1>2. CASE Cardinality(Active(st)) < 2
  <2>1. e = MaybeEndForInsufficientPlayers(st)
    BY <1>1, <1>2 DEF EvaluateMatchEnd
  <2> QED BY <2>1, ShortageFacts
<1>3. CASE Cardinality(Active(st)) >= 2
  <2>1. e \in {Ended(w, "target_wealth"), Ended(w, "round_limit"), Playing}
    BY <1>1, <1>3 DEF EvaluateMatchEnd
  <2>2. w \in Seats \cup {NoSeat}
    BY RichestIsASeat
  <2>3. /\ Ended(w, "target_wealth") \in Outcomes
        /\ Ended(w, "round_limit") \in Outcomes
        /\ Playing \in Outcomes
    BY <2>2 DEF Ended, Playing, Outcomes, Reasons
  <2> QED BY <1>3, <2>1, <2>3
<1> QED BY <1>1, <1>2, <1>3

-----------------------------------------------------------------------------
(* What a player is worth: a sum over the spaces they own.  The library's   *)
(* induction principles cannot be instantiated here, so an induction is a    *)
(* search for the least counterexample.                                      *)

\* A set of naturals that is not empty has a least member.
LEMMA LeastNat ==
    ASSUME NEW S, S \subseteq Nat, S # {}
    PROVE  \E x \in S : \A y \in S : x <= y
<1>1. PICK x \in S : \A y \in S : ~(<<y, x>> \in OpToRel(<, Nat))
  BY WFMin, NatLessThanWellFounded
<1>2. \A y \in S : ~(y < x)
  BY <1>1 DEF OpToRel
<1> QED BY <1>2

\* The recursion behind a sum of prices, one space at a time.
Pick(s) == CHOOSE x \in s : TRUE
SumBody(h, s) == IF s = {} THEN 0 ELSE Board[Pick(s)].price + h[s \ {Pick(s)}]

\* Taking one space out of a set leaves one fewer to add up.
LEMMA PickFacts ==
    ASSUME NEW s, s # {}, IsFiniteSet(s)
    PROVE  /\ Pick(s) \in s
           /\ IsFiniteSet(s \ {Pick(s)})
           /\ Cardinality(s \ {Pick(s)}) = Cardinality(s) - 1
           /\ Cardinality(s) \in Nat /\ Cardinality(s) > 0
<1>1. Pick(s) \in s
  BY DEF Pick
<1> QED BY <1>1, FS_RemoveElement, FS_CardinalityType, FS_EmptySet

\* The recursion defines a function on the subsets of a finite set: a partial
\* one for the subsets of at most n members extends to n + 1.
LEMMA SumExists ==
    ASSUME NEW S, IsFiniteSet(S)
    PROVE  \E h : h = [s \in SUBSET S |-> SumBody(h, s)]
<1> DEFINE Upto(n) == {s \in SUBSET S : Cardinality(s) <= n}
           Partial(n) == \E h : h = [s \in Upto(n) |-> SumBody(h, s)]
           Bad == {n \in Nat : ~Partial(n)}
<1>1. \A s \in SUBSET S : IsFiniteSet(s) /\ Cardinality(s) \in Nat
  BY FS_Subset, FS_CardinalityType
<1>2. ASSUME NEW n \in Bad, \A m \in Bad : n <= m PROVE FALSE
  <2>1. CASE n = 0
    <3>1. Upto(0) \subseteq {{}}
      BY <1>1, FS_EmptySet
    <3> DEFINE h == [s \in Upto(0) |-> 0]
    <3>2. \A s \in Upto(0) : SumBody(h, s) = 0
      BY <3>1 DEF SumBody
    <3>3. h = [s \in Upto(0) |-> SumBody(h, s)]
      BY <3>2
    <3> HIDE DEF h
    <3>4. Partial(0)
      BY <3>3
    <3> QED BY <2>1, <3>4
  <2>2. CASE n # 0
    <3>1. n - 1 \in Nat /\ n - 1 \notin Bad
      <4> HIDE DEF Partial
      <4> QED BY <1>2, <2>2
    <3>2. PICK g : g = [s \in Upto(n - 1) |-> SumBody(g, s)]
      BY <3>1
    <3> DEFINE h == [s \in Upto(n) |-> IF Cardinality(s) <= n - 1 THEN g[s] ELSE SumBody(g, s)]
    <3>3. ASSUME NEW s \in Upto(n) PROVE h[s] = SumBody(h, s)
      <4>1. h[s] = SumBody(g, s)
        BY <1>1, <3>2, <3>3
      <4>2. CASE s = {}
        BY <4>1, <4>2 DEF SumBody
      <4>3. CASE s # {}
        <5>1. s \ {Pick(s)} \in Upto(n - 1)
          BY <1>1, <4>3, PickFacts
        <5>2. s \ {Pick(s)} \in Upto(n) /\ Cardinality(s \ {Pick(s)}) <= n - 1
          BY <5>1, <1>1
        <5>3. h[s \ {Pick(s)}] = g[s \ {Pick(s)}]
          BY <5>2
        <5> HIDE DEF h
        <5> QED BY <4>1, <4>3, <5>3 DEF SumBody
      <4> QED BY <4>2, <4>3
    <3>4. h = [s \in Upto(n) |-> SumBody(h, s)]
      BY <3>3
    <3> HIDE DEF h
    <3>5. Partial(n)
      BY <3>4
    <3> QED BY <3>5
  <2> QED BY <2>1, <2>2
<1>3. Bad = {}
  <2> HIDE DEF Partial
  <2> QED BY <1>2, LeastNat
<1>4. Partial(Cardinality(S))
  BY <1>1, <1>3
<1>5. Upto(Cardinality(S)) = SUBSET S
  BY FS_Subset
<1> QED BY <1>4, <1>5

\* The prices of the spaces of any set add up to an integer.
LEMMA SumOfPrices ==
    ASSUME NEW S, S \subseteq Spaces
    PROVE  MapThenSumSet(LAMBDA s : Board[s].price, S) \in Int
<1>1. PICK k \in 2 .. 64 : Spaces = 0 .. k - 1 /\ \A i \in Spaces : ValidSpace(Board[i])
  BY ConfigAssumption DEF ValidConfig, ValidBoard
<1>2. IsFiniteSet(S)
  <2>1. IsFiniteSet(0 .. k - 1)
    BY FS_Interval
  <2> QED BY <1>1, <2>1, FS_Subset
<1>3. \A i \in S : Board[i].price \in Int
  BY <1>1 DEF ValidSpace
<1> DEFINE h == CHOOSE f : f = [s \in SUBSET S |-> SumBody(f, s)]
<1>4. MapThenSumSet(LAMBDA s : Board[s].price, S) = h[S]
  BY DEF MapThenSumSet, MapThenFoldSet, SumBody, Pick
<1>5. h = [s \in SUBSET S |-> SumBody(h, s)]
  BY <1>2, SumExists
<1> HIDE DEF h
<1> DEFINE Bad == {n \in Nat : \E s \in SUBSET S : Cardinality(s) = n /\ h[s] \notin Int}
<1>6. \A s \in SUBSET S : IsFiniteSet(s) /\ Cardinality(s) \in Nat
  BY <1>2, FS_Subset, FS_CardinalityType
<1>7. ASSUME NEW n \in Bad, \A m \in Bad : n <= m PROVE FALSE
  <2>1. PICK s \in SUBSET S : Cardinality(s) = n /\ h[s] \notin Int
    BY <1>7
  <2>2. h[s] = SumBody(h, s)
    BY <1>5
  <2>3. s # {}
    BY <2>1, <2>2 DEF SumBody
  <2>4. /\ Cardinality(s \ {Pick(s)}) = n - 1 /\ n - 1 \in Nat
        /\ s \ {Pick(s)} \in SUBSET S /\ Pick(s) \in S
    BY <1>6, <2>1, <2>3, PickFacts
  <2>5. h[s \ {Pick(s)}] \in Int
    BY <1>7, <2>4
  <2>6. SumBody(h, s) \in Int
    BY <1>3, <2>3, <2>4, <2>5 DEF SumBody
  <2> QED BY <2>1, <2>2, <2>6
<1>8. Bad = {}
  BY <1>7, LeastNat
<1> QED BY <1>4, <1>6, <1>8

\* Of finitely many players someone is worth most.
LEMMA SomeoneIsRichest ==
    ASSUME NEW S, IsFiniteSet(S), S # {}, NEW f, \A x \in S : f[x] \in Int
    PROVE  \E x \in S : \A y \in S : f[y] <= f[x]
<1> DEFINE Tops(T) == \E x \in T : \A y \in T : f[y] <= f[x]
           Bad == {n \in Nat : \E T \in SUBSET S : T # {} /\ Cardinality(T) = n /\ ~Tops(T)}
<1>1. \A T \in SUBSET S : IsFiniteSet(T) /\ Cardinality(T) \in Nat
  BY FS_Subset, FS_CardinalityType
<1>2. ASSUME NEW n \in Bad, \A m \in Bad : n <= m PROVE FALSE
  <2>1. PICK T \in SUBSET S : T # {} /\ Cardinality(T) = n /\ ~Tops(T)
    BY <1>2
  <2> DEFINE z == Pick(T)
             R == T \ {z}
  <2>2. z \in T /\ R \in SUBSET S /\ Cardinality(R) = n - 1 /\ n - 1 \in Nat
    BY <1>1, <2>1, PickFacts
  <2>3. R # {}
    <3>1. ASSUME R = {} PROVE Tops(T)
      BY <2>2, <3>1
    <3> QED BY <2>1, <3>1
  <2> HIDE DEF z
  <2>4. Tops(R)
    <3> HIDE DEF Tops
    <3> QED BY <1>2, <2>2, <2>3
  <2>5. PICK x \in R : \A y \in R : f[y] <= f[x]
    BY <2>4
  <2>6. x \in T /\ z \in T /\ f[x] \in Int /\ f[z] \in Int
    BY <2>2
  <2>7. CASE f[z] <= f[x]
    <3>1. \A y \in T : f[y] <= f[x]
      BY <2>5, <2>7
    <3> QED BY <2>1, <2>6, <3>1
  <2>8. CASE f[x] <= f[z]
    <3>1. \A y \in T : f[y] \in Int
      OBVIOUS
    <3>2. \A y \in R : f[y] <= f[z]
      BY <2>5, <2>6, <2>8, <3>1
    <3>3. \A y \in T : f[y] <= f[z]
      BY <2>6, <3>2
    <3> QED BY <2>1, <2>6, <3>3
  <2> QED BY <2>6, <2>7, <2>8
<1>3. Bad = {}
  <2> HIDE DEF Tops
  <2> QED BY <1>2, LeastNat
<1>4. Tops(S)
  <2> HIDE DEF Tops
  <2> QED BY <1>1, <1>3
<1> QED BY <1>4

\* The player worth the most, the lowest seat among equals, is an active one
\* whenever anybody is active.
LEMMA RichestFacts ==
    ASSUME NEW st, NEW mo \in [Seats -> Int], NEW ow, Active(st) # {}
    PROVE  LET w == RichestActive(st, mo, ow)
           IN  /\ w \in Active(st)
               /\ \A q \in Active(st) \ {w} :
                     \/ NetWorth(mo, ow, q) < NetWorth(mo, ow, w)
                     \/ NetWorth(mo, ow, q) = NetWorth(mo, ow, w) /\ w < q
<1> DEFINE worth == [p \in Active(st) |-> NetWorth(mo, ow, p)]
           best == {p \in Active(st) :
                    \A q \in Active(st) : NetWorth(mo, ow, q) <= NetWorth(mo, ow, p)}
           w == RichestActive(st, mo, ow)
<1>1. Active(st) \subseteq Seats /\ IsFiniteSet(Active(st))
  BY SeatSets DEF Active
<1>2. \A p \in Active(st) : worth[p] \in Int
  <2> TAKE p \in Active(st)
  <2> DEFINE S == {s \in Spaces : ow[s] = p}
  <2>1. MapThenSumSet(LAMBDA s : Board[s].price, S) \in Int
    BY SumOfPrices
  <2>2. mo[p] \in Int
    BY <1>1
  <2>3. NetWorth(mo, ow, p) \in Int
    BY <2>1, <2>2 DEF NetWorth
  <2> QED BY <2>3
<1>3. best # {}
  <2>1. \E x \in Active(st) : \A y \in Active(st) : worth[y] <= worth[x]
    <3> HIDE DEF worth
    <3> QED BY <1>1, <1>2, SomeoneIsRichest
  <2> QED BY <2>1
<1>4. w = Min(best)
  BY <1>3 DEF RichestActive
<1>5. w \in best /\ \A y \in best : w <= y
  BY <1>1, <1>3, <1>4, MinSeat
<1> HIDE DEF w
<1>6. ASSUME NEW q \in Active(st), q # w
      PROVE  \/ worth[q] < worth[w]
             \/ worth[q] = worth[w] /\ w < q
  <2>1. worth[q] <= worth[w] /\ worth[q] \in Int /\ worth[w] \in Int
    BY <1>2, <1>5
  <2>2. ASSUME worth[q] = worth[w] PROVE q \in best
    BY <1>5, <2>2
  <2>3. Seats \subseteq Int
    BY ConfigAssumption DEF Seats, ValidConfig
  <2>4. q \in Int /\ w \in Int
    BY <1>1, <1>5, <2>3
  <2>5. worth[q] = worth[w] => w < q
    BY <1>5, <1>6, <2>2, <2>4
  <2> HIDE DEF worth
  <2> QED BY <2>1, <2>5
<1> QED BY <1>5, <1>6 DEF w
\* An ended match names the winner WinnerJustified asks for.
Justified(o, st, mo, ow) ==
    CASE o.reason = "last_standing" -> Active(st) = {o.winner}
      [] o.reason = "insufficient_players" -> Active(st) = {} /\ o.winner = NoSeat
      [] OTHER -> /\ o.winner \in Active(st)
                  /\ \A q \in Active(st) \ {o.winner} :
                        \/ NetWorth(mo, ow, q) < NetWorth(mo, ow, o.winner)
                        \/ /\ NetWorth(mo, ow, q) = NetWorth(mo, ow, o.winner)
                           /\ o.winner < q

\* With one player left that player wins, with none nobody does.
LEMMA ShortageJustified ==
    ASSUME NEW st, NEW mo, NEW ow, MaybeEndForInsufficientPlayers(st).phase = "ended"
    PROVE  Justified(MaybeEndForInsufficientPlayers(st), st, mo, ow)
<1> DEFINE n == Cardinality(Active(st))
           o == MaybeEndForInsufficientPlayers(st)
<1>1. Active(st) \subseteq Seats /\ IsFiniteSet(Active(st)) /\ n \in Nat
  BY SeatSets DEF Active
<1>2. ~(n >= 2)
  BY DEF MaybeEndForInsufficientPlayers, Playing
<1>3. CASE n = 1
  <2>1. o = Ended(Min(Active(st)), "last_standing")
    BY <1>3 DEF MaybeEndForInsufficientPlayers
  <2>2. PICK x : Active(st) = {x}
    BY <1>1, <1>3, FS_Singleton
  <2>3. Min(Active(st)) \in Active(st)
    BY <1>1, <2>2, MinSeat
  <2>4. Active(st) = {Min(Active(st))}
    BY <2>2, <2>3
  <2>5. o.reason = "last_standing" /\ o.winner = Min(Active(st))
    BY <2>1 DEF Ended
  <2> HIDE DEF o
  <2>6. Justified(o, st, mo, ow)
    BY <2>4, <2>5 DEF Justified
  <2> QED BY <2>6 DEF o
<1>4. CASE n = 0
  <2>1. o = Ended(NoSeat, "insufficient_players")
    BY <1>4 DEF MaybeEndForInsufficientPlayers
  <2>2. Active(st) = {}
    BY <1>1, <1>4, SeatSets
  <2>3. o.reason = "insufficient_players" /\ o.winner = NoSeat
    BY <2>1 DEF Ended
  <2> HIDE DEF o
  <2>4. Justified(o, st, mo, ow)
    BY <2>2, <2>3 DEF Justified
  <2> QED BY <2>4 DEF o
<1> QED BY <1>1, <1>2, <1>3, <1>4

\* Whatever ends the match on a board action, the winner is justified on the
\* board that was evaluated, and the round limit does not let it go on.
LEMMA EvaluationJustified ==
    ASSUME NEW st, NEW mo \in [Seats -> Int], NEW ow, NEW r
    PROVE  LET o == EvaluateMatchEnd(st, mo, ow, r)
           IN  /\ o.phase = "ended" => Justified(o, st, mo, ow)
               /\ o.phase = "playing" /\ Victory = "round_limit" => ~(r > RoundLimit)
<1> DEFINE o == EvaluateMatchEnd(st, mo, ow, r)
           w == RichestActive(st, mo, ow)
<1>1. Active(st) \subseteq Seats /\ Cardinality(Active(st)) \in Nat
  BY SeatSets DEF Active
<1>2. CASE Cardinality(Active(st)) < 2
  <2>1. o = MaybeEndForInsufficientPlayers(st)
    BY <1>1, <1>2 DEF EvaluateMatchEnd
  <2>2. o.phase = "playing" => Cardinality(Active(st)) >= 2
    BY <2>1, ShortageFacts
  <2> HIDE DEF o
  <2> QED BY <1>1, <1>2, <2>1, <2>2, ShortageJustified DEF o
<1>3. CASE Cardinality(Active(st)) >= 2
  <2>1. \/ o = Ended(w, "target_wealth")
        \/ o = Ended(w, "round_limit")
        \/ o = Playing /\ (Victory = "round_limit" => ~(r > RoundLimit))
    BY <1>1, <1>3 DEF EvaluateMatchEnd
  <2>2. Active(st) # {}
    BY <1>1, <1>3, SeatSets
  <2>3. /\ w \in Active(st)
        /\ \A q \in Active(st) \ {w} :
              \/ NetWorth(mo, ow, q) < NetWorth(mo, ow, w)
              \/ NetWorth(mo, ow, q) = NetWorth(mo, ow, w) /\ w < q
    BY <2>2, RichestFacts
  <2> HIDE DEF o, w
  <2>4. ASSUME NEW why \in {"target_wealth", "round_limit"}, o = Ended(w, why)
        PROVE  o.phase = "ended" /\ Justified(o, st, mo, ow)
    <3>1. o.phase = "ended" /\ o.winner = w /\ o.reason = why
      BY <2>4 DEF Ended
    <3> QED BY <2>3, <3>1 DEF Justified
  <2>5. ASSUME o = Playing PROVE o.phase = "playing"
    BY <2>5 DEF Playing
  <2> QED BY <2>1, <2>4, <2>5 DEF o
<1> QED BY <1>1, <1>2, <1>3

\* Passing the turn, when two players are left, reaches an active player.
LEMMA PassTurnFacts ==
    ASSUME NEW st, NEW from \in Seats, turn.round \in Nat
    PROVE  /\ PassTurn(st, from) \in Turns
           /\ PassTurn(st, from).phase = "await_roll"
           /\ PassTurn(st, from).streak = 0
           /\ PassTurn(st, from).extra = FALSE
           /\ Active(st) # {} => st[PassTurn(st, from).seat] = "active"
<1> DEFINE above == {p \in Active(st) : p > from}
           t     == PassTurn(st, from)
<1>1. above \subseteq Seats /\ Active(st) \subseteq Seats
  BY DEF Active
<1>2. \E s \in Seats, r \in Nat : t = NewTurn(s, r) /\ (Active(st) # {} => st[s] = "active")
  <2>1. CASE above # {}
    <3>1. Min(above) \in Seats /\ st[Min(above)] = "active"
      BY <1>1, <2>1, MinSeat DEF Active
    <3>2. t = NewTurn(Min(above), turn.round)
      BY <2>1 DEF PassTurn
    <3> QED BY <3>1, <3>2
  <2>2. CASE above = {} /\ Active(st) # {}
    <3>1. Min(Active(st)) \in Seats /\ st[Min(Active(st))] = "active"
      BY <1>1, <2>2, MinSeat DEF Active
    <3>2. t = NewTurn(Min(Active(st)), turn.round + 1)
      BY <2>2 DEF PassTurn
    <3>3. turn.round + 1 \in Nat
      OBVIOUS
    <3> QED BY <3>1, <3>2, <3>3
  <2>3. CASE Active(st) = {}
    <3>1. t = NewTurn(from, turn.round)
      BY <2>3 DEF PassTurn
    <3> QED BY <2>3, <3>1
  <2> QED BY <2>1, <2>2, <2>3
<1>3. PICK s \in Seats, r \in Nat : t = NewTurn(s, r) /\ (Active(st) # {} => st[s] = "active")
  BY <1>2
<1>4. /\ NewTurn(s, r) \in Turns /\ NewTurn(s, r).phase = "await_roll"
      /\ NewTurn(s, r).streak = 0 /\ NewTurn(s, r).extra = FALSE
      /\ NewTurn(s, r).seat = s
  BY DEF NewTurn, Turns
<1> QED BY <1>3, <1>4

-----------------------------------------------------------------------------
(* The events of a transition are well formed. *)

\* What the proofs use of sequences of events.
LEMMA Logs ==
    ASSUME NEW S
    PROVE  /\ <<>> \in Seq(S)
           /\ \A e \in S : <<e>> \in Seq(S)
           /\ \A e, f \in S : <<e, f>> \in Seq(S)
           /\ \A s \in Seq(S), e \in S : Append(s, e) \in Seq(S)
           /\ \A s, t \in Seq(S) : s \o t \in Seq(S)
OBVIOUS

\* The closing event names a seat or nobody, and a known reason.
LEMMA EndEventsType == ASSUME NEW o \in Outcomes PROVE EndEvents(o) \in Seq(Event)
<1> DEFINE e == [type |-> "game_ended", winner |-> o.winner, reason |-> o.reason]
<1>1. e \in [type : {"game_ended"}, winner : Seats \cup {NoSeat}, reason : Reasons]
  BY DEF Outcomes
<1>2. e \in Event
  BY <1>1 DEF Event
<1> HIDE DEF e
<1>3. <<e>> \in Seq(Event) /\ <<>> \in Seq(Event)
  BY <1>2, Logs
<1> QED BY <1>3 DEF EndEvents, e

\* The event of a passed turn names its seat and round.
LEMMA TurnAdvancedType == ASSUME NEW t \in Turns PROVE TurnAdvanced(t) \in Event
<1>1. TurnAdvanced(t) \in [type : {"turn_advanced"}, seat : Seats, round : Nat]
  BY DEF TurnAdvanced, Turns
<1> QED BY <1>1 DEF Event

\* Transfers between a player and the bank.
LEMMA MoneyEventTypes ==
    ASSUME NEW p \in Seats, NEW n \in Int
    PROVE  ToPlayer(p, n) \in Event /\ ToBank(p, n) \in Event
<1>1. /\ ToPlayer(p, n) \in [type : {"bank_transfer"}, player : Seats, amount : Int, direction : {"to_player", "to_bank"}]
      /\ ToBank(p, n) \in [type : {"bank_transfer"}, player : Seats, amount : Int, direction : {"to_player", "to_bank"}]
  BY DEF ToPlayer, ToBank
<1> QED BY <1>1 DEF Event

\* The two events of an elimination.
LEMMA BankruptedType ==
    ASSUME NEW p \in Seats, NEW cause \in Causes
    PROVE  Bankrupted(p, cause) \in Seq(Event)
<1> DEFINE e == [type |-> "player_bankrupt", player |-> p, cause |-> cause,
                 released |-> {s \in Spaces : owner[s] = p}]
           f == [type |-> "player_eliminated", player |-> p, cause |-> cause]
<1>1. /\ e \in [type : {"player_bankrupt"}, player : Seats, cause : Causes, released : SUBSET Spaces]
      /\ f \in [type : {"player_eliminated"}, player : Seats, cause : Causes]
  OBVIOUS
<1>2. e \in Event /\ f \in Event
  BY <1>1 DEF Event
<1> HIDE DEF e, f
<1>3. <<e, f>> \in Seq(Event)
  BY <1>2, Logs
<1> QED BY <1>3 DEF Bankrupted, e, f

\* The events of a throw: the move, and the bonus if go was crossed.
LEMMA MoveEventsType ==
    ASSUME NEW p \in Seats, position[p] \in Spaces, NEW d \in Dice
    PROVE  MoveEvents(p, d) \in Seq(Event)
<1> DEFINE e == [type |-> "dice_rolled", player |-> p, to |-> Target(p, d)]
           f == ToPlayer(p, PassingGoBonus * Passes(p, d))
<1>1. e \in [type : {"dice_rolled"}, player : Seats, to : Spaces]
  BY ThrowFacts
<1>2. e \in Event
  BY <1>1 DEF Event
<1>3. f \in Event
  BY ThrowFacts, MoneyEventTypes
<1> HIDE DEF e, f
<1>4. <<e>> \in Seq(Event) /\ <<f>> \in Seq(Event) /\ <<>> \in Seq(Event)
  BY <1>2, <1>3, Logs
<1>5. <<e>> \o (IF Passes(p, d) > 0 THEN <<f>> ELSE <<>>) \in Seq(Event)
  BY <1>4, Logs
<1> QED BY <1>5 DEF MoveEvents, e, f

-----------------------------------------------------------------------------
(* Every board action ends in Settle. *)

\* Settle installs the board it is given and leaves a match that is playing
\* with two active players, or ended.
LEMMA SettleFacts ==
    ASSUME NEW st, NEW mo, NEW ow, NEW tn, NEW evs \in Seq(Event),
           Settle(st, mo, ow, tn, evs)
    PROVE  /\ status' = st /\ money' = mo /\ owner' = ow /\ turn' = tn
           /\ ready' = ready /\ isHost' = isHost
           /\ phase' \in {"playing", "ended"}
           /\ phase' = "playing" => Cardinality(Active(st)) >= 2
           /\ winner' \in Seats \cup {NoSeat}
           /\ endReason' \in Reasons
           /\ events' \in Seq(Event)
<1> DEFINE o == EvaluateMatchEnd(st, mo, ow, tn.round)
<1>1. o \in Outcomes /\ (o.phase = "playing" => Cardinality(Active(st)) >= 2)
  BY OutcomeFacts
<1>2. EndEvents(o) \in Seq(Event)
  BY <1>1, EndEventsType
<1>3. /\ status' = st /\ money' = mo /\ owner' = ow /\ turn' = tn
      /\ ready' = ready /\ isHost' = isHost
      /\ phase' = o.phase /\ winner' = o.winner /\ endReason' = o.reason
      /\ events' = evs \o EndEvents(o)
  BY DEF Settle, Conclude
<1> HIDE DEF o
<1>4. events' \in Seq(Event)
  BY <1>2, <1>3, Logs
<1> QED BY <1>1, <1>3, <1>4 DEF Outcomes

\* A board action preserves the invariant when the board it installs is
\* solvent and consistent, and the turn it leaves is playable on that board.
LEMMA BoardStep ==
    ASSUME NEW st \in [Seats -> Statuses], NEW mo \in [Seats -> Int],
           NEW ow \in [Spaces -> Seats \cup {NoSeat}], NEW tn \in Turns,
           NEW evs \in Seq(Event),
           IInv, Settle(st, mo, ow, tn, evs),
           position' \in [Seats -> Spaces], rolls' \in Nat, rolls' <= RollLimit,
           \A q \in Seats : mo[q] >= 0,
           \A s \in Spaces : ow[s] # NoSeat => Board[s].kind = "property" /\ st[ow[s]] = "active",
           Cardinality(Active(st)) >= 2 =>
              /\ st[tn.seat] = "active"
              /\ tn.phase # "none"
              /\ tn.phase = "await_buy_decision" =>
                    /\ Board[position'[tn.seat]].kind = "property"
                    /\ ow[position'[tn.seat]] = NoSeat
                    /\ mo[tn.seat] >= Board[position'[tn.seat]].price
              /\ tn.phase = "await_roll" \/ tn.extra => rolls' = tn.streak /\ rolls' < RollLimit
    PROVE  IInv'
<1>1. /\ status' = st /\ money' = mo /\ owner' = ow /\ turn' = tn
      /\ ready' = ready /\ isHost' = isHost
      /\ phase' \in {"playing", "ended"}
      /\ phase' = "playing" => Cardinality(Active(st)) >= 2
      /\ winner' \in Seats \cup {NoSeat}
      /\ endReason' \in Reasons
      /\ events' \in Seq(Event)
  BY SettleFacts
<1>2. TypeOK'
  BY <1>1 DEF IInv, TypeOK, Statuses, Turns
<1>3. Solvent' /\ HoldingsAreActive'
  BY <1>1 DEF Solvent, HoldingsAreActive
<1>4. TurnInv'
  BY <1>1 DEF TurnInv
<1>5. LobbyInv' /\ OneHost'
  BY <1>1 DEF LobbyInv, OneHost
<1>6. RollInv'
  BY <1>1 DEF RollInv, RollsBounded, RollLimit
<1> QED BY <1>2, <1>3, <1>4, <1>5, <1>6 DEF IInv

-----------------------------------------------------------------------------
(* The lobby. *)

\* An empty lobby.
LEMMA InitIInv == Init => IInv
<1> SUFFICES ASSUME Init PROVE IInv
  OBVIOUS
<1>1. 0 \in Seats /\ 0 \in Spaces
  BY BoardFacts, ConfigAssumption DEF Seats, ValidConfig
<1>2. TypeOK
  BY <1>1, Logs DEF Init, TypeOK, Reasons
<1>3. Solvent /\ HoldingsAreActive /\ TurnInv /\ LobbyInv
  BY DEF Init, Solvent, HoldingsAreActive, TurnInv, LobbyInv
<1>4. OneHost
  BY DEF Init, OneHost, Present
<1>5. RollInv
  BY ConfigAssumption DEF Init, RollInv, RollsBounded, ValidConfig
<1> QED BY <1>2, <1>3, <1>4, <1>5 DEF IInv

\* While the lobby has room there is a free seat, and NextSeat is one.
LEMMA NextSeatIsFree ==
    ASSUME TypeOK, Cardinality(Present(status)) < MaxPlayers
    PROVE  NextSeat \in Seats /\ status[NextSeat] = "absent"
<1>1. Cardinality(Seats) = MaxPlayers
  BY FS_Interval, ConfigAssumption DEF Seats, ValidConfig
<1>2. Cardinality(Present(status)) \in Nat /\ MaxPlayers \in Nat
  BY SeatSets, ConfigAssumption DEF Present, ValidConfig
<1>3. Present(status) # Seats
  BY <1>1, <1>2
<1>4. Seats \ Present(status) # {}
  BY <1>3 DEF Present
<1>5. NextSeat \in Seats \ Present(status)
  BY <1>4, MinSeat DEF NextSeat
<1> QED BY <1>5 DEF Present

\* A joiner takes a free seat, and is host exactly when the lobby was empty.
LEMMA JoinStep == ASSUME IInv, Join PROVE IInv'
<1> DEFINE p == NextSeat
<1>1. p \in Seats /\ status[p] = "absent"
  BY NextSeatIsFree DEF IInv, Join
<1>2. /\ phase = "lobby" /\ phase' = phase /\ owner' = owner /\ turn' = turn
      /\ winner' = winner /\ endReason' = endReason /\ rolls' = rolls
      /\ status' = [status EXCEPT ![p] = "active"]
      /\ money' = [money EXCEPT ![p] = StartingMoney]
      /\ isHost' = [isHost EXCEPT ![p] = Present(status) = {}]
      /\ ready' = [ready EXCEPT ![p] = FALSE]
      /\ position' = [position EXCEPT ![p] = 0]
      /\ events' = <<[type |-> "player_joined", player |-> p, amount |-> StartingMoney]>>
  BY DEF Join
<1> HIDE DEF p
<1>3. StartingMoney \in Int /\ StartingMoney >= 0 /\ 0 \in Spaces
  BY BoardFacts, ConfigAssumption DEF ValidConfig
<1>4. events' \in Seq(Event)
  <2> DEFINE e == [type |-> "player_joined", player |-> p, amount |-> StartingMoney]
  <2>1. e \in Event
    BY <1>1, <1>3 DEF Event
  <2> QED BY <1>2, <2>1, Logs
<1>5. TypeOK'
  BY <1>1, <1>2, <1>3, <1>4 DEF IInv, TypeOK
<1>6. Solvent' /\ HoldingsAreActive' /\ TurnInv' /\ LobbyInv'
  <2>1. Solvent' BY <1>1, <1>2, <1>3 DEF IInv, TypeOK, Solvent
  <2>2. LobbyInv' BY <1>1, <1>2 DEF IInv, TypeOK, LobbyInv
  <2> QED BY <1>2, <2>1, <2>2 DEF HoldingsAreActive, LobbyInv, TurnInv
<1>7. OneHost'
  <2>1. CASE Present(status) = {}
    <3>1. \A q \in Seats : ~isHost[q]
      BY <1>2, <2>1 DEF IInv, LobbyInv, Present
    <3>2. {q \in Seats : isHost'[q]} = {p}
      BY <1>1, <1>2, <2>1, <3>1 DEF IInv, TypeOK
    <3>3. p \in Present(status')
      BY <1>1, <1>2 DEF IInv, TypeOK, Present
    <3> QED BY <3>2, <3>3 DEF OneHost
  <2>2. CASE Present(status) # {}
    <3>1. PICK h \in Present(status) : {q \in Seats : isHost[q]} = {h}
      BY <1>2, <2>2 DEF IInv, OneHost
    <3>2. {q \in Seats : isHost'[q]} = {h}
      BY <1>1, <1>2, <2>2, <3>1 DEF IInv, TypeOK, Present
    <3>3. h \in Present(status')
      BY <1>1, <1>2, <3>1 DEF IInv, TypeOK, Present
    <3> QED BY <3>2, <3>3 DEF OneHost
  <2> QED BY <2>1, <2>2
<1>8. RollInv'
  BY <1>2 DEF IInv, RollInv, RollsBounded
<1> QED BY <1>5, <1>6, <1>7, <1>8 DEF IInv

\* The host's seat goes to the lowest remaining seat, if there is one.
LEMMA LeaveLobbyStep == ASSUME IInv, NEW p \in Seats, LeaveLobby(p) PROVE IInv'
<1> DEFINE rest == Present(status) \ {p}
<1>1. /\ phase = "lobby" /\ phase' = phase /\ owner' = owner /\ turn' = turn
      /\ winner' = winner /\ endReason' = endReason /\ rolls' = rolls
      /\ status[p] # "absent"
      /\ status' = [status EXCEPT ![p] = "absent"]
      /\ money' = [money EXCEPT ![p] = 0]
      /\ ready' = [ready EXCEPT ![p] = FALSE]
      /\ position' = [position EXCEPT ![p] = 0]
      /\ events' = <<[type |-> "player_left", player |-> p]>>
      /\ isHost' = [q \in Seats |->
            IF q = p THEN FALSE
            ELSE isHost[q] \/ (isHost[p] /\ rest # {} /\ q = Min(rest))]
  BY DEF LeaveLobby
<1>2. events' \in Seq(Event)
  <2> DEFINE e == [type |-> "player_left", player |-> p]
  <2>1. e \in Event
    BY DEF Event
  <2> QED BY <1>1, <2>1, Logs
<1>3. rest \subseteq Seats /\ Present(status') = rest
  BY <1>1 DEF IInv, TypeOK, Present
<1>4. rest # {} => Min(rest) \in rest
  BY <1>3, MinSeat
<1>5. PICK h \in Present(status) : {q \in Seats : isHost[q]} = {h}
  BY <1>1 DEF IInv, OneHost, Present
<1>6. isHost' \in [Seats -> BOOLEAN]
  BY <1>1, Zenon DEF IInv, TypeOK
<1>7. TypeOK'
  <2>1. 0 \in Spaces BY BoardFacts
  <2> HIDE DEF rest
  <2>2. /\ status' \in [Seats -> {"absent", "active", "eliminated"}]
        /\ money' \in [Seats -> Int]
        /\ ready' \in [Seats -> BOOLEAN]
        /\ position' \in [Seats -> Spaces]
    BY <1>1, <2>1 DEF IInv, TypeOK
  <2> QED BY <1>1, <1>2, <1>6, <2>2 DEF IInv, TypeOK
<1>8. \A q \in Seats : isHost'[q] => q \in rest
  BY <1>1, <1>4 DEF IInv, LobbyInv, Present
<1>9. Solvent' /\ HoldingsAreActive' /\ TurnInv' /\ LobbyInv'
  <2>1. Solvent' BY <1>1 DEF IInv, TypeOK, Solvent
  <2>2. LobbyInv' BY <1>1, <1>3, <1>8 DEF IInv, TypeOK, LobbyInv, Present
  <2> QED BY <1>1, <2>1, <2>2 DEF HoldingsAreActive, LobbyInv, TurnInv
<1>10. OneHost'
  <2>1. CASE h # p
    <3>1. {q \in Seats : isHost'[q]} = {h}
      BY <1>1, <1>5, <2>1
    <3> QED BY <1>3, <1>5, <2>1, <3>1 DEF OneHost
  <2>2. CASE h = p /\ rest # {}
    <3>1. {q \in Seats : isHost'[q]} = {Min(rest)}
      BY <1>1, <1>3, <1>4, <1>5, <2>2
    <3> QED BY <1>3, <1>4, <2>2, <3>1 DEF OneHost
  <2>3. CASE rest = {}
    BY <1>3, <2>3 DEF OneHost
  <2> QED BY <2>1, <2>2, <2>3
<1>11. RollInv'
  BY <1>1 DEF IInv, RollInv, RollsBounded
<1> QED BY <1>7, <1>9, <1>10, <1>11 DEF IInv

\* A toggle changes the ready flag only.
LEMMA ReadyStep == ASSUME IInv, NEW p \in Seats, Ready(p) PROVE IInv'
<1>1. events' \in Seq(Event)
  <2> DEFINE e == [type |-> "player_ready_changed", player |-> p, ready |-> ~ready[p]]
  <2>1. (~ready[p]) \in BOOLEAN
    OBVIOUS
  <2>2. e \in Event
    BY <2>1 DEF Event
  <2> HIDE DEF e
  <2>3. events' = <<e>>
    BY DEF Ready, e
  <2> QED BY <2>2, <2>3, Logs
<1>2. TypeOK'
  BY <1>1 DEF IInv, TypeOK, Ready
<1>3. Solvent' /\ HoldingsAreActive' /\ TurnInv' /\ LobbyInv'
  BY DEF IInv, Ready, Solvent, HoldingsAreActive, TurnInv, LobbyInv
<1>4. OneHost' /\ RollInv'
  BY DEF IInv, Ready, OneHost, RollInv, RollsBounded
<1> QED BY <1>2, <1>3, <1>4 DEF IInv

\* A match starts with at least MinPlayers, hence two, active players.
LEMMA StartStep == ASSUME IInv, NEW p \in Seats, Start(p) PROVE IInv'
<1> DEFINE m == Min(Active(status))
<1>1. MinPlayers \in Nat /\ MaxPlayers \in Nat /\ MinPlayers >= 2
  BY ConfigAssumption DEF ValidConfig
<1>2. Cardinality(Active(status)) >= 2
  BY <1>1 DEF Start, CanStart
<1>3. m \in Seats /\ status[m] = "active"
  BY <1>2, FirstActive, SeatSets DEF Active
<1>4. /\ phase = "lobby" /\ phase' = "playing"
      /\ turn' = NewTurn(m, 1)
      /\ events' = <<[type |-> "game_started"]>>
      /\ UNCHANGED <<status, money, ready, isHost, position, owner, winner, endReason, rolls>>
  BY DEF Start, CanStart
<1>5. /\ turn' \in Turns /\ turn'.seat = m /\ turn'.phase = "await_roll"
      /\ turn'.streak = 0 /\ turn'.extra = FALSE
  BY <1>3, <1>4 DEF NewTurn, Turns
<1> HIDE DEF m
<1>6. events' \in Seq(Event)
  <2> DEFINE e == [type |-> "game_started"]
  <2>1. e \in Event
    BY DEF Event
  <2> QED BY <1>4, <2>1, Logs
<1>7. TypeOK'
  BY <1>4, <1>5, <1>6 DEF IInv, TypeOK, Turns
<1>8. Solvent' /\ HoldingsAreActive' /\ LobbyInv' /\ OneHost'
  BY <1>4 DEF IInv, Solvent, HoldingsAreActive, LobbyInv, OneHost
<1>9. TurnInv'
  BY <1>2, <1>3, <1>4, <1>5 DEF TurnInv
<1>10. RollInv'
  <2>1. rolls' = 0 /\ RollLimit \in Nat /\ 0 < RollLimit
    BY <1>4, ConfigAssumption DEF IInv, LobbyInv, RollLimit, ValidConfig
  <2> QED BY <1>5, <2>1 DEF RollInv, RollsBounded, RollLimit
<1> QED BY <1>7, <1>8, <1>9, <1>10 DEF IInv

-----------------------------------------------------------------------------
(* Playing. *)

\* Validate leaves room for at least one throw.
LEMMA RollLimitFacts == RollLimit \in Nat /\ 0 < RollLimit
BY ConfigAssumption DEF RollLimit, ValidConfig

\* Whoever goes out takes nothing with them.
LEMMA ReleasedFacts ==
    ASSUME IInv, NEW p \in Seats
    PROVE  /\ Released(p) \in [Spaces -> Seats \cup {NoSeat}]
           /\ \A s \in Spaces : owner[s] = NoSeat => Released(p)[s] = NoSeat
           /\ \A s \in Spaces : Released(p)[s] # NoSeat =>
                 /\ Released(p)[s] = owner[s] /\ owner[s] # p
                 /\ Board[s].kind = "property"
                 /\ status[owner[s]] = "active"
BY DEF IInv, TypeOK, HoldingsAreActive, Released

\* Leaving a running match: holdings are released, and the turn moves on if
\* it was the leaver's and the match continues.
LEMMA LeaveMatchStep == ASSUME IInv, NEW p \in Seats, LeaveMatch(p) PROVE IInv'
<1> DEFINE wasActive == status[p] = "active"
           st == [status EXCEPT ![p] = "eliminated"]
           o  == MaybeEndForInsufficientPlayers(st)
           passes == o.phase = "playing" /\ turn.seat = p
           tn == IF passes THEN PassTurn(st, p) ELSE turn
           e  == [type |-> "player_left", player |-> p]
<1>1. /\ phase = "playing" /\ status[p] # "absent"
      /\ status' = st
      /\ owner' = IF wasActive THEN Released(p) ELSE owner
      /\ turn' = tn
      /\ rolls' = IF passes THEN 0 ELSE rolls
      /\ phase' = o.phase /\ winner' = o.winner /\ endReason' = o.reason
      /\ events' = <<e>> \o (IF wasActive THEN Bankrupted(p, "voluntary_leave") ELSE <<>>)
                   \o EndEvents(o)
                   \o (IF passes THEN <<TurnAdvanced(tn)>> ELSE <<>>)
      /\ UNCHANGED <<money, ready, isHost, position>>
  BY DEF LeaveMatch, Conclude
<1>2. /\ o \in Outcomes
      /\ o.phase = "playing" => Cardinality(Active(st)) >= 2
  BY ShortageFacts
<1>3. turn.round \in Nat /\ turn \in Turns
  BY DEF IInv, TypeOK, Turns
<1>4. tn \in Turns
  BY <1>3, PassTurnFacts
<1>5. Active(st) \subseteq Seats /\ (Cardinality(Active(st)) >= 2 => Active(st) # {})
  <2>1. Active(st) \subseteq Seats
    BY DEF Active
  <2>2. Cardinality({}) = 0
    BY FS_EmptySet
  <2> HIDE DEF st
  <2> QED BY <2>1, <2>2
<1>6. passes => /\ st[tn.seat] = "active" /\ tn.phase = "await_roll"
                /\ tn.streak = 0 /\ tn.extra = FALSE
  BY <1>2, <1>3, <1>5, PassTurnFacts
<1>7. events' \in Seq(Event)
  <2>1. e \in Event
    BY DEF Event
  <2>2. Bankrupted(p, "voluntary_leave") \in Seq(Event)
    BY BankruptedType DEF Causes
  <2>3. EndEvents(o) \in Seq(Event)
    BY <1>2, EndEventsType
  <2>4. TurnAdvanced(tn) \in Event
    BY <1>4, TurnAdvancedType
  <2> HIDE DEF e, o, tn, wasActive, passes
  <2>5. <<e>> \in Seq(Event) /\ <<TurnAdvanced(tn)>> \in Seq(Event) /\ <<>> \in Seq(Event)
    BY <2>1, <2>4, Logs
  <2> DEFINE b == IF wasActive THEN Bankrupted(p, "voluntary_leave") ELSE <<>>
             t == IF passes THEN <<TurnAdvanced(tn)>> ELSE <<>>
  <2>6. b \in Seq(Event) /\ t \in Seq(Event) /\ events' = <<e>> \o b \o EndEvents(o) \o t
    BY <1>1, <2>2, <2>5
  <2> HIDE DEF b, t
  <2>7. <<e>> \o b \in Seq(Event)
    BY <2>5, <2>6, Logs
  <2>8. <<e>> \o b \o EndEvents(o) \in Seq(Event)
    BY <2>3, <2>7, Logs
  <2> QED BY <2>6, <2>8, Logs
<1>8. st \in [Seats -> Statuses] /\ st[p] = "eliminated" /\ \A q \in Seats \ {p} : st[q] = status[q]
  BY DEF IInv, TypeOK, Statuses
<1> HIDE DEF st, o, tn, wasActive, passes, e
<1>9. owner' \in [Spaces -> Seats \cup {NoSeat}]
  BY <1>1, ReleasedFacts DEF IInv, TypeOK
<1>10. TypeOK'
  BY <1>1, <1>2, <1>4, <1>7, <1>8, <1>9 DEF IInv, TypeOK, Statuses, Turns, Outcomes
<1>11. Solvent'
  BY <1>1 DEF IInv, Solvent
<1>12. HoldingsAreActive'
  <2> SUFFICES ASSUME NEW s \in Spaces, owner'[s] # NoSeat
               PROVE  Board[s].kind = "property" /\ st[owner'[s]] = "active"
    BY <1>1 DEF HoldingsAreActive
  <2>1. /\ owner'[s] = owner[s] /\ owner[s] # p
        /\ Board[s].kind = "property" /\ status[owner[s]] = "active"
    <3>1. CASE wasActive
      BY <1>1, <3>1, ReleasedFacts
    <3>2. CASE ~wasActive
      BY <1>1, <3>2 DEF IInv, HoldingsAreActive, wasActive
    <3> QED BY <3>1, <3>2
  <2>2. owner[s] \in Seats
    BY <2>1 DEF IInv, TypeOK
  <2> QED BY <1>8, <2>1, <2>2
<1>13. TurnInv'
  <2> SUFFICES ASSUME phase' = "playing" PROVE TurnInv'
    BY DEF TurnInv
  <2>1. Cardinality(Active(st)) >= 2
    BY <1>1, <1>2
  <2>2. CASE passes
    BY <1>1, <1>6, <2>1, <2>2 DEF TurnInv
  <2>3. CASE ~passes
    <3>1. turn.seat # p /\ turn' = turn /\ turn.seat \in Seats
      BY <1>1, <1>3, <2>3 DEF passes, tn, Turns
    <3>2. \A s \in Spaces : owner[s] = NoSeat => owner'[s] = NoSeat
      BY <1>1, ReleasedFacts
    <3>3. position[turn.seat] \in Spaces
      BY <3>1 DEF IInv, TypeOK
    <3> QED BY <1>1, <1>8, <2>1, <3>1, <3>2, <3>3 DEF IInv, TurnInv
  <2> QED BY <2>2, <2>3
<1>14. LobbyInv' /\ OneHost'
  BY <1>1, <1>2 DEF LobbyInv, OneHost, Outcomes
<1>15. RollInv'
  <2>1. CASE passes
    BY <1>1, <1>6, <2>1, RollLimitFacts DEF RollInv, RollsBounded, RollLimit
  <2>2. CASE ~passes
    BY <1>1, <2>2 DEF IInv, RollInv, RollsBounded, tn
  <2> QED BY <2>1, <2>2
<1> QED BY <1>10, <1>11, <1>12, <1>13, <1>14, <1>15 DEF IInv

\* A player with the turn passes the guards: what the invariant says of them.
LEMMA TurnFacts ==
    ASSUME IInv, NEW p \in Seats, NEW tp, RequireTurn(p, tp)
    PROVE  /\ phase = "playing" /\ turn.seat = p /\ turn.phase = tp /\ status[p] = "active"
           /\ Cardinality(Active(status)) >= 2
           /\ turn \in Turns /\ turn.round \in Nat /\ turn.streak \in Nat
           /\ status \in [Seats -> Statuses] /\ money \in [Seats -> Int]
           /\ owner \in [Spaces -> Seats \cup {NoSeat}]
           /\ position \in [Seats -> Spaces]
           /\ rolls \in Nat
BY DEF IInv, TypeOK, TurnInv, RequireTurn, Statuses, Turns

\* Ending a turn hands it to an active player, with no throw made.
LEMMA EndTurnStep == ASSUME IInv, NEW p \in Seats, EndTurn(p) PROVE IInv'
<1> DEFINE tn == PassTurn(status, p)
<1>1. RequireTurn(p, "turn_over")
  BY DEF EndTurn
<1>2. Settle(status, money, owner, tn, <<TurnAdvanced(tn)>>) /\ rolls' = 0 /\ position' = position
  BY DEF EndTurn
<1>3. Active(status) # {}
  BY <1>1, TurnFacts DEF Active
<1>4. /\ tn \in Turns /\ tn.phase = "await_roll" /\ tn.streak = 0 /\ tn.extra = FALSE
      /\ status[tn.seat] = "active"
  BY <1>1, <1>3, TurnFacts, PassTurnFacts
<1> HIDE DEF tn
<1>5. <<TurnAdvanced(tn)>> \in Seq(Event)
  BY <1>4, TurnAdvancedType, Logs
<1>6. /\ \A q \in Seats : money[q] >= 0
      /\ \A s \in Spaces : owner[s] # NoSeat => Board[s].kind = "property" /\ status[owner[s]] = "active"
  BY DEF IInv, Solvent, HoldingsAreActive
<1>7. /\ status \in [Seats -> Statuses] /\ money \in [Seats -> Int]
      /\ owner \in [Spaces -> Seats \cup {NoSeat}]
      /\ position' \in [Seats -> Spaces] /\ rolls' \in Nat /\ rolls' <= RollLimit
  BY <1>1, <1>2, TurnFacts, RollLimitFacts
<1> QED BY <1>2, <1>4, <1>5, <1>6, <1>7, BoardStep, RollLimitFacts

\* A decision leaves the turn with its player, and a throw only if one is left.
LEMMA DecidedFacts ==
    ASSUME turn \in Turns
    PROVE  /\ Decided \in Turns /\ Decided.seat = turn.seat /\ Decided.extra = FALSE
           /\ Decided.phase \in {"await_roll", "turn_over"}
           /\ Decided.phase = "await_roll" => turn.extra /\ Decided.streak = turn.streak
BY DEF Decided, Turns

\* What holds before a decision, and of the turn after it.
LEMMA DecidingFacts ==
    ASSUME IInv, NEW p \in Seats, Deciding(p), position' = position, rolls' = rolls
    PROVE  /\ status[Decided.seat] = "active" /\ Decided.seat = p
           /\ Decided.phase \notin {"none", "await_buy_decision"}
           /\ Decided.phase = "await_roll" \/ Decided.extra =>
                 rolls' = Decided.streak /\ rolls' < RollLimit
           /\ Decided \in Turns
           /\ position' \in [Seats -> Spaces] /\ rolls' \in Nat /\ rolls' <= RollLimit
           /\ position[p] \in Spaces /\ Board[position[p]].kind = "property"
           /\ owner[position[p]] = NoSeat
<1>1. RequireTurn(p, "await_buy_decision")
  BY DEF Deciding
<1>2. /\ turn \in Turns /\ turn.seat = p /\ status[p] = "active" /\ phase = "playing"
      /\ position \in [Seats -> Spaces] /\ rolls \in Nat
  BY <1>1, TurnFacts
<1>3. turn.extra => rolls = turn.streak /\ rolls < RollLimit
  BY <1>2 DEF IInv, RollInv
<1>4. rolls <= RollLimit
  BY DEF IInv, RollInv, RollsBounded, RollLimit
<1> QED BY <1>2, <1>3, <1>4, DecidedFacts DEF Deciding

\* A purchase the player can afford, of a property nobody owns.
LEMMA BuyStep == ASSUME IInv, NEW p \in Seats, Buy(p) PROVE IInv'
<1> DEFINE s  == position[p]
           mo == [money EXCEPT ![p] = @ - Board[s].price]
           ow == [owner EXCEPT ![s] = p]
           e  == [type |-> "property_bought", player |-> p, space |-> s, amount |-> Board[s].price]
<1>1. /\ Deciding(p) /\ money[p] >= Board[s].price
      /\ Settle(status, mo, ow, Decided, <<e>>)
      /\ position' = position /\ rolls' = rolls
  BY DEF Buy
<1>2. RequireTurn(p, "await_buy_decision")
  BY <1>1 DEF Deciding
<1>3. /\ status \in [Seats -> Statuses] /\ money \in [Seats -> Int]
      /\ owner \in [Spaces -> Seats \cup {NoSeat}] /\ status[p] = "active"
  BY <1>2, TurnFacts
<1>4. s \in Spaces /\ Board[s].kind = "property" /\ Board[s].price \in Int
  BY <1>1, DecidingFacts, BoardFacts
<1> HIDE DEF s
<1>5. <<e>> \in Seq(Event)
  <2>1. e \in [type : {"property_bought"}, player : Seats, space : Spaces, amount : Int]
    BY <1>4
  <2>2. e \in Event
    BY <2>1 DEF Event
  <2> HIDE DEF e
  <2> QED BY <2>2, Logs
<1>6. mo \in [Seats -> Int] /\ \A q \in Seats : mo[q] >= 0
  BY <1>1, <1>3, <1>4 DEF IInv, Solvent
<1>7. /\ ow \in [Spaces -> Seats \cup {NoSeat}]
      /\ \A x \in Spaces : ow[x] # NoSeat => Board[x].kind = "property" /\ status[ow[x]] = "active"
  BY <1>3, <1>4 DEF IInv, HoldingsAreActive
<1> HIDE DEF mo, ow, e
<1> QED BY <1>1, <1>3, <1>5, <1>6, <1>7, DecidingFacts, BoardStep

\* Declining changes the turn only.
LEMMA DeclineStep == ASSUME IInv, NEW p \in Seats, Decline(p) PROVE IInv'
<1> DEFINE e == [type |-> "buy_declined", player |-> p]
<1>1. /\ Deciding(p) /\ Settle(status, money, owner, Decided, <<e>>)
      /\ position' = position /\ rolls' = rolls
  BY DEF Decline
<1>2. RequireTurn(p, "await_buy_decision")
  BY <1>1 DEF Deciding
<1>3. /\ status \in [Seats -> Statuses] /\ money \in [Seats -> Int]
      /\ owner \in [Spaces -> Seats \cup {NoSeat}]
  BY <1>2, TurnFacts
<1>4. <<e>> \in Seq(Event)
  <2>1. e \in Event
    BY DEF Event
  <2> QED BY <2>1, Logs
<1>5. /\ \A q \in Seats : money[q] >= 0
      /\ \A s \in Spaces : owner[s] # NoSeat => Board[s].kind = "property" /\ status[owner[s]] = "active"
  BY DEF IInv, Solvent, HoldingsAreActive
<1> HIDE DEF e
<1> QED BY <1>1, <1>3, <1>4, <1>5, DecidingFacts, BoardStep

\* The bonus for crossing go only adds to the mover's balance.
LEMMA BankedFacts ==
    ASSUME IInv, NEW p \in Seats, NEW d \in Dice
    PROVE  /\ Banked(p, d) \in [Seats -> Int]
           /\ \A q \in Seats : Banked(p, d)[q] >= 0
           /\ \A q \in Seats \ {p} : Banked(p, d)[q] = money[q]
<1>1. PassingGoBonus * Passes(p, d) \in Nat
  BY ThrowFacts DEF IInv, TypeOK
<1> QED BY <1>1 DEF IInv, TypeOK, Solvent, Banked

\* Another throw is only granted below the cap, and then every throw of the
\* turn, this one included, was counted in the streak.
LEMMA AfterRollFacts ==
    ASSUME IInv, NEW p \in Seats, RequireTurn(p, "await_roll"), NEW d \in Dice,
           NEW offered \in BOOLEAN
    PROVE  /\ AfterRoll(d, offered) \in Turns /\ AfterRoll(d, offered).seat = p
           /\ AfterRoll(d, offered).phase # "none"
           /\ AfterRoll(d, offered).phase = "await_buy_decision" => offered
           /\ AfterRoll(d, offered).phase = "await_roll" \/ AfterRoll(d, offered).extra =>
                 AfterRoll(d, offered).streak = rolls + 1 /\ rolls + 1 < RollLimit
           /\ rolls + 1 <= RollLimit
<1>1. /\ turn \in Turns /\ turn.seat = p /\ turn.phase = "await_roll" /\ phase = "playing"
      /\ rolls \in Nat
  BY TurnFacts
<1>2. rolls = turn.streak /\ rolls < RollLimit
  BY <1>1 DEF IInv, RollInv
<1>3. Extra(d) \in BOOLEAN /\ (Extra(d) => Streak(d) = rolls + 1 /\ Streak(d) < RollLimit)
  BY <1>2 DEF Extra, Streak, Doubles, RollLimit
<1>4. Streak(d) \in Nat
  BY <1>1, <1>2 DEF Streak
<1> DEFINE x == Extra(d)
           k == Streak(d)
<1> HIDE DEF x, k
<1>5. AfterRoll(d, offered) =
        [turn EXCEPT !.phase = IF offered THEN "await_buy_decision"
                               ELSE IF x THEN "await_roll" ELSE "turn_over",
                     !.streak = IF ~offered /\ ~x THEN 0 ELSE k,
                     !.extra = offered /\ x]
  <2>1. CASE offered
    BY <2>1 DEF AfterRoll, x, k
  <2>2. CASE ~offered /\ x
    BY <2>2 DEF AfterRoll, x, k
  <2>3. CASE ~offered /\ ~x
    BY <2>3 DEF AfterRoll, x, k
  <2> QED BY <2>1, <2>2, <2>3
<1>6. x \in BOOLEAN /\ k \in Nat /\ (x => k = rolls + 1 /\ k < RollLimit)
  BY <1>3, <1>4 DEF x, k
<1>7. rolls + 1 <= RollLimit
  BY <1>1, <1>2, RollLimitFacts
<1> DEFINE a == AfterRoll(d, offered)
<1>8. /\ a.seat = p /\ a.round = turn.round
      /\ a.phase = IF offered THEN "await_buy_decision"
                   ELSE IF x THEN "await_roll" ELSE "turn_over"
      /\ a.streak = IF ~offered /\ ~x THEN 0 ELSE k
      /\ a.extra = (offered /\ x)
  BY <1>1, <1>5, Zenon DEF Turns
<1>9. a \in Turns
  <2>1. (offered /\ x) \in BOOLEAN
    OBVIOUS
  <2>2. (IF ~offered /\ ~x THEN 0 ELSE k) \in Nat
    BY <1>6
  <2> QED BY <1>1, <1>5, <2>1, <2>2 DEF Turns
<1> HIDE DEF a
<1>10. /\ a.phase # "none"
       /\ a.phase = "await_buy_decision" => offered
       /\ a.phase = "await_roll" => x /\ a.streak = k
       /\ a.extra => x /\ a.streak = k
  BY <1>8
<1> QED BY <1>6, <1>7, <1>8, <1>9, <1>10 DEF a

\* What every landing starts from.
LEMMA RollFacts ==
    ASSUME IInv, NEW p \in Seats, NEW d \in Dice, RequireTurn(p, "await_roll"),
           position' = [position EXCEPT ![p] = Target(p, d)]
    PROVE  /\ Target(p, d) \in Spaces
           /\ position' \in [Seats -> Spaces] /\ position'[p] = Target(p, d)
           /\ MoveEvents(p, d) \in Seq(Event)
<1>1. position \in [Seats -> Spaces]
  BY TurnFacts
<1> QED BY <1>1, ThrowFacts, MoveEventsType

\* A roll that leaves its player solvent on a board with unchanged owners.
LEMMA SolventRoll ==
    ASSUME IInv, NEW p \in Seats, NEW d \in Dice, RequireTurn(p, "await_roll"),
           position' = [position EXCEPT ![p] = Target(p, d)], rolls' = rolls + 1,
           NEW mo \in [Seats -> Int], \A q \in Seats : mo[q] >= 0,
           NEW offered \in BOOLEAN, NEW evs \in Seq(Event),
           offered => /\ Board[Target(p, d)].kind = "property"
                      /\ owner[Target(p, d)] = NoSeat
                      /\ mo[p] >= Board[Target(p, d)].price,
           Settle(status, mo, owner, AfterRoll(d, offered), evs)
    PROVE  IInv'
<1> DEFINE tn == AfterRoll(d, offered)
<1>1. /\ tn \in Turns /\ tn.seat = p /\ tn.phase # "none"
      /\ tn.phase = "await_buy_decision" => offered
      /\ tn.phase = "await_roll" \/ tn.extra => tn.streak = rolls + 1 /\ rolls + 1 < RollLimit
      /\ rolls + 1 <= RollLimit
  BY AfterRollFacts
<1>2. /\ status \in [Seats -> Statuses] /\ status[p] = "active"
      /\ owner \in [Spaces -> Seats \cup {NoSeat}] /\ rolls \in Nat
  BY TurnFacts
<1>3. \A s \in Spaces : owner[s] # NoSeat => Board[s].kind = "property" /\ status[owner[s]] = "active"
  BY DEF IInv, HoldingsAreActive
<1>4. position' \in [Seats -> Spaces] /\ position'[p] = Target(p, d)
  BY RollFacts
<1>5. rolls' \in Nat
  BY <1>2
<1> HIDE DEF tn
<1>6. Settle(status, mo, owner, tn, evs)
  BY DEF tn
<1> QED BY <1>1, <1>2, <1>3, <1>4, <1>5, <1>6, BoardStep

\* Nothing is due; the space is offered only if the balance covers it.
LEMMA LandQuietlyStep ==
    ASSUME IInv, NEW p \in Seats, NEW d \in Dice, RequireTurn(p, "await_roll"),
           position' = [position EXCEPT ![p] = Target(p, d)], LandQuietly(p, d)
    PROVE  IInv'
<1>1. /\ Settle(status, Banked(p, d), owner, AfterRoll(d, Offered(p, d)), MoveEvents(p, d))
      /\ rolls' = rolls + 1
  BY DEF LandQuietly
<1>2. Offered(p, d) \in BOOLEAN
  BY DEF Offered
<1>3. Offered(p, d) => /\ Board[Target(p, d)].kind = "property"
                       /\ owner[Target(p, d)] = NoSeat
                       /\ Banked(p, d)[p] >= Board[Target(p, d)].price
  BY DEF Offered, Affords
<1> QED BY <1>1, <1>2, <1>3, BankedFacts, RollFacts, SolventRoll

\* A tax that the balance, bonus included, covers.
LEMMA PayTaxStep ==
    ASSUME IInv, NEW p \in Seats, NEW d \in Dice, RequireTurn(p, "await_roll"),
           position' = [position EXCEPT ![p] = Target(p, d)], PayTax(p, d)
    PROVE  IInv'
<1> DEFINE due == Board[Target(p, d)].amount
           mo  == [Banked(p, d) EXCEPT ![p] = @ - due]
           evs == Append(MoveEvents(p, d), ToBank(p, due))
<1>1. /\ Affords(p, d, due)
      /\ Settle(status, mo, owner, AfterRoll(d, FALSE), evs)
      /\ rolls' = rolls + 1
  BY DEF PayTax
<1>2. due \in Int
  BY RollFacts, BoardFacts
<1>3. evs \in Seq(Event)
  BY <1>2, RollFacts, MoneyEventTypes, Logs
<1> HIDE DEF due, evs
<1>4. mo \in [Seats -> Int] /\ \A q \in Seats : mo[q] >= 0
  BY <1>1, <1>2, BankedFacts DEF Affords
<1> HIDE DEF mo
<1> QED BY <1>1, <1>3, <1>4, SolventRoll

\* Rent moves from the mover to another seat, so the balances stay apart.
LEMMA PayRentStep ==
    ASSUME IInv, NEW p \in Seats, NEW d \in Dice, RequireTurn(p, "await_roll"),
           position' = [position EXCEPT ![p] = Target(p, d)], PayRent(p, d)
    PROVE  IInv'
<1> DEFINE s   == Target(p, d)
           due == Board[s].rent
           r   == owner[s]
           mo  == [Banked(p, d) EXCEPT ![p] = @ - due, ![r] = @ + due]
           e   == [type |-> "rent_paid", player |-> p, payee |-> r, amount |-> due]
           evs == Append(MoveEvents(p, d), e)
<1>1. /\ RentDue(p, s) /\ Affords(p, d, due)
      /\ Settle(status, mo, owner, AfterRoll(d, FALSE), evs)
      /\ rolls' = rolls + 1
  BY DEF PayRent
<1>2. s \in Spaces /\ Board[s].kind = "property"
  BY <1>1, RollFacts DEF RentDue
<1>3. due \in Int /\ due >= 0
  BY <1>2, BoardFacts
<1>4. r \in Seats \ {p}
  BY <1>1, <1>2 DEF RentDue, IInv, TypeOK
<1>5. evs \in Seq(Event)
  <2>1. e \in [type : {"rent_paid"}, player : Seats, payee : Seats, amount : Int]
    BY <1>3, <1>4
  <2>2. e \in Event
    BY <2>1 DEF Event
  <2> HIDE DEF e
  <2> QED BY <2>2, RollFacts, Logs
<1> HIDE DEF due, evs, r, s
<1>6. mo \in [Seats -> Int] /\ \A q \in Seats : mo[q] >= 0
  BY <1>1, <1>3, <1>4, BankedFacts DEF Affords
<1> HIDE DEF mo
<1> QED BY <1>1, <1>5, <1>6, SolventRoll

\* A payment the player cannot make: nothing is paid, holdings are released,
\* the turn moves on.
LEMMA GoBankruptStep ==
    ASSUME IInv, NEW p \in Seats, NEW d \in Dice, RequireTurn(p, "await_roll"),
           position' = [position EXCEPT ![p] = Target(p, d)], GoBankrupt(p, d)
    PROVE  IInv'
<1> DEFINE cause == IF Board[Target(p, d)].kind = "tax" THEN "bankruptcy_tax" ELSE "bankruptcy_rent"
           st    == [status EXCEPT ![p] = "eliminated"]
           tn    == IF Active(st) = {} THEN turn ELSE PassTurn(st, p)
           adv   == IF Active(st) = {} THEN <<>> ELSE <<TurnAdvanced(tn)>>
           evs   == MoveEvents(p, d) \o Bankrupted(p, cause) \o adv
<1>1. Settle(st, Banked(p, d), Released(p), tn, evs) /\ rolls' = 0
  BY DEF GoBankrupt
<1>2. status \in [Seats -> Statuses] /\ turn \in Turns /\ turn.round \in Nat
  BY TurnFacts
<1>3. /\ st \in [Seats -> Statuses] /\ \A q \in Seats \ {p} : st[q] = status[q]
  BY <1>2 DEF Statuses
<1>4. /\ tn \in Turns
      /\ Active(st) # {} => /\ st[tn.seat] = "active" /\ tn.phase = "await_roll"
                            /\ tn.streak = 0 /\ tn.extra = FALSE
  BY <1>2, PassTurnFacts
<1> HIDE DEF tn
<1>5. Cardinality({}) = 0
  BY FS_EmptySet
<1>6. evs \in Seq(Event)
  <2>1. adv \in Seq(Event)
    BY <1>4, TurnAdvancedType, Logs
  <2>2. Bankrupted(p, cause) \in Seq(Event)
    BY BankruptedType DEF Causes
  <2> HIDE DEF adv, cause
  <2>3. MoveEvents(p, d) \o Bankrupted(p, cause) \in Seq(Event)
    BY <2>2, RollFacts, Logs
  <2> QED BY <2>1, <2>3, Logs
<1>7. \A s \in Spaces : Released(p)[s] # NoSeat =>
         Board[s].kind = "property" /\ st[Released(p)[s]] = "active"
  <2> SUFFICES ASSUME NEW s \in Spaces, Released(p)[s] # NoSeat
               PROVE  Board[s].kind = "property" /\ st[Released(p)[s]] = "active"
    OBVIOUS
  <2>1. /\ Released(p)[s] = owner[s] /\ owner[s] # p
        /\ Board[s].kind = "property" /\ status[owner[s]] = "active"
    BY ReleasedFacts
  <2>2. owner[s] \in Seats
    BY <2>1 DEF IInv, TypeOK
  <2> QED BY <1>3, <2>1, <2>2
<1> HIDE DEF st, evs
<1>8. position' \in [Seats -> Spaces]
  BY RollFacts
<1>9. rolls' \in Nat /\ rolls' = 0 /\ rolls' <= RollLimit /\ rolls' < RollLimit
  BY <1>1, RollLimitFacts
<1>10. Cardinality(Active(st)) >= 2 =>
          /\ st[tn.seat] = "active" /\ tn.phase = "await_roll"
          /\ rolls' = tn.streak /\ tn.extra = FALSE
  BY <1>4, <1>5, <1>9
<1>11. /\ Banked(p, d) \in [Seats -> Int] /\ \A q \in Seats : Banked(p, d)[q] >= 0
       /\ Released(p) \in [Spaces -> Seats \cup {NoSeat}]
  BY BankedFacts, ReleasedFacts
<1> QED BY <1>1, <1>3, <1>4, <1>6, <1>7, <1>8, <1>9, <1>10, <1>11, BoardStep

\* A roll is one of the four landings.
LEMMA RollStep == ASSUME IInv, NEW p \in Seats, NEW d \in Dice, Roll(p, d) PROVE IInv'
BY LandQuietlyStep, PayTaxStep, PayRentStep, GoBankruptStep DEF Roll

\* Every step of the engine preserves the invariant.
LEMMA NextStep == ASSUME IInv, [Next]_vars PROVE IInv'
<1>1. CASE Next
  BY <1>1, JoinStep, LeaveLobbyStep, LeaveMatchStep, ReadyStep, StartStep,
     RollStep, BuyStep, DeclineStep, EndTurnStep
     DEF Next, Leave, TurnStep
<1>2. CASE UNCHANGED vars
  BY <1>2 DEF vars, IInv, TypeOK, Solvent, HoldingsAreActive, TurnInv, LobbyInv, OneHost,
              RollInv, RollsBounded
<1> QED BY <1>1, <1>2

-----------------------------------------------------------------------------
(* Steps. *)

\* An eliminated player's record is touched by no step of a running match.
LEMMA EliminatedUntouched ==
    ASSUME IInv, Next, NEW p \in Seats, status[p] = "eliminated"
    PROVE  status'[p] = "eliminated" /\ money'[p] = money[p]
<1>1. phase # "lobby"
  BY DEF IInv, LobbyInv
<1>2. /\ status \in [Seats -> Statuses] /\ money \in [Seats -> Int]
      /\ position \in [Seats -> Spaces]
      /\ owner \in [Spaces -> Seats \cup {NoSeat}]
  BY DEF IInv, TypeOK, Statuses
<1>3. ASSUME NEW q \in Seats, LeaveMatch(q) PROVE status'[p] = "eliminated" /\ money'[p] = money[p]
  BY <1>2, <1>3 DEF LeaveMatch, Statuses
<1>4. ASSUME NEW q \in Seats, NEW d \in Dice, Roll(q, d)
      PROVE  status'[p] = "eliminated" /\ money'[p] = money[p]
  <2>1. RequireTurn(q, "await_roll") /\ q # p
    BY <1>4 DEF Roll, RequireTurn
  <2>2. Banked(q, d)[p] = money[p] /\ Banked(q, d) \in [Seats -> Int]
    BY <2>1, BankedFacts
  <2>3. CASE LandQuietly(q, d)
    BY <2>2, <2>3 DEF LandQuietly, Settle
  <2>4. CASE PayTax(q, d)
    BY <2>1, <2>2, <2>4 DEF PayTax, Settle
  <2>5. CASE PayRent(q, d)
    BY <2>1, <2>2, <2>5 DEF PayRent, RentDue, Settle
  <2>6. CASE GoBankrupt(q, d)
    BY <1>2, <2>1, <2>2, <2>6 DEF GoBankrupt, Settle, Statuses
  <2> QED BY <1>4, <2>3, <2>4, <2>5, <2>6 DEF Roll
<1>5. ASSUME NEW q \in Seats, Buy(q) \/ Decline(q) \/ EndTurn(q)
      PROVE  status'[p] = "eliminated" /\ money'[p] = money[p]
  <2>1. CASE Buy(q)
    BY <1>2, <2>1 DEF Buy, Deciding, RequireTurn, Settle
  <2>2. CASE Decline(q)
    BY <2>2 DEF Decline, Settle
  <2>3. CASE EndTurn(q)
    BY <2>3 DEF EndTurn, Settle
  <2> QED BY <1>5, <2>1, <2>2, <2>3
<1> QED BY <1>1, <1>3, <1>4, <1>5
        DEF Next, Leave, TurnStep, Join, LeaveLobby, Ready, Start, CanStart

\* The turn only ever moves by being passed on from the seat that has it.
LEMMA TurnMovesByPassing ==
    ASSUME IInv, Next, phase = "playing", phase' = "playing", turn'.seat # turn.seat
    PROVE  turn' = PassTurn(status', turn.seat)
<1>1. turn \in Turns
  BY DEF IInv, TypeOK, Turns
<1>2. ASSUME NEW q \in Seats, LeaveMatch(q) PROVE turn' = PassTurn(status', turn.seat)
  BY <1>2 DEF LeaveMatch
<1>3. ASSUME NEW q \in Seats, NEW d \in Dice, Roll(q, d) PROVE turn' = PassTurn(status', turn.seat)
  <2>1. RequireTurn(q, "await_roll") /\ turn.seat = q
    BY <1>3 DEF Roll, RequireTurn
  <2>2. Offered(q, d) \in BOOLEAN
    BY DEF Offered
  <2>3. AfterRoll(d, Offered(q, d)).seat = q /\ AfterRoll(d, FALSE).seat = q
    BY <2>1, <2>2, AfterRollFacts
  <2>4. ~LandQuietly(q, d) /\ ~PayTax(q, d) /\ ~PayRent(q, d)
    <3>1. LandQuietly(q, d) => turn' = AfterRoll(d, Offered(q, d))
      BY DEF LandQuietly, Settle
    <3>2. PayTax(q, d) \/ PayRent(q, d) => turn' = AfterRoll(d, FALSE)
      BY DEF PayTax, PayRent, Settle
    <3>3. turn' # AfterRoll(d, Offered(q, d)) /\ turn' # AfterRoll(d, FALSE)
      BY <2>1, <2>3
    <3> QED BY <3>1, <3>2, <3>3
  <2>5. GoBankrupt(q, d)
    BY <1>3, <2>4 DEF Roll
  <2> QED BY <2>1, <2>5 DEF GoBankrupt, Settle
<1>4. ASSUME NEW q \in Seats, Buy(q) \/ Decline(q) PROVE FALSE
  <2>1. turn' = Decided
    BY <1>4 DEF Buy, Decline, Settle
  <2> QED BY <1>1, <2>1, DecidedFacts
<1>5. ASSUME NEW q \in Seats, EndTurn(q) PROVE turn' = PassTurn(status', turn.seat)
  BY <1>5 DEF EndTurn, RequireTurn, Settle
<1> QED BY <1>2, <1>3, <1>4, <1>5
        DEF Next, Leave, TurnStep, Join, LeaveLobby, Ready, Start, CanStart

\* Passing the turn reaches the next active seat, and counts a wrap.
LEMMA PassTurnOrder ==
    ASSUME NEW st, NEW from \in Seats, Active(st) # {}, NEW to, to = PassTurn(st, from).seat,
           to # from
    PROVE  /\ from < to => /\ (from + 1 .. to - 1) \cap Active(st) = {}
                           /\ PassTurn(st, from).round = turn.round
           /\ ~(from < to) => /\ ((from + 1 .. MaxPlayers - 1) \cup (0 .. to - 1)) \cap Active(st) = {}
                              /\ PassTurn(st, from).round = turn.round + 1
<1> DEFINE above == {p \in Active(st) : p > from}
<1>1. above \subseteq Seats /\ Active(st) \subseteq Seats /\ Seats \subseteq Int
  BY ConfigAssumption DEF Active, Seats, ValidConfig
<1>2. CASE above # {}
  <2>1. Min(above) \in above /\ \A y \in above : Min(above) <= y
    BY <1>1, <1>2, MinSeat
  <2>2. PassTurn(st, from) = NewTurn(Min(above), turn.round)
    BY <1>2 DEF PassTurn
  <2>3. to = Min(above) /\ PassTurn(st, from).round = turn.round
    BY <2>2 DEF NewTurn
  <2>4. from \in Int /\ to \in Int /\ from < to /\ \A y \in Active(st) : y \in Int /\ (y > from => to <= y)
    BY <1>1, <2>1, <2>3
  <2>5. ASSUME NEW x \in from + 1 .. to - 1, x \in Active(st) PROVE FALSE
    BY <2>4, <2>5
  <2> QED BY <2>3, <2>4, <2>5
<1>3. CASE above = {}
  <2>1. Min(Active(st)) \in Active(st) /\ \A y \in Active(st) : Min(Active(st)) <= y
    BY <1>1, MinSeat
  <2>2. PassTurn(st, from) = NewTurn(Min(Active(st)), turn.round + 1)
    BY <1>3 DEF PassTurn
  <2>3. to = Min(Active(st)) /\ PassTurn(st, from).round = turn.round + 1
    BY <2>2 DEF NewTurn
  <2>4. /\ from \in Int /\ to \in Int /\ to < from
        /\ \A y \in Active(st) : y \in Int /\ ~(y > from) /\ to <= y
    <3>1. \A y \in Active(st) : y \in Int /\ ~(y > from) /\ to <= y
      BY <1>1, <1>3, <2>1, <2>3
    <3>2. from \in Int /\ to \in Int /\ ~(to > from)
      BY <1>1, <2>1, <2>3, <3>1
    <3> QED BY <3>1, <3>2
  <2>5. ASSUME NEW x \in (from + 1 .. MaxPlayers - 1) \cup (0 .. to - 1), x \in Active(st) PROVE FALSE
    <3>1. MaxPlayers \in Int
      BY ConfigAssumption DEF ValidConfig
    <3> QED BY <2>4, <2>5, <3>1
  <2> QED BY <2>3, <2>4, <2>5
<1> QED BY <1>2, <1>3

-----------------------------------------------------------------------------
(* What the evaluation at the end of a step decides. *)

\* A board action leaves the match within its round limit, or ended with a
\* winner justified on the board it leaves.
LEMMA SettledVerdict ==
    ASSUME NEW st, NEW mo \in [Seats -> Int], NEW ow, NEW tn, NEW evs,
           Settle(st, mo, ow, tn, evs)
    PROVE  WinnerJustified' /\ OverrunByLeaveOnly'
<1> DEFINE o == EvaluateMatchEnd(st, mo, ow, tn.round)
<1>1. /\ o.phase = "ended" => Justified(o, st, mo, ow)
      /\ o.phase = "playing" /\ Victory = "round_limit" => ~(tn.round > RoundLimit)
  BY EvaluationJustified
<1>2. /\ status' = st /\ money' = mo /\ owner' = ow /\ turn' = tn
      /\ phase' = o.phase /\ winner' = o.winner /\ endReason' = o.reason
  BY DEF Settle, Conclude
<1> HIDE DEF o
<1>3. OverrunByLeaveOnly'
  BY <1>1, <1>2 DEF OverrunByLeaveOnly
<1>4. WinnerJustified'
  BY <1>1, <1>2 DEF WinnerJustified, Justified
<1> QED BY <1>3, <1>4

\* The first event of a leave is the leave.
LEMMA LeaveIsLogged ==
    ASSUME IInv, NEW p \in Seats, LeaveMatch(p)
    PROVE  events'[1].type = "player_left"
<1> DEFINE wasActive == status[p] = "active"
           st == [status EXCEPT ![p] = "eliminated"]
           o  == MaybeEndForInsufficientPlayers(st)
           passes == o.phase = "playing" /\ turn.seat = p
           tn == IF passes THEN PassTurn(st, p) ELSE turn
           e  == [type |-> "player_left", player |-> p]
           b == IF wasActive THEN Bankrupted(p, "voluntary_leave") ELSE <<>>
           t == IF passes THEN <<TurnAdvanced(tn)>> ELSE <<>>
<1>1. events' = <<e>> \o b \o EndEvents(o) \o t
  BY DEF LeaveMatch
<1>2. o \in Outcomes
  BY ShortageFacts
<1>3. tn \in Turns
  <2>1. turn.round \in Nat /\ turn \in Turns
    BY DEF IInv, TypeOK, Turns
  <2> QED BY <2>1, PassTurnFacts
<1>4. e \in Event
  BY DEF Event
<1>5. /\ Bankrupted(p, "voluntary_leave") \in Seq(Event) /\ EndEvents(o) \in Seq(Event)
      /\ TurnAdvanced(tn) \in Event
  BY <1>2, <1>3, BankruptedType, EndEventsType, TurnAdvancedType DEF Causes
<1> HIDE DEF wasActive, st, o, passes, tn
<1>6. b \in Seq(Event) /\ t \in Seq(Event)
  BY <1>5, Logs
<1>7. e.type = "player_left"
  OBVIOUS
<1> HIDE DEF e, b, t
<1>8. \A x, y, z \in Seq(Event) : (<<e>> \o x \o y \o z)[1] = e
  BY <1>4
<1> QED BY <1>1, <1>5, <1>6, <1>7, <1>8

\* No step installs an unjustified winner or, but for a leave, carries the
\* match past its round limit.
LEMMA VerdictStep ==
    ASSUME IInv, WinnerJustified, OverrunByLeaveOnly, [Next]_vars
    PROVE  WinnerJustified' /\ OverrunByLeaveOnly'
<1>1. ASSUME UNCHANGED vars PROVE WinnerJustified' /\ OverrunByLeaveOnly'
  BY <1>1 DEF vars, WinnerJustified, OverrunByLeaveOnly
<1>2. ASSUME phase' = "lobby" PROVE WinnerJustified' /\ OverrunByLeaveOnly'
  BY <1>2 DEF WinnerJustified, OverrunByLeaveOnly
<1>3. ASSUME NEW p \in Seats, Start(p) PROVE WinnerJustified' /\ OverrunByLeaveOnly'
  <2>1. phase' = "playing" /\ turn'.round = 1
    BY <1>3 DEF Start, NewTurn
  <2>2. Victory = "round_limit" => ~(1 > RoundLimit)
    BY ConfigAssumption DEF ValidConfig
  <2> QED BY <2>1, <2>2 DEF WinnerJustified, OverrunByLeaveOnly
<1>4. ASSUME NEW p \in Seats, LeaveMatch(p) PROVE WinnerJustified' /\ OverrunByLeaveOnly'
  <2> DEFINE st == [status EXCEPT ![p] = "eliminated"]
             o  == MaybeEndForInsufficientPlayers(st)
  <2>1. status' = st /\ phase' = o.phase /\ winner' = o.winner /\ endReason' = o.reason
    BY <1>4 DEF LeaveMatch, Conclude
  <2>2. o.phase = "ended" => Justified(o, st, money', owner')
    BY ShortageJustified
  <2> HIDE DEF st, o
  <2>3. WinnerJustified'
    BY <2>1, <2>2 DEF WinnerJustified, Justified
  <2>4. OverrunByLeaveOnly'
    BY <1>4, LeaveIsLogged DEF OverrunByLeaveOnly
  <2> QED BY <2>3, <2>4
<1>5. ASSUME NEW p \in Seats, TurnStep(p) PROVE WinnerJustified' /\ OverrunByLeaveOnly'
  <2>1. money \in [Seats -> Int] /\ money[p] \in Int
    BY DEF IInv, TypeOK
  <2>2. \E st, mo, ow, tn, evs : mo \in [Seats -> Int] /\ Settle(st, mo, ow, tn, evs)
    <3>1. CASE EndTurn(p)
      BY <2>1, <3>1 DEF EndTurn
    <3>2. CASE Decline(p)
      BY <2>1, <3>2 DEF Decline
    <3>3. CASE Buy(p)
      <4> DEFINE s == position[p]
      <4>1. s \in Spaces /\ Board[s].price \in Int
        BY BoardFacts DEF IInv, TypeOK
      <4>2. [money EXCEPT ![p] = @ - Board[s].price] \in [Seats -> Int]
        BY <2>1, <4>1
      <4> QED BY <3>3, <4>2 DEF Buy
    <3>4. CASE \E d \in Dice : Roll(p, d)
      <4>1. PICK d \in Dice : Roll(p, d)
        BY <3>4
      <4> DEFINE s == Target(p, d)
      <4>2. /\ s \in Spaces /\ Board[s].amount \in Int /\ Board[s].rent \in Int
            /\ Banked(p, d) \in [Seats -> Int]
        <5>1. position[p] \in Spaces
          BY DEF IInv, TypeOK
        <5>2. PassingGoBonus * Passes(p, d) \in Nat /\ s \in Spaces
          BY <5>1, ThrowFacts
        <5>3. Banked(p, d) \in [Seats -> Int]
          BY <2>1, <5>2 DEF Banked
        <5> QED BY <5>2, <5>3, BoardFacts
      <4>3. CASE LandQuietly(p, d)
        BY <4>2, <4>3 DEF LandQuietly
      <4>4. CASE PayTax(p, d)
        <5>1. [Banked(p, d) EXCEPT ![p] = @ - Board[s].amount] \in [Seats -> Int]
          BY <4>2
        <5> QED BY <4>4, <5>1 DEF PayTax
      <4>5. CASE PayRent(p, d)
        <5>1. [Banked(p, d) EXCEPT ![p] = @ - Board[s].rent,
                                   ![owner[s]] = @ + Board[s].rent] \in [Seats -> Int]
          <6>1. \A b \in [Seats -> Int], n \in Int, q \in Seats :
                   [b EXCEPT ![q] = @ + n] \in [Seats -> Int] /\ [b EXCEPT ![q] = @ - n] \in [Seats -> Int]
            OBVIOUS
          <6>2. owner[s] \in Seats
            BY <4>2, <4>5 DEF PayRent, RentDue, IInv, TypeOK
          <6> HIDE DEF s
          <6> QED BY <4>2, <6>1, <6>2
        <5> QED BY <4>5, <5>1 DEF PayRent
      <4>6. CASE GoBankrupt(p, d)
        BY <4>2, <4>6 DEF GoBankrupt
      <4> QED BY <4>1, <4>3, <4>4, <4>5, <4>6 DEF Roll
    <3> QED BY <1>5, <3>1, <3>2, <3>3, <3>4 DEF TurnStep
  <2>3. PICK st, mo, ow, tn, evs : mo \in [Seats -> Int] /\ Settle(st, mo, ow, tn, evs)
    BY <2>2
  <2> QED BY <2>3, SettledVerdict
<1>6. ASSUME Join \/ \E p \in Seats : LeaveLobby(p) \/ Ready(p) PROVE phase' = "lobby"
  BY <1>6 DEF Join, LeaveLobby, Ready
<1> QED BY <1>1, <1>2, <1>3, <1>4, <1>5, <1>6 DEF Next, Leave

-----------------------------------------------------------------------------
(* Theorems. *)

\* Every accepted sequence of actions of the engine stays within IInv.
THEOREM InductiveInvariant == Spec => []IInv
<1>1. Init => IInv
  BY InitIInv
<1>2. IInv /\ [Next]_vars => IInv'
  BY NextStep
<1> QED BY <1>1, <1>2, PTL DEF Spec

\* The fields of the game state keep their declared types.
THEOREM TypeCorrect == Spec => []TypeOK
<1>1. IInv => TypeOK
  BY DEF IInv
<1> QED BY <1>1, InductiveInvariant, PTL

\* No balance is ever negative: chargeBank and chargeRent never overdraw.
THEOREM NobodyInDebt == Spec => []Solvent
<1>1. IInv => Solvent
  BY DEF IInv
<1> QED BY <1>1, InductiveInvariant, PTL

\* Holdings are property spaces of active players: both ways out of a match
\* release them.
THEOREM HoldingsReleased == Spec => []HoldingsAreActive
<1>1. IInv => HoldingsAreActive
  BY DEF IInv
<1> QED BY <1>1, InductiveInvariant, PTL

\* A running match always offers its current player a board action.
THEOREM NotStranded == Spec => []TurnNeverStranded
<1>1. ASSUME IInv PROVE TurnNeverStranded
  <2> SUFFICES ASSUME phase = "playing"
               PROVE  /\ Cardinality(Active(status)) >= 2
                      /\ \E a \in LegalActions(turn.seat) : a # "player_leave"
    BY DEF TurnNeverStranded
  <2> DEFINE p == turn.seat
  <2>1. /\ Cardinality(Active(status)) >= 2 /\ status[p] = "active"
        /\ turn.phase \in {"await_roll", "await_buy_decision", "turn_over"}
        /\ turn.phase = "await_buy_decision" =>
              Board[position[p]].kind = "property" /\ owner[position[p]] = NoSeat
    BY <1>1 DEF IInv, TypeOK, TurnInv
  <2>2. CASE turn.phase = "await_roll"
    BY <2>1, <2>2 DEF LegalActions
  <2>3. CASE turn.phase = "await_buy_decision"
    BY <2>1, <2>3 DEF LegalActions
  <2>4. CASE turn.phase = "turn_over"
    BY <2>1, <2>4 DEF LegalActions
  <2> QED BY <2>1, <2>2, <2>3, <2>4
<1> QED BY <1>1, InductiveInvariant, PTL

\* A pending buy decision can still be answered by buying.
THEOREM OfferStands == Spec => []BuyOfferStands
<1>1. ASSUME IInv PROVE BuyOfferStands
  <2> SUFFICES ASSUME phase = "playing", turn.phase = "await_buy_decision"
               PROVE  "buy_property" \in LegalActions(turn.seat)
    BY DEF BuyOfferStands
  <2> DEFINE p == turn.seat
  <2>1. /\ status[p] = "active" /\ Board[position[p]].kind = "property"
        /\ owner[position[p]] = NoSeat /\ money[p] >= Board[position[p]].price
    BY <1>1 DEF IInv, TurnInv
  <2> QED BY <2>1 DEF LegalActions
<1> QED BY <1>1, InductiveInvariant, PTL

\* A lobby with players has exactly one host.
THEOREM SingleHost == Spec => []OneHost
<1>1. IInv => OneHost
  BY DEF IInv
<1> QED BY <1>1, InductiveInvariant, PTL

\* The doubles cap bounds the throws of a turn.
THEOREM DoublesCapped == Spec => []RollsBounded
<1>1. IInv => RollsBounded
  BY DEF IInv, RollInv
<1> QED BY <1>1, InductiveInvariant, PTL

\* Nothing happens to an eliminated player any more.
THEOREM EliminatedForGood == Spec => EliminationIsFinal
<1> DEFINE Final == \A p \in Seats : status[p] = "eliminated" =>
                      /\ status'[p] = "eliminated"
                      /\ money'[p] = money[p]
                      /\ p \notin {owner'[s] : s \in Spaces}
                      /\ phase' = "playing" => turn'.seat # p
<1>1. ASSUME IInv, [Next]_vars PROVE [Final]_vars
  <2> SUFFICES ASSUME Next, NEW p \in Seats, status[p] = "eliminated"
               PROVE  /\ status'[p] = "eliminated"
                      /\ money'[p] = money[p]
                      /\ p \notin {owner'[s] : s \in Spaces}
                      /\ phase' = "playing" => turn'.seat # p
    BY <1>1
  <2>1. IInv'
    BY <1>1, NextStep
  <2>2. status'[p] = "eliminated" /\ money'[p] = money[p]
    BY <1>1, EliminatedUntouched
  <2>3. p # NoSeat
    BY ConfigAssumption DEF Seats, NoSeat, ValidConfig
  <2>4. p \notin {owner'[s] : s \in Spaces}
    BY <2>1, <2>2, <2>3 DEF IInv, HoldingsAreActive
  <2>5. phase' = "playing" => turn'.seat # p
    BY <2>1, <2>2 DEF IInv, TurnInv
  <2> QED BY <2>2, <2>4, <2>5
<1> QED BY <1>1, InductiveInvariant, PTL DEF Spec, EliminationIsFinal

\* The turn visits every active player, and the round counts its wraps.
THEOREM TurnOrder == Spec => NobodySkipped
<1> DEFINE Fair == phase = "playing" /\ phase' = "playing" /\ turn'.seat # turn.seat =>
                     LET from == turn.seat
                         to   == turn'.seat
                         between == IF from < to THEN from + 1 .. to - 1
                                    ELSE (from + 1 .. MaxPlayers - 1) \cup (0 .. to - 1)
                     IN  /\ between \cap Active(status') = {}
                         /\ turn'.round = IF from < to THEN turn.round ELSE turn.round + 1
<1>1. ASSUME IInv, [Next]_vars PROVE [Fair]_vars
  <2> SUFFICES ASSUME Next, phase = "playing", phase' = "playing", turn'.seat # turn.seat
               PROVE  Fair
    BY <1>1
  <2>1. turn' = PassTurn(status', turn.seat)
    BY <1>1, TurnMovesByPassing
  <2>2. IInv' /\ turn.seat \in Seats /\ turn'.seat \in Seats
    BY <1>1, NextStep DEF IInv, TypeOK
  <2>3. Active(status') # {}
    BY <2>2 DEF IInv, TurnInv, Active
  <2> HIDE DEF Fair
  <2>4. /\ turn.seat < turn'.seat =>
              /\ (turn.seat + 1 .. turn'.seat - 1) \cap Active(status') = {}
              /\ turn'.round = turn.round
        /\ ~(turn.seat < turn'.seat) =>
              /\ ((turn.seat + 1 .. MaxPlayers - 1) \cup (0 .. turn'.seat - 1)) \cap Active(status') = {}
              /\ turn'.round = turn.round + 1
    BY <2>1, <2>2, <2>3, PassTurnOrder
  <2>5. CASE turn.seat < turn'.seat
    BY <2>4, <2>5 DEF Fair
  <2>6. CASE ~(turn.seat < turn'.seat)
    BY <2>4, <2>6 DEF Fair
  <2> QED BY <2>5, <2>6
<1> QED BY <1>1, InductiveInvariant, PTL DEF Spec, NobodySkipped

\* An ended match names its rightful winner, on the state it ended in.
THEOREM RightfulWinner == Spec => []WinnerJustified
<1>1. Init => WinnerJustified /\ OverrunByLeaveOnly
  BY DEF Init, WinnerJustified, OverrunByLeaveOnly
<1>2. IInv /\ (WinnerJustified /\ OverrunByLeaveOnly) /\ [Next]_vars
        => (WinnerJustified /\ OverrunByLeaveOnly)'
  BY VerdictStep
<1> QED BY <1>1, <1>2, InductiveInvariant, PTL DEF Spec

\* Past the round limit a match goes on only for the step after a leave.
THEOREM LimitOverrun == Spec => []OverrunByLeaveOnly
<1>1. Init => WinnerJustified /\ OverrunByLeaveOnly
  BY DEF Init, WinnerJustified, OverrunByLeaveOnly
<1>2. IInv /\ (WinnerJustified /\ OverrunByLeaveOnly) /\ [Next]_vars
        => (WinnerJustified /\ OverrunByLeaveOnly)'
  BY VerdictStep
<1> QED BY <1>1, <1>2, InductiveInvariant, PTL DEF Spec

-----------------------------------------------------------------------------
(* What a player is offered, and what the engine accepts. *)

\* The action a player takes is one the player was told is legal.
TakenIsOffered(p) ==
    /\ Leave(p) => "player_leave" \in LegalActions(p)
    /\ Ready(p) => "player_ready" \in LegalActions(p)
    /\ Start(p) => "game_start" \in LegalActions(p)
    /\ (\E d \in Dice : Roll(p, d)) => "roll_dice" \in LegalActions(p)
    /\ Buy(p) => "buy_property" \in LegalActions(p)
    /\ Decline(p) => "decline_buy" \in LegalActions(p)
    /\ EndTurn(p) => "end_turn" \in LegalActions(p)

\* Where a throw takes its player is free, a tax, a rent that can be paid, or
\* a payment that cannot.
Landings(p, d) ==
    LET s == Target(p, d)
    IN  {c \in {"quiet", "tax", "rent", "bankrupt"} :
            CASE c = "quiet"    -> Board[s].kind # "tax" /\ ~RentDue(p, s)
              [] c = "tax"      -> Board[s].kind = "tax" /\ Affords(p, d, Board[s].amount)
              [] c = "rent"     -> RentDue(p, s) /\ Affords(p, d, Board[s].rent)
              [] c = "bankrupt" -> \/ Board[s].kind = "tax" /\ ~Affords(p, d, Board[s].amount)
                                   \/ RentDue(p, s) /\ ~Affords(p, d, Board[s].rent)}

\* Whatever a player is told is legal passes the checks the engine makes of
\* that action; a roll it offers has one outcome, whatever the dice show.
OfferedIsAccepted(p) ==
    /\ "player_leave" \in LegalActions(p) => status[p] # "absent" /\ phase \in {"lobby", "playing"}
    /\ "player_ready" \in LegalActions(p) => status[p] # "absent" /\ phase = "lobby"
    /\ "game_start" \in LegalActions(p) => isHost[p] /\ CanStart
    /\ "roll_dice" \in LegalActions(p) =>
          /\ RequireTurn(p, "await_roll")
          /\ \A d \in Dice : \E c : Landings(p, d) = {c}
    /\ "buy_property" \in LegalActions(p) =>
          Deciding(p) /\ money[p] >= Board[position[p]].price
    /\ "decline_buy" \in LegalActions(p) => Deciding(p)
    /\ "end_turn" \in LegalActions(p) => RequireTurn(p, "turn_over")

\* LegalActions (engine.go) leaves out no action the engine goes on to accept.
THEOREM OnlyOffered == Spec => [][\A p \in Seats : TakenIsOffered(p)]_vars
<1>1. ASSUME IInv, NEW p \in Seats PROVE TakenIsOffered(p)
  <2>1. Leave(p) => "player_leave" \in LegalActions(p)
    BY DEF Leave, LeaveLobby, LeaveMatch, LegalActions
  <2>2. Ready(p) => "player_ready" \in LegalActions(p)
    BY DEF Ready, LegalActions
  <2>3. Start(p) => "game_start" \in LegalActions(p)
    BY <1>1 DEF Start, CanStart, LegalActions, IInv, LobbyInv
  <2>4. ASSUME NEW d \in Dice, Roll(p, d) PROVE "roll_dice" \in LegalActions(p)
    <3>1. RequireTurn(p, "await_roll")
      BY <2>4 DEF Roll
    <3> QED BY <3>1 DEF RequireTurn, LegalActions
  <2>5. Buy(p) => "buy_property" \in LegalActions(p)
    BY DEF Buy, Deciding, RequireTurn, LegalActions
  <2>6. Decline(p) => "decline_buy" \in LegalActions(p)
    BY DEF Decline, Deciding, RequireTurn, LegalActions
  <2>7. EndTurn(p) => "end_turn" \in LegalActions(p)
    BY DEF EndTurn, RequireTurn, LegalActions
  <2> QED BY <2>1, <2>2, <2>3, <2>4, <2>5, <2>6, <2>7 DEF TakenIsOffered
<1>2. IInv => \A p \in Seats : TakenIsOffered(p)
  BY <1>1
<1> QED BY <1>2, InductiveInvariant, PTL DEF Spec

\* LegalActions (engine.go) offers no action the checks of the engine refuse.
THEOREM OffersStand == Spec => [](\A p \in Seats : OfferedIsAccepted(p))
<1>1. ASSUME IInv, NEW p \in Seats PROVE OfferedIsAccepted(p)
  <2>1. /\ "player_leave" \in LegalActions(p) => status[p] # "absent" /\ phase \in {"lobby", "playing"}
        /\ "player_ready" \in LegalActions(p) => status[p] # "absent" /\ phase = "lobby"
    BY DEF LegalActions
  <2>2. "game_start" \in LegalActions(p) => isHost[p] /\ CanStart
    BY DEF LegalActions
  <2>3. "roll_dice" \in LegalActions(p) => RequireTurn(p, "await_roll")
    BY DEF LegalActions, RequireTurn
  <2>4. "end_turn" \in LegalActions(p) => RequireTurn(p, "turn_over")
    BY DEF LegalActions, RequireTurn
  <2>5. "decline_buy" \in LegalActions(p) => Deciding(p)
    BY DEF LegalActions, RequireTurn, Deciding
  <2>6. "buy_property" \in LegalActions(p) => Deciding(p) /\ money[p] >= Board[position[p]].price
    BY DEF LegalActions, RequireTurn, Deciding
  <2>7. ASSUME NEW d \in Dice PROVE \E c : Landings(p, d) = {c}
    <3> DEFINE s == Target(p, d)
               tax == Board[s].kind = "tax"
               rent == RentDue(p, s)
               paysTax == Affords(p, d, Board[s].amount)
               paysRent == Affords(p, d, Board[s].rent)
    <3>1. ~(tax /\ rent)
      BY DEF RentDue
    <3>2. CASE ~tax /\ ~rent
      <4>1. Landings(p, d) = {"quiet"}
        BY <3>2 DEF Landings
      <4> QED BY <4>1
    <3>3. CASE tax /\ paysTax
      <4>1. Landings(p, d) = {"tax"}
        BY <3>1, <3>3 DEF Landings
      <4> QED BY <4>1
    <3>4. CASE rent /\ paysRent
      <4>1. Landings(p, d) = {"rent"}
        BY <3>1, <3>4 DEF Landings
      <4> QED BY <4>1
    <3>5. CASE (tax /\ ~paysTax) \/ (rent /\ ~paysRent)
      <4>1. Landings(p, d) = {"bankrupt"}
        BY <3>1, <3>5 DEF Landings
      <4> QED BY <4>1
    <3> HIDE DEF tax, rent, paysTax, paysRent
    <3> QED BY <3>2, <3>3, <3>4, <3>5
  <2> QED BY <2>1, <2>2, <2>3, <2>4, <2>5, <2>6, <2>7 DEF OfferedIsAccepted
<1>2. IInv => \A p \in Seats : OfferedIsAccepted(p)
  BY <1>1
<1> QED BY <1>2, InductiveInvariant, PTL

-----------------------------------------------------------------------------
(* The client's fold over the events of a transition. *)

\* What the store holds after a batch of events.
Fold(v, s) == FoldLeft(ReduceEvent, v, s)

\* The recursion behind FoldLeft, one index at a time.
FoldBody(v, s, f, T) == IF T = {} THEN v ELSE ReduceEvent(f[T \ {Max(T)}], s[Max(T)])

\* The function f gives the fold of the first n events of s, over any of them.
Folds(f, v, s, n) == f = [T \in SUBSET (1 .. n) |-> FoldBody(v, s, f, T)]

\* A non-empty set of indices has a highest one, and the rest lies below it.
LEMMA HighestIndex ==
    ASSUME NEW n \in Nat, NEW T, T \subseteq 1 .. n, T # {}
    PROVE  /\ Max(T) \in T /\ \A i \in T : i <= Max(T)
           /\ T \ {Max(T)} \subseteq 1 .. Max(T) - 1
<1> DEFINE D == {n - i : i \in T}
<1>1. D \subseteq Nat /\ D # {}
  <2>1. \A i \in T : n - i \in Nat
    OBVIOUS
  <2>2. PICK i \in T : TRUE
    OBVIOUS
  <2>3. n - i \in D
    BY <2>2
  <2> QED BY <2>1, <2>3
<1>2. PICK d \in D : \A e \in D : d <= e
  BY <1>1, LeastNat
<1>3. PICK m \in T : d = n - m
  BY <1>2
<1>4. \A i \in T : n - i \in D
  OBVIOUS
<1>5. \A i \in T : i <= m
  BY <1>2, <1>3, <1>4
<1>6. Max(T) \in T /\ \A i \in T : i <= Max(T)
  BY <1>3, <1>5 DEF Max
<1>7. ASSUME NEW i \in T \ {Max(T)} PROVE i \in 1 .. Max(T) - 1
  <2>1. i \in 1 .. n /\ Max(T) \in 1 .. n /\ i <= Max(T) /\ i # Max(T)
    BY <1>6, <1>7
  <2> QED BY <2>1
<1> QED BY <1>6, <1>7

\* The recursion defines a function on the sets of indices: one for the first
\* n - 1 events extends to the n-th.
LEMMA FoldExists ==
    ASSUME NEW v, NEW s, NEW n \in Nat
    PROVE  \E f : Folds(f, v, s, n)
<1> DEFINE Defined(k) == \E f : Folds(f, v, s, k)
           Bad == {k \in Nat : ~Defined(k)}
<1>1. ASSUME NEW k \in Bad, \A j \in Bad : k <= j PROVE FALSE
  <2>1. CASE k = 0
    <3> DEFINE f == [T \in SUBSET (1 .. 0) |-> v]
    <3>1. \A T \in SUBSET (1 .. 0) : FoldBody(v, s, f, T) = v
      BY DEF FoldBody
    <3>2. f = [T \in SUBSET (1 .. 0) |-> FoldBody(v, s, f, T)]
      BY <3>1
    <3> HIDE DEF f
    <3>3. Defined(0)
      BY <3>2 DEF Folds
    <3> QED BY <2>1, <3>3
  <2>2. CASE k # 0
    <3>1. k - 1 \in Nat /\ k - 1 \notin Bad
      <4> HIDE DEF Defined
      <4> QED BY <1>1, <2>2
    <3>2. PICK g : g = [T \in SUBSET (1 .. k - 1) |-> FoldBody(v, s, g, T)]
      BY <3>1 DEF Folds
    <3> DEFINE f == [T \in SUBSET (1 .. k) |-> IF T \subseteq 1 .. k - 1 THEN g[T] ELSE FoldBody(v, s, g, T)]
    <3>3. ASSUME NEW T \in SUBSET (1 .. k) PROVE f[T] = FoldBody(v, s, f, T)
      <4>1. f[T] = FoldBody(v, s, g, T)
        BY <3>2
      <4>2. CASE T = {}
        BY <4>1, <4>2 DEF FoldBody
      <4>3. CASE T # {}
        <5>1. T \ {Max(T)} \subseteq 1 .. Max(T) - 1 /\ Max(T) \in 1 .. k
          BY <4>3, HighestIndex
        <5>2. T \ {Max(T)} \subseteq 1 .. k - 1 /\ T \ {Max(T)} \in SUBSET (1 .. k)
          BY <5>1
        <5>3. f[T \ {Max(T)}] = g[T \ {Max(T)}]
          BY <5>2
        <5> HIDE DEF f
        <5> QED BY <4>1, <4>3, <5>3 DEF FoldBody
      <4> QED BY <4>2, <4>3
    <3>4. f = [T \in SUBSET (1 .. k) |-> FoldBody(v, s, f, T)]
      BY <3>3
    <3> HIDE DEF f
    <3>5. Defined(k)
      BY <3>4 DEF Folds
    <3> QED BY <1>1, <3>5
  <2> QED BY <1>1, <2>1, <2>2
<1>2. Bad = {}
  <2> HIDE DEF Defined
  <2> QED BY <1>1, LeastNat
<1> QED BY <1>2

\* Two such functions agree where the sequences do.
LEMMA FoldsAgree ==
    ASSUME NEW v, NEW s, NEW t, NEW m \in Nat, NEW n \in Nat, m <= n,
           \A i \in 1 .. m : s[i] = t[i],
           NEW f, Folds(f, v, s, m), NEW g, Folds(g, v, t, n)
    PROVE  f[1 .. m] = g[1 .. m]
<1> DEFINE Bad == {k \in 0 .. m : \E T \in SUBSET (1 .. k) : f[T] # g[T]}
<1>1. ASSUME NEW k \in Bad, \A j \in Bad : k <= j PROVE FALSE
  <2>1. PICK T \in SUBSET (1 .. k) : f[T] # g[T]
    OBVIOUS
  <2>2. T \in SUBSET (1 .. m) /\ T \in SUBSET (1 .. n)
    OBVIOUS
  <2>3. f[T] = FoldBody(v, s, f, T) /\ g[T] = FoldBody(v, t, g, T)
    BY <2>2 DEF Folds
  <2>4. T # {}
    BY <2>1, <2>3 DEF FoldBody
  <2>5. Max(T) \in T /\ T \ {Max(T)} \subseteq 1 .. Max(T) - 1
    <3>1. k \in Nat /\ T \subseteq 1 .. k
      OBVIOUS
    <3> QED BY <2>4, <3>1, HighestIndex
  <2>6. /\ Max(T) \in 1 .. m /\ Max(T) - 1 \in 0 .. m /\ ~(k <= Max(T) - 1)
        /\ T \ {Max(T)} \in SUBSET (1 .. Max(T) - 1)
    <3>1. Max(T) \in 1 .. k /\ k \in 0 .. m
      BY <2>5
    <3> QED BY <2>5, <3>1
  <2>7. f[T \ {Max(T)}] = g[T \ {Max(T)}]
    BY <1>1, <2>6
  <2> QED BY <2>1, <2>3, <2>4, <2>6, <2>7 DEF FoldBody
<1>2. Bad = {}
  <2>1. Bad \subseteq Nat
    OBVIOUS
  <2> QED BY <1>1, <2>1, LeastNat
<1>3. m \in 0 .. m /\ 1 .. m \in SUBSET (1 .. m)
  OBVIOUS
<1> QED BY <1>2, <1>3

\* FoldLeft is the value at the full index set of one such function.
LEMMA FoldUnfolds ==
    ASSUME NEW v, NEW s \in Seq(Event)
    PROVE  \E f : Folds(f, v, s, Len(s)) /\ Fold(v, s) = f[1 .. Len(s)]
<1>1. DOMAIN s = 1 .. Len(s) /\ Len(s) \in Nat
  OBVIOUS
<1> DEFINE f == CHOOSE g : g = [T \in SUBSET DOMAIN s |-> FoldBody(v, s, g, T)]
<1>2. Fold(v, s) = f[DOMAIN s]
  BY DEF Fold, FoldLeft, MapThenFoldSet, FoldBody
<1>3. \E g : g = [T \in SUBSET DOMAIN s |-> FoldBody(v, s, g, T)]
  <2>1. \E g : g = [T \in SUBSET (1 .. Len(s)) |-> FoldBody(v, s, g, T)]
    BY <1>1, FoldExists DEF Folds
  <2> QED BY <1>1, <2>1, Zenon
<1>4. f = [T \in SUBSET DOMAIN s |-> FoldBody(v, s, f, T)]
  BY <1>3
<1> HIDE DEF f
<1> QED BY <1>1, <1>2, <1>4 DEF Folds

\* No events change nothing.
LEMMA FoldNone == ASSUME NEW v PROVE Fold(v, <<>>) = v
<1>1. <<>> \in Seq(Event) /\ Len(<<>>) = 0
  BY Logs
<1>2. PICK f : Folds(f, v, <<>>, Len(<<>>)) /\ Fold(v, <<>>) = f[1 .. Len(<<>>)]
  BY <1>1, FoldUnfolds, Zenon
<1>3. Fold(v, <<>>) = FoldBody(v, <<>>, f, 1 .. Len(<<>>))
  BY <1>2 DEF Folds
<1> QED BY <1>1, <1>3 DEF FoldBody

\* One more event is reduced into what the others led to.
LEMMA FoldMore ==
    ASSUME NEW v, NEW s \in Seq(Event), NEW e \in Event
    PROVE  Fold(v, Append(s, e)) = ReduceEvent(Fold(v, s), e)
<1>1. PICK t : t = Append(s, e)
  OBVIOUS
<1>2. PICK m : m = Len(s)
  OBVIOUS
<1>3. m \in Nat /\ m + 1 \in Nat /\ m <= m + 1
  BY <1>2
<1>4. t \in Seq(Event) /\ Len(t) = m + 1
  BY <1>1, <1>2, AppendProperties
<1>5. t[m + 1] = e /\ \A i \in 1 .. m : s[i] = t[i]
  BY <1>1, <1>2, AppendProperties
<1>6. PICK f : Folds(f, v, s, m) /\ Fold(v, s) = f[1 .. m]
  BY <1>2, FoldUnfolds
<1>7. PICK g : Folds(g, v, t, m + 1) /\ Fold(v, t) = g[1 .. m + 1]
  BY <1>4, FoldUnfolds
<1>8. f[1 .. m] = g[1 .. m]
  BY <1>3, <1>6, <1>7, <1>5, FoldsAgree
<1> DEFINE T == 1 .. m + 1
<1>9. g[T] = FoldBody(v, t, g, T)
  BY <1>7 DEF Folds
<1>10. T # {} /\ Max(T) = m + 1 /\ T \ {Max(T)} = 1 .. m
  <2>1. m + 1 \in T
    BY <1>3
  <2>2. T # {}
    BY <2>1
  <2>3. Max(T) \in T /\ \A i \in T : i <= Max(T)
    BY <1>3, <2>2, HighestIndex
  <2>4. Max(T) = m + 1
    BY <1>3, <2>1, <2>3
  <2> QED BY <1>3, <2>2, <2>4
<1>11. g[T] = ReduceEvent(g[1 .. m], e)
  BY <1>9, <1>10, <1>5 DEF FoldBody
<1> QED BY <1>1, <1>6, <1>7, <1>8, <1>11

\* Batches put together one event at a time.
LEMMA FoldBatches ==
    ASSUME NEW v
    PROVE  /\ \A e \in Event : Fold(v, <<e>>) = ReduceEvent(v, e)
           /\ \A s \in Seq(Event) : Fold(v, s \o <<>>) = Fold(v, s)
           /\ \A s \in Seq(Event), e \in Event : Fold(v, s \o <<e>>) = ReduceEvent(Fold(v, s), e)
           /\ \A s \in Seq(Event), e, f \in Event :
                 Fold(v, s \o <<e, f>>) = ReduceEvent(ReduceEvent(Fold(v, s), e), f)
<1>1. <<>> \in Seq(Event)
  BY Logs
<1>2. ASSUME NEW e \in Event PROVE Fold(v, <<e>>) = ReduceEvent(v, e)
  <2>1. <<e>> = Append(<<>>, e)
    OBVIOUS
  <2> QED BY <1>1, <2>1, FoldMore, FoldNone
<1>3. ASSUME NEW s \in Seq(Event) PROVE s \o <<>> = s
  BY <1>3
<1>4. ASSUME NEW s \in Seq(Event), NEW e \in Event
      PROVE  s \o <<e>> = Append(s, e)
  BY <1>4
<1>5. ASSUME NEW s \in Seq(Event), NEW e \in Event, NEW f \in Event
      PROVE  s \o <<e, f>> = Append(Append(s, e), f) /\ Append(s, e) \in Seq(Event)
  BY <1>5
<1>6. ASSUME NEW s \in Seq(Event), NEW e \in Event, NEW f \in Event
      PROVE  Fold(v, s \o <<e, f>>) = ReduceEvent(ReduceEvent(Fold(v, s), e), f)
  <2>1. s \o <<e, f>> = Append(Append(s, e), f) /\ Append(s, e) \in Seq(Event)
    BY <1>5
  <2>2. Fold(v, Append(Append(s, e), f)) = ReduceEvent(Fold(v, Append(s, e)), f)
    BY <2>1, FoldMore
  <2>3. Fold(v, Append(s, e)) = ReduceEvent(Fold(v, s), e)
    BY FoldMore
  <2> QED BY <2>1, <2>2, <2>3
<1>7. ASSUME NEW s \in Seq(Event), NEW e \in Event
      PROVE  Fold(v, s \o <<e>>) = ReduceEvent(Fold(v, s), e)
  BY <1>4, FoldMore
<1> QED BY <1>2, <1>3, <1>6, <1>7

-----------------------------------------------------------------------------
(* The client's view beside the match it follows. *)

Views == [held : BOOLEAN, phase : {"lobby", "playing", "ended"}, status : [Seats -> Statuses],
          money : [Seats -> Int], ready : [Seats -> BOOLEAN], position : [Seats -> Spaces],
          owner : [Spaces -> Seats \cup {NoSeat}], turn : Turns,
          winner : Seats \cup {NoSeat}, reason : Reasons]

\* The view v shows the match with the given phase, statuses, balances, ready
\* flags, positions, owners, turn and outcome, as ViewAgrees asks for it; it
\* lists every player, and nobody else but those who left in the lobby.
Shows(v, left, ph, st, mo, rd, po, ow, tn, wi, re) ==
    /\ v \in Views
    /\ mo \in [Seats -> Int] /\ po \in [Seats -> Spaces]
    /\ v.phase = ph /\ v.winner = wi /\ v.reason = re /\ v.owner = ow
    /\ \A p \in Seats : st[p] # "absent" =>
          /\ v.status[p] # "absent" /\ v.money[p] = mo[p] /\ v.position[p] = po[p]
          /\ p \notin left => v.status[p] = st[p] /\ v.ready[p] = rd[p]
    /\ \A p \in Seats : st[p] = "absent" /\ v.status[p] # "absent" => p \in left
    /\ v.turn.round > 0 => v.turn.seat = tn.seat /\ v.turn.round = tn.round

\* Before the start every player has the starting money and stands on go, and
\* before the end there is no outcome.
FreshInv ==
    /\ phase = "lobby" =>
          /\ turn.round = 0
          /\ \A p \in Seats : status[p] # "absent" => money[p] = StartingMoney /\ position[p] = 0
    /\ phase # "ended" => winner = NoSeat /\ endReason = "none"

\* Before the start the view gives so much to everybody it lists, also to those
\* who are not in the lobby any more: a seat that is taken again is shown right.
ViewFresh ==
    phase = "lobby" =>
        \A p \in Seats : view.status[p] # "absent" =>
            view.money[p] = StartingMoney /\ view.position[p] = 0

FoldInv ==
    /\ FreshInv
    /\ view \in Views
    /\ view.held =>
          /\ Shows(view, vacated, phase, status, money, ready, position, owner, turn, winner, endReason)
          /\ ViewFresh

\* A balance that stays non-negative is adjusted as it is: the clamp of the
\* reducer is never needed.
LEMMA AdjustedFacts ==
    ASSUME NEW v \in Views, NEW p \in Seats, NEW n \in Int, v.status[p] # "absent", v.money[p] + n >= 0
    PROVE  Adjusted(v, p, n) = [v EXCEPT !.money = [v.money EXCEPT ![p] = @ + n]]
<1>1. v.money \in [Seats -> Int] /\ v.money[p] + n \in Int
  BY DEF Views
<1>2. Max({0, v.money[p] + n}) = v.money[p] + n
  BY <1>1 DEF Max
<1>3. Adjusted(v, p, n) = [v EXCEPT !.money[p] = Max({0, v.money[p] + n})]
  BY DEF Adjusted
<1> QED BY <1>1, <1>2, <1>3

\* A balance the view and the match change alike.
LEMMA ShowsAdjusted ==
    ASSUME NEW v, NEW left, NEW ph, NEW st, NEW mo, NEW rd, NEW po, NEW ow, NEW tn, NEW wi, NEW re,
           Shows(v, left, ph, st, mo, rd, po, ow, tn, wi, re),
           NEW p \in Seats, st[p] # "absent", NEW n \in Int, mo[p] + n >= 0
    PROVE  Shows(Adjusted(v, p, n), left, ph, st, [mo EXCEPT ![p] = @ + n], rd, po, ow, tn, wi, re)
<1>1. v \in Views /\ v.money[p] = mo[p] /\ v.status[p] # "absent" /\ mo \in [Seats -> Int]
  BY DEF Shows
<1>2. PICK w : w = Adjusted(v, p, n)
  OBVIOUS
<1>3. w = [v EXCEPT !.money = [v.money EXCEPT ![p] = @ + n]]
  BY <1>1, <1>2, AdjustedFacts
<1>4. w \in Views /\ w.money = [v.money EXCEPT ![p] = @ + n]
  BY <1>1, <1>3 DEF Views
<1>5. /\ w.held = v.held /\ w.phase = v.phase /\ w.status = v.status /\ w.ready = v.ready
      /\ w.position = v.position /\ w.owner = v.owner /\ w.turn = v.turn
      /\ w.winner = v.winner /\ w.reason = v.reason
  BY <1>1, <1>3 DEF Views
<1>6. [mo EXCEPT ![p] = @ + n] \in [Seats -> Int]
  BY <1>1
<1>7. \A q \in Seats : v.money[q] = mo[q] => w.money[q] = [mo EXCEPT ![p] = @ + n][q]
  BY <1>1, <1>4 DEF Views
<1> QED BY <1>2, <1>4, <1>5, <1>6, <1>7 DEF Shows

\* A move the view and the match make alike.
LEMMA ShowsMoved ==
    ASSUME NEW v, NEW left, NEW ph, NEW st, NEW mo, NEW rd, NEW po, NEW ow, NEW tn, NEW wi, NEW re,
           Shows(v, left, ph, st, mo, rd, po, ow, tn, wi, re),
           NEW p \in Seats, st[p] # "absent", NEW e, e.player = p, e.to \in Spaces
    PROVE  Shows(Moved(v, e), left, ph, st, mo, rd, [po EXCEPT ![p] = e.to], ow, tn, wi, re)
<1>1. v \in Views /\ v.status[p] # "absent" /\ po \in [Seats -> Spaces]
  BY DEF Shows
<1>2. PICK w : w = Moved(v, e)
  OBVIOUS
<1>3. w = [v EXCEPT !.position = [v.position EXCEPT ![p] = e.to]]
  BY <1>1, <1>2 DEF Moved, Listed
<1>4. w \in Views /\ w.position = [v.position EXCEPT ![p] = e.to]
  BY <1>1, <1>3 DEF Views
<1>5. /\ w.held = v.held /\ w.phase = v.phase /\ w.status = v.status /\ w.money = v.money
      /\ w.ready = v.ready /\ w.owner = v.owner /\ w.turn = v.turn
      /\ w.winner = v.winner /\ w.reason = v.reason
  BY <1>1, <1>3 DEF Views
<1>6. [po EXCEPT ![p] = e.to] \in [Seats -> Spaces]
  BY <1>1
<1>7. \A q \in Seats : v.position[q] = po[q] => w.position[q] = [po EXCEPT ![p] = e.to][q]
  BY <1>1, <1>4 DEF Views
<1> QED BY <1>2, <1>4, <1>5, <1>6, <1>7 DEF Shows

\* A player who goes out of a running match.
LEMMA ShowsOut ==
    ASSUME NEW v, NEW left, NEW ph, NEW st, NEW mo, NEW rd, NEW po, NEW ow, NEW tn, NEW wi, NEW re,
           Shows(v, left, ph, st, mo, rd, po, ow, tn, wi, re), st \in [Seats -> Statuses],
           NEW p \in Seats, st[p] # "absent", NEW e, e.player = p
    PROVE  Shows(Out(v, e), left, ph, [st EXCEPT ![p] = "eliminated"], mo, rd, po, ow, tn, wi, re)
<1>1. v \in Views /\ v.status[p] # "absent"
  BY DEF Shows
<1>2. PICK w : w = Out(v, e)
  OBVIOUS
<1>3. w = [v EXCEPT !.status = [v.status EXCEPT ![p] = "eliminated"]]
  BY <1>1, <1>2 DEF Out, Listed
<1>4. w \in Views /\ w.status = [v.status EXCEPT ![p] = "eliminated"]
  BY <1>1, <1>3 DEF Views, Statuses
<1>5. /\ w.held = v.held /\ w.phase = v.phase /\ w.money = v.money /\ w.position = v.position
      /\ w.ready = v.ready /\ w.owner = v.owner /\ w.turn = v.turn
      /\ w.winner = v.winner /\ w.reason = v.reason
  BY <1>1, <1>3 DEF Views
<1>6. /\ w.status[p] = "eliminated" /\ [st EXCEPT ![p] = "eliminated"][p] = "eliminated"
      /\ \A q \in Seats \ {p} :
            w.status[q] = v.status[q] /\ [st EXCEPT ![p] = "eliminated"][q] = st[q]
  BY <1>1, <1>4 DEF Views
<1> QED BY <1>2, <1>4, <1>5, <1>6 DEF Shows

\* A player who leaves the lobby: the match forgets the seat, the view keeps it.
LEMMA ShowsVacated ==
    ASSUME NEW v, NEW left, NEW ph, NEW st, NEW mo, NEW rd, NEW po, NEW ow, NEW tn, NEW wi, NEW re,
           Shows(v, left, ph, st, mo, rd, po, ow, tn, wi, re), st \in [Seats -> Statuses],
           rd \in [Seats -> BOOLEAN],
           NEW p \in Seats, st[p] # "absent", NEW e, e.player = p
    PROVE  Shows(Out(v, e), left \cup {p}, ph, [st EXCEPT ![p] = "absent"], [mo EXCEPT ![p] = 0],
                 [rd EXCEPT ![p] = FALSE], [po EXCEPT ![p] = 0], ow, tn, wi, re)
<1>1. v \in Views /\ v.status[p] # "absent" /\ mo \in [Seats -> Int] /\ po \in [Seats -> Spaces]
  BY DEF Shows
<1>2. PICK w : w = Out(v, e)
  OBVIOUS
<1>3. w = [v EXCEPT !.status = [v.status EXCEPT ![p] = "eliminated"]]
  BY <1>1, <1>2 DEF Out, Listed
<1>4. w \in Views /\ w.status = [v.status EXCEPT ![p] = "eliminated"]
  BY <1>1, <1>3 DEF Views, Statuses
<1>5. /\ w.held = v.held /\ w.phase = v.phase /\ w.money = v.money /\ w.position = v.position
      /\ w.ready = v.ready /\ w.owner = v.owner /\ w.turn = v.turn
      /\ w.winner = v.winner /\ w.reason = v.reason
  BY <1>1, <1>3 DEF Views
<1>6. PICK st2, mo2, rd2, po2 :
         /\ st2 = [st EXCEPT ![p] = "absent"] /\ mo2 = [mo EXCEPT ![p] = 0]
         /\ rd2 = [rd EXCEPT ![p] = FALSE] /\ po2 = [po EXCEPT ![p] = 0]
  OBVIOUS
<1>7. /\ st2[p] = "absent" /\ mo2 \in [Seats -> Int] /\ po2 \in [Seats -> Spaces]
      /\ \A q \in Seats \ {p} : /\ w.status[q] = v.status[q] /\ st2[q] = st[q]
                               /\ mo2[q] = mo[q] /\ po2[q] = po[q]
  BY <1>1, <1>4, <1>6, BoardFacts DEF Views
<1>8. \A q \in Seats \ {p} : rd2[q] = rd[q]
  BY <1>6
<1>9. Shows(w, left \cup {p}, ph, st2, mo2, rd2, po2, ow, tn, wi, re)
  BY <1>4, <1>5, <1>7, <1>8 DEF Shows
<1> QED BY <1>2, <1>6, <1>9

\* A bankruptcy gives the holdings back to the bank.
LEMMA ShowsReverted ==
    ASSUME NEW v, NEW left, NEW ph, NEW st, NEW mo, NEW rd, NEW po, NEW ow, NEW tn, NEW wi, NEW re,
           Shows(v, left, ph, st, mo, rd, po, ow, tn, wi, re), st \in [Seats -> Statuses],
           NEW p \in Seats, st[p] # "absent", NEW e, e.player = p,
           NEW ow2 \in [Spaces -> Seats \cup {NoSeat}],
           \A s \in Spaces : ow2[s] = IF s \in e.released THEN NoSeat ELSE ow[s]
    PROVE  Shows(Reverted(v, e), left, ph, [st EXCEPT ![p] = "eliminated"], mo, rd, po, ow2, tn, wi, re)
<1>1. PICK u : u = Out(v, e)
  OBVIOUS
<1>2. PICK st2 : st2 = [st EXCEPT ![p] = "eliminated"]
  OBVIOUS
<1>3. Shows(u, left, ph, st2, mo, rd, po, ow, tn, wi, re)
  BY <1>1, <1>2, ShowsOut
<1>4. PICK w : w = Reverted(v, e)
  OBVIOUS
<1>5. v \in Views /\ v.owner = ow /\ u \in Views
  BY <1>3 DEF Shows
<1>6. w = [u EXCEPT !.owner = ow2]
  <2>1. [s \in Spaces |-> IF s \in e.released THEN NoSeat ELSE v.owner[s]] = ow2
    BY <1>5
  <2> QED BY <1>1, <1>4, <2>1 DEF Reverted
<1>7. w \in Views /\ w.owner = ow2
  BY <1>5, <1>6 DEF Views
<1>8. /\ w.held = u.held /\ w.phase = u.phase /\ w.money = u.money /\ w.position = u.position
      /\ w.ready = u.ready /\ w.status = u.status /\ w.turn = u.turn
      /\ w.winner = u.winner /\ w.reason = u.reason
  BY <1>5, <1>6 DEF Views
<1>9. Shows(w, left, ph, st2, mo, rd, po, ow2, tn, wi, re)
  BY <1>3, <1>7, <1>8 DEF Shows
<1> QED BY <1>2, <1>4, <1>9

\* A space bought, before its price is paid.
LEMMA ShowsBought ==
    ASSUME NEW v, NEW left, NEW ph, NEW st, NEW mo, NEW rd, NEW po, NEW ow, NEW tn, NEW wi, NEW re,
           Shows(v, left, ph, st, mo, rd, po, ow, tn, wi, re),
           NEW p \in Seats, st[p] # "absent", NEW s \in Spaces, NEW n \in Int, mo[p] - n >= 0,
           NEW e, e.player = p, e.space = s, e.amount = n
    PROVE  Shows(Bought(v, e), left, ph, st, [mo EXCEPT ![p] = @ - n], rd, po,
                 [ow EXCEPT ![s] = p], tn, wi, re)
<1>1. v \in Views /\ v.owner = ow
  BY DEF Shows
<1>2. PICK u : u = [v EXCEPT !.owner[s] = p]
  OBVIOUS
<1>3. u \in Views /\ u.owner = [ow EXCEPT ![s] = p]
  BY <1>1, <1>2 DEF Views
<1>4. /\ u.held = v.held /\ u.phase = v.phase /\ u.money = v.money /\ u.position = v.position
      /\ u.ready = v.ready /\ u.status = v.status /\ u.turn = v.turn
      /\ u.winner = v.winner /\ u.reason = v.reason
  BY <1>1, <1>2 DEF Views
<1>5. Shows(u, left, ph, st, mo, rd, po, [ow EXCEPT ![s] = p], tn, wi, re)
  BY <1>3, <1>4 DEF Shows
<1>6. mo \in [Seats -> Int] /\ -n \in Int /\ mo[p] + (-n) >= 0 /\ mo[p] + (-n) = mo[p] - n
  BY DEF Shows
<1>7. Shows(Adjusted(u, p, -n), left, ph, st, [mo EXCEPT ![p] = @ + (-n)], rd, po,
            [ow EXCEPT ![s] = p], tn, wi, re)
  BY <1>5, <1>6, ShowsAdjusted
<1>8. Bought(v, e) = Adjusted(u, p, -n)
  BY <1>2 DEF Bought
<1>9. [mo EXCEPT ![p] = @ + (-n)] = [mo EXCEPT ![p] = @ - n]
  BY <1>6
<1> QED BY <1>7, <1>8, <1>9

\* Rent moves from the payer to the owner of the space.
LEMMA ShowsRent ==
    ASSUME NEW v, NEW left, NEW ph, NEW st, NEW mo, NEW rd, NEW po, NEW ow, NEW tn, NEW wi, NEW re,
           Shows(v, left, ph, st, mo, rd, po, ow, tn, wi, re),
           NEW p \in Seats, st[p] # "absent", NEW q \in Seats, st[q] # "absent", p # q,
           NEW n \in Int, n >= 0, mo[p] - n >= 0, mo[q] >= 0,
           NEW e, e.player = p, e.payee = q, e.amount = n
    PROVE  Shows(RentPaid(v, e), left, ph, st, [mo EXCEPT ![p] = @ - n, ![q] = @ + n],
                 rd, po, ow, tn, wi, re)
<1>1. mo \in [Seats -> Int] /\ -n \in Int /\ mo[p] + (-n) >= 0
  BY DEF Shows
<1>2. PICK mo2 : mo2 = [mo EXCEPT ![p] = @ + (-n)]
  OBVIOUS
<1>3. PICK u : u = Adjusted(v, p, -n)
  OBVIOUS
<1>4. Shows(u, left, ph, st, mo2, rd, po, ow, tn, wi, re)
  BY <1>1, <1>2, <1>3, ShowsAdjusted
<1>5. mo2[q] + n >= 0
  BY <1>1, <1>2
<1>6. Shows(Adjusted(u, q, n), left, ph, st, [mo2 EXCEPT ![q] = @ + n], rd, po, ow, tn, wi, re)
  BY <1>4, <1>5, ShowsAdjusted
<1>7. RentPaid(v, e) = Adjusted(u, q, n)
  BY <1>3 DEF RentPaid
<1>8. [mo2 EXCEPT ![q] = @ + n] = [mo EXCEPT ![p] = @ - n, ![q] = @ + n]
  BY <1>1, <1>2
<1> QED BY <1>6, <1>7, <1>8

\* A transfer between a player and the bank.
LEMMA ShowsTransfer ==
    ASSUME NEW v, NEW left, NEW ph, NEW st, NEW mo, NEW rd, NEW po, NEW ow, NEW tn, NEW wi, NEW re,
           Shows(v, left, ph, st, mo, rd, po, ow, tn, wi, re),
           NEW p \in Seats, st[p] # "absent", NEW n \in Int
    PROVE  /\ mo[p] + n >= 0 =>
                 Shows(ReduceEvent(v, ToPlayer(p, n)), left, ph, st, [mo EXCEPT ![p] = @ + n],
                       rd, po, ow, tn, wi, re)
           /\ mo[p] - n >= 0 =>
                 Shows(ReduceEvent(v, ToBank(p, n)), left, ph, st, [mo EXCEPT ![p] = @ - n],
                       rd, po, ow, tn, wi, re)
<1>1. /\ ReduceEvent(v, ToPlayer(p, n)) = Adjusted(v, p, n)
      /\ ReduceEvent(v, ToBank(p, n)) = Adjusted(v, p, -n)
  <2>1. PICK e, f : e = ToPlayer(p, n) /\ f = ToBank(p, n)
    OBVIOUS
  <2>2. /\ e.type = "bank_transfer" /\ e.player = p /\ e.amount = n /\ e.direction = "to_player"
        /\ f.type = "bank_transfer" /\ f.player = p /\ f.amount = n /\ f.direction # "to_player"
    BY <2>1 DEF ToPlayer, ToBank
  <2>3. ReduceEvent(v, e) = Transferred(v, e) /\ ReduceEvent(v, f) = Transferred(v, f)
    BY <2>2 DEF ReduceEvent
  <2> QED BY <2>1, <2>2, <2>3 DEF Transferred
<1>2. mo \in [Seats -> Int] /\ -n \in Int /\ mo[p] + (-n) = mo[p] - n
  BY DEF Shows
<1>3. [mo EXCEPT ![p] = @ + (-n)] = [mo EXCEPT ![p] = @ - n]
  BY <1>2
<1>4. mo[p] + n >= 0 =>
         Shows(Adjusted(v, p, n), left, ph, st, [mo EXCEPT ![p] = @ + n], rd, po, ow, tn, wi, re)
  BY ShowsAdjusted
<1>5. mo[p] + (-n) >= 0 =>
         Shows(Adjusted(v, p, -n), left, ph, st, [mo EXCEPT ![p] = @ + (-n)], rd, po, ow, tn, wi, re)
  BY <1>2, ShowsAdjusted
<1> QED BY <1>1, <1>2, <1>3, <1>4, <1>5

\* A turn that is passed is announced with its seat and round; whatever else
\* changes about a turn the view does not show.
LEMMA ShowsTurn ==
    ASSUME NEW v, NEW left, NEW ph, NEW st, NEW mo, NEW rd, NEW po, NEW ow, NEW tn, NEW wi, NEW re,
           Shows(v, left, ph, st, mo, rd, po, ow, tn, wi, re), NEW t \in Turns
    PROVE  /\ Shows(ReduceEvent(v, TurnAdvanced(t)), left, ph, st, mo, rd, po, ow, t, wi, re)
           /\ (t.seat = tn.seat /\ t.round = tn.round) \/ v.turn.round = 0 =>
                 Shows(v, left, ph, st, mo, rd, po, ow, t, wi, re)
<1>1. PICK w : w = ReduceEvent(v, TurnAdvanced(t))
  OBVIOUS
<1>2. w = [v EXCEPT !.turn = NewTurn(t.seat, t.round)]
  <2>1. PICK e : e = TurnAdvanced(t)
    OBVIOUS
  <2>2. e.type = "turn_advanced" /\ e.seat = t.seat /\ e.round = t.round
    BY <2>1 DEF TurnAdvanced
  <2> QED BY <1>1, <2>1, <2>2, SMT DEF ReduceEvent
<1>3. v \in Views /\ NewTurn(t.seat, t.round) \in Turns
  BY DEF Shows, NewTurn, Turns
<1>4. w \in Views /\ w.turn.seat = t.seat /\ w.turn.round = t.round
  BY <1>2, <1>3 DEF Views, NewTurn
<1>5. /\ w.held = v.held /\ w.phase = v.phase /\ w.money = v.money /\ w.position = v.position
      /\ w.ready = v.ready /\ w.owner = v.owner /\ w.status = v.status
      /\ w.winner = v.winner /\ w.reason = v.reason
  BY <1>2, <1>3 DEF Views
<1>6. Shows(w, left, ph, st, mo, rd, po, ow, t, wi, re)
  BY <1>4, <1>5 DEF Shows
<1>7. (t.seat = tn.seat /\ t.round = tn.round) \/ v.turn.round = 0 =>
         Shows(v, left, ph, st, mo, rd, po, ow, t, wi, re)
  BY DEF Shows
<1> QED BY <1>1, <1>6, <1>7

\* The event that closes a match carries its outcome.
LEMMA ShowsEnd ==
    ASSUME NEW v, NEW left, NEW st, NEW mo, NEW rd, NEW po, NEW ow, NEW tn,
           Shows(v, left, "playing", st, mo, rd, po, ow, tn, NoSeat, "none"),
           NEW s \in Seq(Event), NEW x, Fold(x, s) = v,
           NEW o \in Outcomes, o.phase = "playing" => o.winner = NoSeat /\ o.reason = "none"
    PROVE  Shows(Fold(x, s \o EndEvents(o)), left, o.phase, st, mo, rd, po, ow, tn, o.winner, o.reason)
<1>1. CASE o.phase = "playing"
  <2>1. EndEvents(o) = <<>>
    BY <1>1 DEF EndEvents
  <2> QED BY <1>1, <2>1, FoldBatches
<1>2. CASE o.phase = "ended"
  <2>1. PICK e : e = [type |-> "game_ended", winner |-> o.winner, reason |-> o.reason]
    OBVIOUS
  <2>2. e \in [type : {"game_ended"}, winner : Seats \cup {NoSeat}, reason : Reasons]
    BY <2>1 DEF Outcomes
  <2>3. e \in Event
    BY <2>2 DEF Event
  <2>4. EndEvents(o) = <<e>>
    BY <1>2, <2>1 DEF EndEvents
  <2>5. PICK w : w = ReduceEvent(v, e)
    OBVIOUS
  <2>6. Fold(x, s \o EndEvents(o)) = w
    BY <2>3, <2>4, <2>5, FoldBatches
  <2>7. w = [v EXCEPT !.phase = "ended", !.winner = o.winner, !.reason = o.reason]
    <3>1. e.type = "game_ended" /\ e.winner = o.winner /\ e.reason = o.reason
      BY <2>1
    <3> QED BY <2>5, <3>1, SMT DEF ReduceEvent
  <2>8. v \in Views
    BY DEF Shows
  <2>9. w \in Views /\ w.phase = o.phase /\ w.winner = o.winner /\ w.reason = o.reason
    BY <1>2, <2>7, <2>8 DEF Views, Outcomes
  <2>10. /\ w.held = v.held /\ w.turn = v.turn /\ w.money = v.money /\ w.position = v.position
         /\ w.ready = v.ready /\ w.owner = v.owner /\ w.status = v.status
    BY <2>7, <2>8 DEF Views
  <2>11. Shows(w, left, o.phase, st, mo, rd, po, ow, tn, o.winner, o.reason)
    BY <2>9, <2>10 DEF Shows
  <2> QED BY <2>6, <2>11
<1> QED BY <1>1, <1>2 DEF Outcomes

-----------------------------------------------------------------------------
(* The lobby, followed. *)

\* The view beside the match of the current state, of a match being played.
LEMMA PlayingShown ==
    ASSUME IInv, FoldInv, view.held, phase = "playing"
    PROVE  /\ Shows(view, vacated, "playing", status, money, ready, position, owner, turn, NoSeat, "none")
           /\ status \in [Seats -> Statuses] /\ money \in [Seats -> Int]
           /\ position \in [Seats -> Spaces] /\ turn \in Turns
BY DEF FoldInv, FreshInv, IInv, TypeOK, Statuses, Turns

\* A seat that is taken is shown as a new player's, also when the view still
\* lists the one who left it.
LEMMA FollowJoin ==
    ASSUME IInv, FoldInv, view.held, Join
    PROVE  /\ Shows(Fold(view, events'), vacated, phase', status', money', ready', position',
                    owner', turn', winner', endReason')
           /\ \A q \in Seats : Fold(view, events').status[q] # "absent" =>
                 Fold(view, events').money[q] = StartingMoney /\ Fold(view, events').position[q] = 0
<1>1. PICK p : p = NextSeat
  OBVIOUS
<1>2. PICK e : e = [type |-> "player_joined", player |-> p, amount |-> StartingMoney]
  OBVIOUS
<1>3. p \in Seats /\ status[p] = "absent"
  BY <1>1, NextSeatIsFree DEF IInv, Join
<1>4. /\ status' = [status EXCEPT ![p] = "active"] /\ money' = [money EXCEPT ![p] = StartingMoney]
      /\ ready' = [ready EXCEPT ![p] = FALSE] /\ position' = [position EXCEPT ![p] = 0]
      /\ events' = <<e>>
      /\ UNCHANGED <<phase, owner, turn, winner, endReason>> /\ phase = "lobby"
  BY <1>1, <1>2 DEF Join
<1>5. e \in Event
  <2>1. StartingMoney \in Int
    BY ConfigAssumption DEF ValidConfig
  <2>2. e \in [type : {"player_joined"}, player : Seats, amount : Int]
    BY <1>2, <1>3, <2>1
  <2> QED BY <2>2 DEF Event
<1>6. PICK w : w = Joined(view, e)
  OBVIOUS
<1>7. Fold(view, events') = w
  <2>1. Fold(view, <<e>>) = ReduceEvent(view, e)
    BY <1>5, FoldBatches
  <2>2. e.type = "player_joined"
    BY <1>2
  <2> QED BY <1>4, <1>6, <2>1, <2>2 DEF ReduceEvent
<1>8. /\ Shows(view, vacated, phase, status, money, ready, position, owner, turn, winner, endReason)
      /\ ViewFresh /\ view \in Views
  BY DEF FoldInv
<1>9. /\ status \in [Seats -> Statuses] /\ money \in [Seats -> Int] /\ ready \in [Seats -> BOOLEAN]
      /\ position \in [Seats -> Spaces] /\ 0 \in Spaces /\ StartingMoney \in Int
  BY BoardFacts, ConfigAssumption DEF IInv, TypeOK, Statuses, ValidConfig
<1>10. /\ status'[p] = "active" /\ money'[p] = StartingMoney /\ ready'[p] = FALSE /\ position'[p] = 0
       /\ \A q \in Seats \ {p} : /\ status'[q] = status[q] /\ money'[q] = money[q]
                                /\ position'[q] = position[q]
       /\ money' \in [Seats -> Int] /\ position' \in [Seats -> Spaces]
  BY <1>3, <1>4, <1>9
<1>11. \A q \in Seats \ {p} : ready'[q] = ready[q]
  BY <1>4, <1>9
<1>12. CASE view.status[p] # "absent"
  <2>1. w = view
    BY <1>2, <1>6, <1>12 DEF Joined, Listed
  <2>2. p \in vacated /\ view.money[p] = StartingMoney /\ view.position[p] = 0
    BY <1>3, <1>4, <1>8, <1>12 DEF Shows, ViewFresh
  <2>3. Shows(view, vacated, phase, status', money', ready', position', owner, turn, winner, endReason)
    BY <1>8, <1>10, <1>11, <1>12, <2>2 DEF Shows
  <2> QED BY <1>4, <1>7, <1>8, <2>1, <2>3 DEF ViewFresh
<1>13. CASE view.status[p] = "absent"
  <2>1. w = [view EXCEPT !.status = [view.status EXCEPT ![p] = "active"],
                         !.money = [view.money EXCEPT ![p] = StartingMoney],
                         !.ready = [view.ready EXCEPT ![p] = FALSE],
                         !.position = [view.position EXCEPT ![p] = 0]]
    BY <1>2, <1>6, <1>8, <1>13 DEF Joined, Listed, Views
  <2>2. /\ w.status = [view.status EXCEPT ![p] = "active"]
        /\ w.money = [view.money EXCEPT ![p] = StartingMoney]
        /\ w.ready = [view.ready EXCEPT ![p] = FALSE]
        /\ w.position = [view.position EXCEPT ![p] = 0]
        /\ w.held = view.held /\ w.phase = view.phase /\ w.owner = view.owner /\ w.turn = view.turn
        /\ w.winner = view.winner /\ w.reason = view.reason
    BY <1>8, <2>1 DEF Views
  <2>3. w \in Views
    BY <1>3, <1>8, <1>9, <2>1 DEF Views, Statuses
  <2>4. /\ w.status[p] = "active" /\ w.money[p] = StartingMoney /\ w.position[p] = 0
        /\ \A q \in Seats \ {p} : /\ w.status[q] = view.status[q] /\ w.money[q] = view.money[q]
                                 /\ w.position[q] = view.position[q]
    BY <1>3, <1>8, <2>2 DEF Views
  <2>5. w.ready[p] = FALSE /\ \A q \in Seats \ {p} : w.ready[q] = view.ready[q]
    BY <1>3, <1>8, <2>2 DEF Views
  <2>6. ASSUME NEW q \in Seats, status'[q] # "absent"
        PROVE  /\ w.status[q] # "absent" /\ w.money[q] = money'[q] /\ w.position[q] = position'[q]
               /\ q \notin vacated => w.status[q] = status'[q] /\ w.ready[q] = ready'[q]
    <3>1. CASE q = p
      BY <1>10, <2>4, <2>5, <3>1
    <3>2. CASE q # p
      BY <1>8, <1>10, <1>11, <2>4, <2>5, <2>6, <3>2 DEF Shows
    <3> QED BY <3>1, <3>2
  <2>7. ASSUME NEW q \in Seats, status'[q] = "absent", w.status[q] # "absent" PROVE q \in vacated
    BY <1>8, <1>10, <2>4, <2>7 DEF Shows
  <2>8. Shows(w, vacated, phase, status', money', ready', position', owner, turn, winner, endReason)
    BY <1>8, <1>10, <2>2, <2>3, <2>6, <2>7 DEF Shows
  <2> QED BY <1>4, <1>7, <1>8, <2>4, <2>8 DEF ViewFresh
<1> QED BY <1>12, <1>13

\* A seat vacated in the lobby stays in the view, as an eliminated player's.
LEMMA FollowLeaveLobby ==
    ASSUME IInv, FoldInv, view.held, NEW p \in Seats, LeaveLobby(p)
    PROVE  /\ Shows(Fold(view, events'), vacated \cup {p}, phase', status', money', ready', position',
                    owner', turn', winner', endReason')
           /\ \A q \in Seats : Fold(view, events').status[q] # "absent" =>
                 Fold(view, events').money[q] = StartingMoney /\ Fold(view, events').position[q] = 0
           /\ Present(status) \ Present(status') = {p}
<1>1. PICK e : e = [type |-> "player_left", player |-> p]
  OBVIOUS
<1>2. /\ status' = [status EXCEPT ![p] = "absent"] /\ money' = [money EXCEPT ![p] = 0]
      /\ ready' = [ready EXCEPT ![p] = FALSE] /\ position' = [position EXCEPT ![p] = 0]
      /\ events' = <<e>> /\ status[p] # "absent"
      /\ UNCHANGED <<phase, owner, turn, winner, endReason>> /\ phase = "lobby"
  BY <1>1 DEF LeaveLobby
<1>3. e \in Event
  <2>1. e \in [type : {"player_left", "buy_declined"}, player : Seats]
    BY <1>1
  <2> QED BY <2>1 DEF Event
<1>4. Fold(view, events') = Out(view, e)
  <2>1. Fold(view, <<e>>) = ReduceEvent(view, e)
    BY <1>3, FoldBatches
  <2>2. e.type = "player_left"
    BY <1>1
  <2> QED BY <1>2, <2>1, <2>2 DEF ReduceEvent
<1>5. /\ Shows(view, vacated, phase, status, money, ready, position, owner, turn, winner, endReason)
      /\ ViewFresh /\ view \in Views
  BY DEF FoldInv
<1>6. status \in [Seats -> Statuses] /\ ready \in [Seats -> BOOLEAN]
  BY DEF IInv, TypeOK, Statuses
<1>7. e.player = p
  BY <1>1
<1>8. Shows(Out(view, e), vacated \cup {p}, phase, [status EXCEPT ![p] = "absent"],
            [money EXCEPT ![p] = 0], [ready EXCEPT ![p] = FALSE], [position EXCEPT ![p] = 0],
            owner, turn, winner, endReason)
  BY <1>2, <1>5, <1>6, <1>7, ShowsVacated
<1>9. PICK w : w = Out(view, e)
  OBVIOUS
<1>10. /\ w.money = view.money /\ w.position = view.position
       /\ \A q \in Seats : w.status[q] # "absent" => view.status[q] # "absent"
  <2>1. view.status[p] # "absent"
    BY <1>2, <1>5 DEF Shows
  <2>2. w = [view EXCEPT !.status = [view.status EXCEPT ![p] = "eliminated"]]
    BY <1>7, <1>9, <2>1 DEF Out, Listed
  <2>3. /\ w.money = view.money /\ w.position = view.position
        /\ w.status = [view.status EXCEPT ![p] = "eliminated"]
    BY <1>5, <2>2 DEF Views
  <2> QED BY <1>5, <2>1, <2>3 DEF Views
<1>11. Present(status) \ Present(status') = {p}
  BY <1>2, <1>6 DEF Present
<1> QED BY <1>2, <1>4, <1>5, <1>8, <1>9, <1>10, <1>11 DEF ViewFresh

\* A ready flag is shown as it was set.
LEMMA FollowReady ==
    ASSUME IInv, FoldInv, view.held, NEW p \in Seats, Ready(p)
    PROVE  /\ Shows(Fold(view, events'), vacated, phase', status', money', ready', position',
                    owner', turn', winner', endReason')
           /\ \A q \in Seats : Fold(view, events').status[q] # "absent" =>
                 Fold(view, events').money[q] = StartingMoney /\ Fold(view, events').position[q] = 0
<1>1. PICK b \in BOOLEAN : b = ~ready[p]
  OBVIOUS
<1>2. PICK e : e = [type |-> "player_ready_changed", player |-> p, ready |-> b]
  OBVIOUS
<1>3. /\ ready' = [ready EXCEPT ![p] = b] /\ events' = <<e>> /\ status[p] # "absent"
      /\ UNCHANGED <<phase, status, money, position, owner, turn, winner, endReason>>
      /\ phase = "lobby"
  BY <1>1, <1>2 DEF Ready
<1>4. e \in Event
  <2>1. e \in [type : {"player_ready_changed"}, player : Seats, ready : BOOLEAN]
    BY <1>2
  <2> QED BY <2>1 DEF Event
<1>5. PICK w : w = Readied(view, e)
  OBVIOUS
<1>6. Fold(view, events') = w
  <2>1. Fold(view, <<e>>) = ReduceEvent(view, e)
    BY <1>4, FoldBatches
  <2>2. e.type = "player_ready_changed"
    BY <1>2
  <2> QED BY <1>3, <1>5, <2>1, <2>2 DEF ReduceEvent
<1>7. /\ Shows(view, vacated, phase, status, money, ready, position, owner, turn, winner, endReason)
      /\ ViewFresh /\ view \in Views
  BY DEF FoldInv
<1>8. w = [view EXCEPT !.ready = [view.ready EXCEPT ![p] = b]]
  <2>1. view.status[p] # "absent"
    BY <1>3, <1>7 DEF Shows
  <2>2. e.player = p /\ e.ready = b
    BY <1>2
  <2> QED BY <1>5, <2>1, <2>2 DEF Readied, Listed
<1>9. /\ w.ready = [view.ready EXCEPT ![p] = b]
      /\ w.status = view.status /\ w.money = view.money /\ w.position = view.position
      /\ w.held = view.held /\ w.phase = view.phase /\ w.owner = view.owner /\ w.turn = view.turn
      /\ w.winner = view.winner /\ w.reason = view.reason
  BY <1>7, <1>8 DEF Views
<1>10. w \in Views
  BY <1>7, <1>8 DEF Views
<1>11. ready \in [Seats -> BOOLEAN] /\ view.ready \in [Seats -> BOOLEAN]
  BY <1>7 DEF Views, IInv, TypeOK
<1>12. /\ w.ready[p] = ready'[p]
       /\ \A q \in Seats \ {p} : w.ready[q] = view.ready[q] /\ ready'[q] = ready[q]
  BY <1>3, <1>9, <1>11
<1>13. Shows(w, vacated, phase, status, money, ready', position, owner, turn, winner, endReason)
  BY <1>7, <1>9, <1>10, <1>12 DEF Shows
<1> QED BY <1>3, <1>6, <1>7, <1>9, <1>13 DEF ViewFresh

\* The start, which says nothing of the first turn: the view has none yet.
LEMMA FollowStart ==
    ASSUME IInv, FoldInv, view.held, NEW p \in Seats, Start(p)
    PROVE  Shows(Fold(view, events'), vacated, phase', status', money', ready', position',
                 owner', turn', winner', endReason')
<1>1. PICK e : e = [type |-> "game_started"]
  OBVIOUS
<1>2. /\ phase' = "playing" /\ events' = <<e>> /\ phase = "lobby"
      /\ UNCHANGED <<status, money, ready, position, owner, winner, endReason>>
  BY <1>1 DEF Start, CanStart
<1>3. e \in Event
  <2>1. e \in [type : {"game_started"}]
    BY <1>1
  <2> QED BY <2>1 DEF Event
<1>4. PICK w : w = [view EXCEPT !.phase = "playing"]
  OBVIOUS
<1>5. Fold(view, events') = w
  <2>1. Fold(view, <<e>>) = ReduceEvent(view, e)
    BY <1>3, FoldBatches
  <2>2. e.type = "game_started"
    BY <1>1
  <2> QED BY <1>2, <1>4, <2>1, <2>2 DEF ReduceEvent
<1>6. /\ Shows(view, vacated, phase, status, money, ready, position, owner, turn, winner, endReason)
      /\ view \in Views
  BY DEF FoldInv
<1>7. /\ w.status = view.status /\ w.money = view.money /\ w.position = view.position
      /\ w.held = view.held /\ w.phase = "playing" /\ w.owner = view.owner /\ w.turn = view.turn
      /\ w.winner = view.winner /\ w.reason = view.reason /\ w.ready = view.ready
      /\ w \in Views
  BY <1>4, <1>6 DEF Views
<1>8. ~(w.turn.round > 0)
  <2>1. turn.round = 0
    BY <1>2 DEF FoldInv, FreshInv
  <2> QED BY <1>6, <1>7, <2>1 DEF Shows
<1>9. Shows(w, vacated, "playing", status, money, ready, position, owner, turn', winner, endReason)
  BY <1>6, <1>7, <1>8 DEF Shows
<1> QED BY <1>2, <1>5, <1>9

-----------------------------------------------------------------------------
(* The running match, followed. *)

\* A match that goes on has no outcome.
LEMMA NoOutcomeYet ==
    ASSUME NEW st, NEW mo, NEW ow, NEW r
    PROVE  /\ MaybeEndForInsufficientPlayers(st).phase = "playing" =>
                 /\ MaybeEndForInsufficientPlayers(st).winner = NoSeat
                 /\ MaybeEndForInsufficientPlayers(st).reason = "none"
           /\ EvaluateMatchEnd(st, mo, ow, r).phase = "playing" =>
                 /\ EvaluateMatchEnd(st, mo, ow, r).winner = NoSeat
                 /\ EvaluateMatchEnd(st, mo, ow, r).reason = "none"
<1>1. Cardinality(Active(st)) \in Nat
  BY SeatSets DEF Active
<1> DEFINE m == MaybeEndForInsufficientPlayers(st)
           e == EvaluateMatchEnd(st, mo, ow, r)
<1>2. /\ Cardinality(Active(st)) >= 2 => m = Playing
      /\ Cardinality(Active(st)) < 2 => m.phase = "ended"
  BY <1>1 DEF MaybeEndForInsufficientPlayers, Ended
<1>3. /\ Cardinality(Active(st)) < 2 => e = m
      /\ Cardinality(Active(st)) >= 2 => e = Playing \/ e.phase = "ended"
  BY <1>1 DEF EvaluateMatchEnd, Ended
<1> HIDE DEF m, e
<1>4. Playing.winner = NoSeat /\ Playing.reason = "none"
  BY DEF Playing
<1>5. (m = Playing \/ m.phase = "ended") /\ (e = Playing \/ e.phase = "ended")
  BY <1>1, <1>2, <1>3
<1>6. (m.phase = "playing" => m.winner = NoSeat /\ m.reason = "none")
      /\ (e.phase = "playing" => e.winner = NoSeat /\ e.reason = "none")
  BY <1>4, <1>5
<1> QED BY <1>6 DEF m, e

\* The two events of an elimination, reduced one after the other.
LEMMA ShowsBankrupted ==
    ASSUME NEW v, NEW left, NEW ph, NEW st, NEW mo, NEW rd, NEW po, NEW tn, NEW wi, NEW re,
           Shows(v, left, ph, st, mo, rd, po, owner, tn, wi, re), st \in [Seats -> Statuses],
           NEW p \in Seats, st[p] # "absent", NEW cause \in Causes,
           NEW s \in Seq(Event), NEW x, Fold(x, s) = v
    PROVE  Shows(Fold(x, s \o Bankrupted(p, cause)), left, ph, [st EXCEPT ![p] = "eliminated"],
                 mo, rd, po, Released(p), tn, wi, re)
<1>1. PICK e : e = [type |-> "player_bankrupt", player |-> p, cause |-> cause,
                    released |-> {z \in Spaces : owner[z] = p}]
  OBVIOUS
<1>2. PICK f : f = [type |-> "player_eliminated", player |-> p, cause |-> cause]
  OBVIOUS
<1>3. /\ e \in [type : {"player_bankrupt"}, player : Seats, cause : Causes, released : SUBSET Spaces]
      /\ f \in [type : {"player_eliminated"}, player : Seats, cause : Causes]
  BY <1>1, <1>2
<1>4. e \in Event /\ f \in Event
  BY <1>3 DEF Event
<1>5. Bankrupted(p, cause) = <<e, f>>
  BY <1>1, <1>2 DEF Bankrupted
<1>6. PICK u : u = Reverted(v, e)
  OBVIOUS
<1>7. PICK st2 : st2 = [st EXCEPT ![p] = "eliminated"]
  OBVIOUS
<1>8. Shows(u, left, ph, st2, mo, rd, po, Released(p), tn, wi, re)
  <2>1. e.player = p /\ \A z \in Spaces : z \in e.released <=> owner[z] = p
    BY <1>1
  <2>2. PICK ow : ow = Released(p)
    OBVIOUS
  <2>3. ow \in [Spaces -> Seats \cup {NoSeat}]
    BY <2>2 DEF Released, Shows, Views
  <2>4. \A z \in Spaces : ow[z] = IF z \in e.released THEN NoSeat ELSE owner[z]
    BY <2>1, <2>2 DEF Released
  <2>5. Shows(u, left, ph, st2, mo, rd, po, ow, tn, wi, re)
    BY <1>6, <1>7, <2>1, <2>3, <2>4, ShowsReverted
  <2> QED BY <2>2, <2>5
<1>9. st2 \in [Seats -> Statuses] /\ st2[p] # "absent" /\ [st2 EXCEPT ![p] = "eliminated"] = st2
  BY <1>7 DEF Statuses
<1>10. f.player = p
  BY <1>2
<1>11. Shows(Out(u, f), left, ph, st2, mo, rd, po, Released(p), tn, wi, re)
  BY <1>8, <1>9, <1>10, ShowsOut
<1>12. Fold(x, s \o <<e, f>>) = ReduceEvent(ReduceEvent(v, e), f)
  BY <1>4, FoldBatches
<1>13. ReduceEvent(v, e) = u
  BY <1>1, <1>6 DEF ReduceEvent
<1>14. ReduceEvent(u, f) = Out(u, f)
  BY <1>2 DEF ReduceEvent
<1> QED BY <1>5, <1>7, <1>11, <1>12, <1>13, <1>14

\* A throw: the move, and the bonus for crossing go.
LEMMA FollowMove ==
    ASSUME IInv, FoldInv, view.held, NEW p \in Seats, NEW d \in Dice, RequireTurn(p, "await_roll"),
           position' = [position EXCEPT ![p] = Target(p, d)]
    PROVE  Shows(Fold(view, MoveEvents(p, d)), vacated, "playing", status, Banked(p, d), ready,
                 position', owner, turn, NoSeat, "none")
<1>1. phase = "playing" /\ status[p] = "active" /\ position \in [Seats -> Spaces]
  BY TurnFacts
<1>2. Shows(view, vacated, "playing", status, money, ready, position, owner, turn, NoSeat, "none")
  BY <1>1, PlayingShown
<1>3. Target(p, d) \in Spaces /\ Passes(p, d) \in Nat /\ PassingGoBonus * Passes(p, d) \in Nat
  BY <1>1, ThrowFacts
<1>4. PICK n : n = PassingGoBonus * Passes(p, d)
  OBVIOUS
<1>5. PICK e : e = [type |-> "dice_rolled", player |-> p, to |-> Target(p, d)]
  OBVIOUS
<1>6. e.player = p /\ e.to = Target(p, d) /\ e.type = "dice_rolled"
  BY <1>5
<1>7. PICK w : w = Moved(view, e)
  OBVIOUS
<1>8. Shows(w, vacated, "playing", status, money, ready, position', owner, turn, NoSeat, "none")
  BY <1>1, <1>2, <1>3, <1>6, <1>7, ShowsMoved
<1>9. e \in Event
  <2>1. e \in [type : {"dice_rolled"}, player : Seats, to : Spaces]
    BY <1>3, <1>5
  <2> QED BY <2>1 DEF Event
<1>10. Fold(view, <<e>>) = w
  <2>1. ReduceEvent(view, e) = w
    BY <1>6, <1>7 DEF ReduceEvent
  <2> QED BY <1>9, <2>1, FoldBatches
<1>11. /\ money \in [Seats -> Int] /\ money[p] >= 0 /\ n \in Int /\ n >= 0
       /\ Banked(p, d) = [money EXCEPT ![p] = @ + n]
  BY <1>3, <1>4 DEF IInv, TypeOK, Solvent, Banked
<1>12. CASE Passes(p, d) > 0
  <2>1. MoveEvents(p, d) = <<e>> \o <<ToPlayer(p, n)>>
    BY <1>4, <1>5, <1>12 DEF MoveEvents
  <2>2. ToPlayer(p, n) \in Event /\ <<e>> \in Seq(Event)
    BY <1>9, <1>11, MoneyEventTypes, Logs
  <2>3. Fold(view, MoveEvents(p, d)) = ReduceEvent(w, ToPlayer(p, n))
    <3>1. PICK t : t = ToPlayer(p, n)
      OBVIOUS
    <3>2. Fold(view, <<e>> \o <<t>>) = ReduceEvent(Fold(view, <<e>>), t)
      BY <2>2, <3>1, FoldBatches
    <3> QED BY <1>10, <2>1, <3>1, <3>2
  <2>4. status[p] # "absent" /\ money[p] + n >= 0
    BY <1>1, <1>11
  <2>5. Shows(ReduceEvent(w, ToPlayer(p, n)), vacated, "playing", status, [money EXCEPT ![p] = @ + n],
              ready, position', owner, turn, NoSeat, "none")
    BY <1>8, <1>11, <2>4, ShowsTransfer
  <2> QED BY <1>11, <2>3, <2>5
<1>13. CASE ~(Passes(p, d) > 0)
  <2>1. MoveEvents(p, d) = <<e>> \o <<>>
    BY <1>5, <1>13 DEF MoveEvents
  <2>2. <<e>> \in Seq(Event)
    BY <1>9, Logs
  <2>3. Fold(view, MoveEvents(p, d)) = w
    BY <1>10, <2>1, <2>2, FoldBatches
  <2>4. Passes(p, d) = 0 /\ PassingGoBonus \in Int
    BY <1>3, <1>13, ConfigAssumption DEF ValidConfig
  <2>5. n = 0
    BY <1>4, <2>4
  <2>6. [money EXCEPT ![p] = @ + n] = money
    BY <1>11, <2>5
  <2> QED BY <1>8, <1>11, <2>3, <2>6
<1> QED BY <1>12, <1>13

\* The tail of a board action: if the view shows the new board, it shows the
\* match as the evaluation leaves it.
LEMMA FollowSettle ==
    ASSUME NEW st, NEW mo, NEW ow, NEW tn, NEW evs \in Seq(Event), Settle(st, mo, ow, tn, evs),
           Shows(Fold(view, evs), vacated, "playing", st, mo, ready, position', ow, tn, NoSeat, "none")
    PROVE  Shows(Fold(view, events'), vacated, phase', status', money', ready', position',
                 owner', turn', winner', endReason')
<1>1. PICK o : o = EvaluateMatchEnd(st, mo, ow, tn.round)
  OBVIOUS
<1>2. /\ status' = st /\ money' = mo /\ owner' = ow /\ turn' = tn /\ ready' = ready
      /\ phase' = o.phase /\ winner' = o.winner /\ endReason' = o.reason
      /\ events' = evs \o EndEvents(o)
  BY <1>1 DEF Settle, Conclude
<1>3. o \in Outcomes /\ (o.phase = "playing" => o.winner = NoSeat /\ o.reason = "none")
  BY <1>1, OutcomeFacts, NoOutcomeYet
<1>4. Shows(Fold(view, evs \o EndEvents(o)), vacated, o.phase, st, mo, ready, position', ow, tn,
            o.winner, o.reason)
  BY <1>3, ShowsEnd
<1> QED BY <1>2, <1>4

\* A roll that leaves its player solvent: the turn keeps its seat and round.
LEMMA RolledTurn ==
    ASSUME IInv, NEW p \in Seats, RequireTurn(p, "await_roll"), NEW d \in Dice, NEW offered \in BOOLEAN
    PROVE  /\ AfterRoll(d, offered) \in Turns
           /\ AfterRoll(d, offered).seat = turn.seat /\ AfterRoll(d, offered).round = turn.round
<1>1. AfterRoll(d, offered) \in Turns
  BY AfterRollFacts
<1>2. turn \in Turns
  BY TurnFacts
<1>3. AfterRoll(d, offered).seat = turn.seat /\ AfterRoll(d, offered).round = turn.round
  BY <1>2 DEF AfterRoll, Turns
<1> QED BY <1>1, <1>3

\* Nothing is due.
LEMMA FollowLandQuietly ==
    ASSUME IInv, FoldInv, view.held, NEW p \in Seats, NEW d \in Dice, RequireTurn(p, "await_roll"),
           position' = [position EXCEPT ![p] = Target(p, d)], LandQuietly(p, d)
    PROVE  Shows(Fold(view, events'), vacated, phase', status', money', ready', position',
                 owner', turn', winner', endReason')
<1>1. PICK tn : tn = AfterRoll(d, Offered(p, d))
  OBVIOUS
<1>2. Settle(status, Banked(p, d), owner, tn, MoveEvents(p, d))
  BY <1>1 DEF LandQuietly
<1>3. Offered(p, d) \in BOOLEAN
  BY DEF Offered
<1>4. tn \in Turns /\ tn.seat = turn.seat /\ tn.round = turn.round
  BY <1>1, <1>3, RolledTurn
<1>5. MoveEvents(p, d) \in Seq(Event)
  BY RollFacts
<1>6. Shows(Fold(view, MoveEvents(p, d)), vacated, "playing", status, Banked(p, d), ready,
            position', owner, tn, NoSeat, "none")
  BY <1>4, FollowMove, ShowsTurn
<1> QED BY <1>2, <1>5, <1>6, FollowSettle

\* A tax paid.
LEMMA FollowPayTax ==
    ASSUME IInv, FoldInv, view.held, NEW p \in Seats, NEW d \in Dice, RequireTurn(p, "await_roll"),
           position' = [position EXCEPT ![p] = Target(p, d)], PayTax(p, d)
    PROVE  Shows(Fold(view, events'), vacated, phase', status', money', ready', position',
                 owner', turn', winner', endReason')
<1>1. PICK due : due = Board[Target(p, d)].amount
  OBVIOUS
<1>2. PICK mo : mo = [Banked(p, d) EXCEPT ![p] = @ - due]
  OBVIOUS
<1>3. PICK tn : tn = AfterRoll(d, FALSE)
  OBVIOUS
<1>4. PICK evs : evs = Append(MoveEvents(p, d), ToBank(p, due))
  OBVIOUS
<1>5. Banked(p, d)[p] >= due /\ Settle(status, mo, owner, tn, evs)
  BY <1>1, <1>2, <1>3, <1>4 DEF PayTax, Affords
<1>6. due \in Int
  BY <1>1, RollFacts, BoardFacts
<1>7. MoveEvents(p, d) \in Seq(Event) /\ ToBank(p, due) \in Event
  BY <1>6, RollFacts, MoneyEventTypes
<1>8. evs \in Seq(Event)
  BY <1>4, <1>7, Logs
<1>9. tn \in Turns /\ tn.seat = turn.seat /\ tn.round = turn.round
  BY <1>3, RolledTurn
<1>10. PICK v : v = Fold(view, MoveEvents(p, d))
  OBVIOUS
<1>11. Fold(view, evs) = ReduceEvent(v, ToBank(p, due))
  BY <1>4, <1>7, <1>10, FoldMore
<1>12. Shows(v, vacated, "playing", status, Banked(p, d), ready, position', owner, turn, NoSeat, "none")
  BY <1>10, FollowMove
<1>13. status[p] # "absent" /\ Banked(p, d)[p] - due >= 0
  BY <1>5, <1>6, TurnFacts, BankedFacts
<1>14. Shows(ReduceEvent(v, ToBank(p, due)), vacated, "playing", status, mo, ready, position',
             owner, turn, NoSeat, "none")
  BY <1>2, <1>6, <1>12, <1>13, ShowsTransfer
<1>15. Shows(Fold(view, evs), vacated, "playing", status, mo, ready, position', owner, tn, NoSeat, "none")
  BY <1>9, <1>11, <1>14, ShowsTurn
<1> QED BY <1>5, <1>8, <1>15, FollowSettle

\* Rent paid: two balances change, by one event.
LEMMA FollowPayRent ==
    ASSUME IInv, FoldInv, view.held, NEW p \in Seats, NEW d \in Dice, RequireTurn(p, "await_roll"),
           position' = [position EXCEPT ![p] = Target(p, d)], PayRent(p, d)
    PROVE  Shows(Fold(view, events'), vacated, phase', status', money', ready', position',
                 owner', turn', winner', endReason')
<1>1. PICK s : s = Target(p, d)
  OBVIOUS
<1>2. PICK due, r : due = Board[s].rent /\ r = owner[s]
  OBVIOUS
<1>3. PICK mo : mo = [Banked(p, d) EXCEPT ![p] = @ - due, ![r] = @ + due]
  OBVIOUS
<1>4. PICK tn : tn = AfterRoll(d, FALSE)
  OBVIOUS
<1>5. PICK e : e = [type |-> "rent_paid", player |-> p, payee |-> r, amount |-> due]
  OBVIOUS
<1>6. PICK evs : evs = Append(MoveEvents(p, d), e)
  OBVIOUS
<1>7. RentDue(p, s) /\ Banked(p, d)[p] >= due /\ Settle(status, mo, owner, tn, evs)
  BY <1>1, <1>2, <1>3, <1>4, <1>5, <1>6 DEF PayRent, Affords
<1>8. s \in Spaces /\ Board[s].kind = "property" /\ status[r] = "active" /\ r \notin {NoSeat, p}
  BY <1>1, <1>2, <1>7, RollFacts DEF RentDue
<1>9. due \in Int /\ due >= 0
  BY <1>2, <1>8, BoardFacts
<1>10. r \in Seats
  BY <1>2, <1>8 DEF IInv, TypeOK
<1>11. e \in Event
  <2>1. e \in [type : {"rent_paid"}, player : Seats, payee : Seats, amount : Int]
    BY <1>5, <1>9, <1>10
  <2> QED BY <2>1 DEF Event
<1>12. MoveEvents(p, d) \in Seq(Event)
  BY RollFacts
<1>13. evs \in Seq(Event)
  BY <1>6, <1>11, <1>12, Logs
<1>14. tn \in Turns /\ tn.seat = turn.seat /\ tn.round = turn.round
  BY <1>4, RolledTurn
<1>15. PICK v : v = Fold(view, MoveEvents(p, d))
  OBVIOUS
<1>16. Fold(view, evs) = RentPaid(v, e)
  <2>1. ReduceEvent(v, e) = RentPaid(v, e)
    BY <1>5 DEF ReduceEvent
  <2> QED BY <1>6, <1>11, <1>12, <1>15, <2>1, FoldMore
<1>17. Shows(v, vacated, "playing", status, Banked(p, d), ready, position', owner, turn, NoSeat, "none")
  BY <1>15, FollowMove
<1>18. PICK bank : bank = Banked(p, d)
  OBVIOUS
<1>19. status[p] # "absent" /\ status[r] # "absent" /\ p # r /\ bank[p] - due >= 0 /\ bank[r] >= 0
  BY <1>7, <1>8, <1>9, <1>10, <1>18, TurnFacts, BankedFacts
<1>20. e.player = p /\ e.payee = r /\ e.amount = due
  BY <1>5
<1>21. Shows(RentPaid(v, e), vacated, "playing", status, mo, ready, position', owner, turn, NoSeat, "none")
  BY <1>3, <1>9, <1>10, <1>17, <1>18, <1>19, <1>20, ShowsRent
<1>22. Shows(Fold(view, evs), vacated, "playing", status, mo, ready, position', owner, tn, NoSeat, "none")
  BY <1>14, <1>16, <1>21, ShowsTurn
<1> QED BY <1>7, <1>13, <1>22, FollowSettle

\* A bankruptcy: the bonus stays, the holdings go back, the turn moves on.
LEMMA FollowGoBankrupt ==
    ASSUME IInv, FoldInv, view.held, NEW p \in Seats, NEW d \in Dice, RequireTurn(p, "await_roll"),
           position' = [position EXCEPT ![p] = Target(p, d)], GoBankrupt(p, d)
    PROVE  Shows(Fold(view, events'), vacated, phase', status', money', ready', position',
                 owner', turn', winner', endReason')
<1>1. PICK cause \in Causes :
         cause = IF Board[Target(p, d)].kind = "tax" THEN "bankruptcy_tax" ELSE "bankruptcy_rent"
  BY DEF Causes
<1>2. PICK st : st = [status EXCEPT ![p] = "eliminated"]
  OBVIOUS
<1>3. PICK tn : tn = IF Active(st) = {} THEN turn ELSE PassTurn(st, p)
  OBVIOUS
<1>4. PICK evs : evs = MoveEvents(p, d) \o Bankrupted(p, cause)
  OBVIOUS
<1>5. PICK adv : adv = IF Active(st) = {} THEN <<>> ELSE <<TurnAdvanced(tn)>>
  OBVIOUS
<1>6. Settle(st, Banked(p, d), Released(p), tn, evs \o adv)
  BY <1>1, <1>2, <1>3, <1>4, <1>5 DEF GoBankrupt
<1>7. /\ status \in [Seats -> Statuses] /\ turn \in Turns /\ turn.round \in Nat
      /\ status[p] # "absent"
  BY TurnFacts
<1>8. tn \in Turns
  BY <1>3, <1>7, PassTurnFacts
<1>9. TurnAdvanced(tn) \in Event
  BY <1>8, TurnAdvancedType
<1>10. MoveEvents(p, d) \in Seq(Event) /\ Bankrupted(p, cause) \in Seq(Event)
  BY RollFacts, BankruptedType
<1>11. evs \in Seq(Event) /\ adv \in Seq(Event)
  BY <1>4, <1>5, <1>9, <1>10, Logs
<1>12. PICK v : v = Fold(view, evs)
  OBVIOUS
<1>13. Shows(v, vacated, "playing", st, Banked(p, d), ready, position', Released(p), turn, NoSeat, "none")
  BY <1>2, <1>4, <1>7, <1>10, <1>12, FollowMove, ShowsBankrupted
<1>14. Shows(Fold(view, evs \o adv), vacated, "playing", st, Banked(p, d), ready, position', Released(p), tn,
             NoSeat, "none")
  <2>1. CASE Active(st) = {}
    BY <1>3, <1>5, <1>11, <1>12, <1>13, <2>1, FoldBatches
  <2>2. CASE Active(st) # {}
    <3>1. Fold(view, evs \o adv) = ReduceEvent(v, TurnAdvanced(tn))
      BY <1>5, <1>9, <1>11, <1>12, <2>2, FoldBatches
    <3> QED BY <1>8, <1>13, <3>1, ShowsTurn
  <2> QED BY <2>1, <2>2
<1>15. evs \o adv \in Seq(Event)
  BY <1>11, Logs
<1> QED BY <1>6, <1>14, <1>15, FollowSettle

\* A roll is one of the four landings.
LEMMA FollowRoll ==
    ASSUME IInv, FoldInv, view.held, NEW p \in Seats, NEW d \in Dice, Roll(p, d)
    PROVE  Shows(Fold(view, events'), vacated, phase', status', money', ready', position',
                 owner', turn', winner', endReason')
BY FollowLandQuietly, FollowPayTax, FollowPayRent, FollowGoBankrupt DEF Roll

\* A purchase: the owner and the price, by one event.
LEMMA FollowBuy ==
    ASSUME IInv, FoldInv, view.held, NEW p \in Seats, Buy(p)
    PROVE  Shows(Fold(view, events'), vacated, phase', status', money', ready', position',
                 owner', turn', winner', endReason')
<1>1. PICK s, n : s = position[p] /\ n = Board[s].price
  OBVIOUS
<1>2. PICK mo, ow : mo = [money EXCEPT ![p] = @ - n] /\ ow = [owner EXCEPT ![s] = p]
  OBVIOUS
<1>3. PICK e : e = [type |-> "property_bought", player |-> p, space |-> s, amount |-> n]
  OBVIOUS
<1>4. /\ Deciding(p) /\ money[p] >= n /\ Settle(status, mo, ow, Decided, <<e>>)
      /\ position' = position /\ rolls' = rolls
  BY <1>1, <1>2, <1>3 DEF Buy
<1>5. RequireTurn(p, "await_buy_decision")
  BY <1>4 DEF Deciding
<1>6. phase = "playing" /\ status[p] = "active" /\ turn \in Turns /\ money \in [Seats -> Int]
  BY <1>5, TurnFacts
<1>7. s \in Spaces /\ n \in Int
  BY <1>1, <1>4, DecidingFacts, BoardFacts
<1>8. e \in Event
  <2>1. e \in [type : {"property_bought"}, player : Seats, space : Spaces, amount : Int]
    BY <1>3, <1>7
  <2> QED BY <2>1 DEF Event
<1>9. Fold(view, <<e>>) = Bought(view, e)
  <2>1. ReduceEvent(view, e) = Bought(view, e)
    BY <1>3 DEF ReduceEvent
  <2> QED BY <1>8, <2>1, FoldBatches
<1>10. e.player = p /\ e.space = s /\ e.amount = n /\ status[p] # "absent" /\ money[p] - n >= 0
  BY <1>3, <1>4, <1>6, <1>7
<1>11. Shows(view, vacated, "playing", status, money, ready, position, owner, turn, NoSeat, "none")
  BY <1>6, PlayingShown
<1>12. Shows(Bought(view, e), vacated, "playing", status, mo, ready, position, ow, turn, NoSeat, "none")
  BY <1>2, <1>7, <1>10, <1>11, ShowsBought
<1>13. Decided \in Turns /\ Decided.seat = turn.seat /\ Decided.round = turn.round
  BY <1>6 DEF Decided, Turns
<1>14. Shows(Fold(view, <<e>>), vacated, "playing", status, mo, ready, position', ow, Decided, NoSeat, "none")
  BY <1>4, <1>9, <1>12, <1>13, ShowsTurn
<1>15. <<e>> \in Seq(Event)
  BY <1>8, Logs
<1> QED BY <1>4, <1>14, <1>15, FollowSettle

\* A declined offer changes nothing the view shows.
LEMMA FollowDecline ==
    ASSUME IInv, FoldInv, view.held, NEW p \in Seats, Decline(p)
    PROVE  Shows(Fold(view, events'), vacated, phase', status', money', ready', position',
                 owner', turn', winner', endReason')
<1>1. PICK e : e = [type |-> "buy_declined", player |-> p]
  OBVIOUS
<1>2. Deciding(p) /\ Settle(status, money, owner, Decided, <<e>>) /\ position' = position
  BY <1>1 DEF Decline
<1>3. phase = "playing" /\ turn \in Turns
  BY <1>2, TurnFacts DEF Deciding
<1>4. e \in Event
  <2>1. e \in [type : {"player_left", "buy_declined"}, player : Seats]
    BY <1>1
  <2> QED BY <2>1 DEF Event
<1>5. Fold(view, <<e>>) = view
  <2>1. ReduceEvent(view, e) = view
    BY <1>1 DEF ReduceEvent
  <2> QED BY <1>4, <2>1, FoldBatches
<1>6. Shows(view, vacated, "playing", status, money, ready, position, owner, turn, NoSeat, "none")
  BY <1>3, PlayingShown
<1>7. Decided \in Turns /\ Decided.seat = turn.seat /\ Decided.round = turn.round
  BY <1>3 DEF Decided, Turns
<1>8. Shows(Fold(view, <<e>>), vacated, "playing", status, money, ready, position', owner, Decided, NoSeat, "none")
  BY <1>2, <1>5, <1>6, <1>7, ShowsTurn
<1>9. <<e>> \in Seq(Event)
  BY <1>4, Logs
<1> QED BY <1>2, <1>8, <1>9, FollowSettle

\* A turn passed.
LEMMA FollowEndTurn ==
    ASSUME IInv, FoldInv, view.held, NEW p \in Seats, EndTurn(p)
    PROVE  Shows(Fold(view, events'), vacated, phase', status', money', ready', position',
                 owner', turn', winner', endReason')
<1>1. PICK tn : tn = PassTurn(status, p)
  OBVIOUS
<1>2. /\ RequireTurn(p, "turn_over") /\ Settle(status, money, owner, tn, <<TurnAdvanced(tn)>>)
      /\ position' = position
  BY <1>1 DEF EndTurn
<1>3. phase = "playing" /\ turn.round \in Nat
  BY <1>2, TurnFacts
<1>4. tn \in Turns
  BY <1>1, <1>3, PassTurnFacts
<1>5. TurnAdvanced(tn) \in Event /\ <<TurnAdvanced(tn)>> \in Seq(Event)
  BY <1>4, TurnAdvancedType, Logs
<1>6. Fold(view, <<TurnAdvanced(tn)>>) = ReduceEvent(view, TurnAdvanced(tn))
  BY <1>5, FoldBatches
<1>7. Shows(view, vacated, "playing", status, money, ready, position, owner, turn, NoSeat, "none")
  BY <1>3, PlayingShown
<1>8. Shows(Fold(view, <<TurnAdvanced(tn)>>), vacated, "playing", status, money, ready, position', owner, tn,
            NoSeat, "none")
  BY <1>2, <1>4, <1>6, <1>7, ShowsTurn
<1> QED BY <1>2, <1>5, <1>8, FollowSettle

\* A player who leaves a running match: out, with the holdings of an active
\* player, and the turn if it was theirs.
LEMMA FollowLeaveMatch ==
    ASSUME IInv, FoldInv, view.held, NEW p \in Seats, LeaveMatch(p)
    PROVE  Shows(Fold(view, events'), vacated, phase', status', money', ready', position',
                 owner', turn', winner', endReason')
<1>1. PICK st : st = [status EXCEPT ![p] = "eliminated"]
  OBVIOUS
<1>2. PICK o : o = MaybeEndForInsufficientPlayers(st)
  OBVIOUS
<1>3. PICK wasActive \in BOOLEAN : wasActive = (status[p] = "active")
  OBVIOUS
<1>4. PICK passes \in BOOLEAN : passes = (o.phase = "playing" /\ turn.seat = p)
  OBVIOUS
<1>5. PICK tn : tn = IF passes THEN PassTurn(st, p) ELSE turn
  OBVIOUS
<1>6. PICK e : e = [type |-> "player_left", player |-> p]
  OBVIOUS
<1>7. PICK b : b = IF wasActive THEN Bankrupted(p, "voluntary_leave") ELSE <<>>
  OBVIOUS
<1>8. PICK t : t = IF passes THEN <<TurnAdvanced(tn)>> ELSE <<>>
  OBVIOUS
<1>9. PICK ow : ow = IF wasActive THEN Released(p) ELSE owner
  OBVIOUS
<1>10. /\ phase = "playing" /\ status[p] # "absent"
       /\ status' = st /\ owner' = ow /\ turn' = tn
       /\ phase' = o.phase /\ winner' = o.winner /\ endReason' = o.reason
       /\ events' = <<e>> \o b \o EndEvents(o) \o t
       /\ money' = money /\ ready' = ready /\ position' = position
  BY <1>1, <1>2, <1>3, <1>4, <1>5, <1>6, <1>7, <1>8, <1>9 DEF LeaveMatch, Conclude
<1>11. /\ Shows(view, vacated, "playing", status, money, ready, position, owner, turn, NoSeat, "none")
       /\ status \in [Seats -> Statuses] /\ turn \in Turns /\ turn.round \in Nat
  BY <1>10, PlayingShown DEF Turns
<1>12. o \in Outcomes /\ (o.phase = "playing" => o.winner = NoSeat /\ o.reason = "none")
  BY <1>2, ShortageFacts, NoOutcomeYet
<1>13. tn \in Turns
  BY <1>5, <1>11, PassTurnFacts
<1>14. TurnAdvanced(tn) \in Event
  BY <1>13, TurnAdvancedType
<1>15. e \in Event
  <2>1. e \in [type : {"player_left", "buy_declined"}, player : Seats]
    BY <1>6
  <2> QED BY <2>1 DEF Event
<1>16. <<e>> \in Seq(Event) /\ b \in Seq(Event) /\ EndEvents(o) \in Seq(Event)
  <2>1. "voluntary_leave" \in Causes
    BY DEF Causes
  <2> QED BY <1>7, <1>12, <1>15, <2>1, BankruptedType, EndEventsType, Logs
<1>17. <<e>> \o b \in Seq(Event)
  BY <1>16, Logs
<1>18. <<e>> \o b \o EndEvents(o) \in Seq(Event)
  BY <1>16, <1>17, Logs
<1>19. PICK u : u = Out(view, e)
  OBVIOUS
<1>20. Fold(view, <<e>>) = u
  <2>1. ReduceEvent(view, e) = u
    BY <1>6, <1>19 DEF ReduceEvent
  <2> QED BY <1>15, <2>1, FoldBatches
<1>21. Shows(u, vacated, "playing", st, money, ready, position, owner, turn, NoSeat, "none")
  <2>1. e.player = p
    BY <1>6
  <2> QED BY <1>1, <1>10, <1>11, <1>19, <2>1, ShowsOut
<1>22. st \in [Seats -> Statuses] /\ st[p] # "absent" /\ [st EXCEPT ![p] = "eliminated"] = st
  BY <1>1, <1>11 DEF Statuses
<1>23. PICK w : w = Fold(view, <<e>> \o b)
  OBVIOUS
<1>24. Shows(w, vacated, "playing", st, money, ready, position, ow, turn, NoSeat, "none")
  <2>1. CASE wasActive
    <3>1. b = Bankrupted(p, "voluntary_leave") /\ ow = Released(p) /\ "voluntary_leave" \in Causes
      BY <1>7, <1>9, <2>1 DEF Causes
    <3>2. Shows(Fold(view, <<e>> \o Bankrupted(p, "voluntary_leave")), vacated, "playing",
                [st EXCEPT ![p] = "eliminated"], money, ready, position, Released(p), turn, NoSeat, "none")
      BY <1>16, <1>20, <1>21, <1>22, <3>1, ShowsBankrupted
    <3> QED BY <1>22, <1>23, <3>1, <3>2
  <2>2. CASE ~wasActive
    <3>1. b = <<>> /\ ow = owner
      BY <1>7, <1>9, <2>2
    <3> QED BY <1>16, <1>20, <1>21, <1>23, <3>1, FoldBatches
  <2> QED BY <2>1, <2>2
<1>25. PICK x : x = Fold(view, <<e>> \o b \o EndEvents(o))
  OBVIOUS
<1>26. Shows(x, vacated, o.phase, st, money, ready, position, ow, turn, o.winner, o.reason)
  BY <1>12, <1>17, <1>23, <1>24, <1>25, ShowsEnd
<1>27. Shows(Fold(view, events'), vacated, o.phase, st, money, ready, position, ow, tn, o.winner, o.reason)
  <2>1. CASE passes
    <3>1. Fold(view, events') = ReduceEvent(x, TurnAdvanced(tn))
      BY <1>8, <1>10, <1>14, <1>18, <1>25, <2>1, FoldBatches
    <3> QED BY <1>13, <1>26, <3>1, ShowsTurn
  <2>2. CASE ~passes
    <3>1. Fold(view, events') = x /\ tn = turn
      BY <1>5, <1>8, <1>10, <1>18, <1>25, <2>2, FoldBatches
    <3> QED BY <1>26, <3>1
  <2> QED BY <2>1, <2>2
<1> QED BY <1>10, <1>27

-----------------------------------------------------------------------------
(* Every step of the match beside its client. *)

\* Board actions leave a match that is playing without an outcome, or ended.
LEMMA SettledOutcome ==
    ASSUME NEW st, NEW mo, NEW ow, NEW tn, NEW evs, Settle(st, mo, ow, tn, evs)
    PROVE  /\ phase' \in {"playing", "ended"}
           /\ phase' = "playing" => winner' = NoSeat /\ endReason' = "none"
<1>1. PICK o : o = EvaluateMatchEnd(st, mo, ow, tn.round)
  OBVIOUS
<1>2. phase' = o.phase /\ winner' = o.winner /\ endReason' = o.reason
  BY <1>1 DEF Settle, Conclude
<1> QED BY <1>1, <1>2, OutcomeFacts, NoOutcomeYet DEF Outcomes

\* Every board action ends in that evaluation.
LEMMA BoardStepOutcome ==
    ASSUME NEW p \in Seats, TurnStep(p)
    PROVE  /\ phase' \in {"playing", "ended"}
           /\ phase' = "playing" => winner' = NoSeat /\ endReason' = "none"
<1>1. CASE Buy(p)
  BY <1>1, SettledOutcome DEF Buy
<1>2. CASE Decline(p)
  BY <1>2, SettledOutcome DEF Decline
<1>3. CASE EndTurn(p)
  BY <1>3, SettledOutcome DEF EndTurn
<1>4. CASE \E d \in Dice : Roll(p, d)
  <2>1. PICK d \in Dice : LandQuietly(p, d) \/ PayTax(p, d) \/ PayRent(p, d) \/ GoBankrupt(p, d)
    BY <1>4 DEF Roll
  <2>2. CASE LandQuietly(p, d)
    BY <2>2, SettledOutcome DEF LandQuietly
  <2>3. CASE PayTax(p, d)
    BY <2>3, SettledOutcome DEF PayTax
  <2>4. CASE PayRent(p, d)
    BY <2>4, SettledOutcome DEF PayRent
  <2>5. CASE GoBankrupt(p, d)
    BY <2>5, SettledOutcome DEF GoBankrupt
  <2> QED BY <2>1, <2>2, <2>3, <2>4, <2>5
<1> QED BY <1>1, <1>2, <1>3, <1>4 DEF TurnStep

\* The lobby's players are new, and an outcome waits for the end.
LEMMA FreshStep == ASSUME IInv, FreshInv, Next PROVE FreshInv'
<1>1. CASE Join
  <2>1. PICK p : p = NextSeat
    OBVIOUS
  <2>2. /\ status' = [status EXCEPT ![p] = "active"] /\ money' = [money EXCEPT ![p] = StartingMoney]
        /\ position' = [position EXCEPT ![p] = 0] /\ phase = "lobby"
        /\ UNCHANGED <<phase, turn, winner, endReason>>
    BY <1>1, <2>1 DEF Join
  <2>3. /\ status \in [Seats -> Statuses] /\ money \in [Seats -> Int] /\ position \in [Seats -> Spaces]
    BY DEF IInv, TypeOK, Statuses
  <2>4. \A q \in Seats : status'[q] # "absent" => money'[q] = StartingMoney /\ position'[q] = 0
    BY <2>2, <2>3 DEF FreshInv
  <2> QED BY <2>2, <2>4 DEF FreshInv
<1>2. CASE \E p \in Seats : LeaveLobby(p)
  <2>1. PICK p \in Seats : LeaveLobby(p)
    BY <1>2
  <2>2. /\ status' = [status EXCEPT ![p] = "absent"] /\ money' = [money EXCEPT ![p] = 0]
        /\ position' = [position EXCEPT ![p] = 0] /\ phase = "lobby"
        /\ UNCHANGED <<phase, turn, winner, endReason>>
    BY <2>1 DEF LeaveLobby
  <2>3. /\ status \in [Seats -> Statuses] /\ money \in [Seats -> Int] /\ position \in [Seats -> Spaces]
    BY DEF IInv, TypeOK, Statuses
  <2>4. \A q \in Seats : status'[q] # "absent" => money'[q] = StartingMoney /\ position'[q] = 0
    BY <2>2, <2>3 DEF FreshInv
  <2> QED BY <2>2, <2>4 DEF FreshInv
<1>3. CASE \E p \in Seats : Ready(p)
  BY <1>3 DEF Ready, FreshInv
<1>4. CASE \E p \in Seats : Start(p)
  BY <1>4 DEF Start, CanStart, FreshInv
<1>5. CASE \E p \in Seats : LeaveMatch(p)
  <2>1. PICK p \in Seats : LeaveMatch(p)
    BY <1>5
  <2>2. PICK o : /\ o = MaybeEndForInsufficientPlayers([status EXCEPT ![p] = "eliminated"])
                 /\ phase' = o.phase /\ winner' = o.winner /\ endReason' = o.reason
    BY <2>1 DEF LeaveMatch, Conclude
  <2> QED BY <2>2, ShortageFacts, NoOutcomeYet DEF FreshInv, Outcomes
<1>6. CASE \E p \in Seats : TurnStep(p)
  BY <1>6, BoardStepOutcome DEF FreshInv
<1> QED BY <1>1, <1>2, <1>3, <1>4, <1>5, <1>6 DEF Next, Leave

\* A client that holds no view yet, of an empty lobby.
LEMMA InitFoldInv == FoldInit => IInv /\ FoldInv
<1> SUFFICES ASSUME FoldInit PROVE IInv /\ FoldInv
  OBVIOUS
<1>1. Init /\ view = [SnapshotView EXCEPT !.held = FALSE]
  BY DEF FoldInit
<1>2. IInv
  BY <1>1, InitIInv
<1>3. SnapshotView \in Views
  BY <1>2 DEF IInv, TypeOK, SnapshotView, Views, Statuses, Turns
<1>4. view \in Views /\ view.held = FALSE
  BY <1>1, <1>3 DEF Views
<1>5. FreshInv
  BY <1>1 DEF Init, FreshInv
<1> QED BY <1>2, <1>4, <1>5 DEF FoldInv

\* A snapshot shows everything.
LEMMA SnapshotStep == ASSUME IInv, FoldInv, Snapshot PROVE FoldInv'
<1>1. PICK w : w = SnapshotView
  OBVIOUS
<1>2. view' = w /\ vacated' = {} /\ UNCHANGED vars
  BY <1>1 DEF Snapshot
<1>3. /\ w.phase = phase /\ w.status = status /\ w.money = money /\ w.ready = ready
      /\ w.position = position /\ w.owner = owner /\ w.turn = turn /\ w.winner = winner
      /\ w.reason = endReason
  BY <1>1 DEF SnapshotView
<1>4. w \in Views
  BY <1>1 DEF IInv, TypeOK, SnapshotView, Views, Statuses, Turns
<1>5. money \in [Seats -> Int] /\ position \in [Seats -> Spaces]
  BY DEF IInv, TypeOK
<1>6. Shows(w, {}, phase, status, money, ready, position, owner, turn, winner, endReason)
  BY <1>3, <1>4, <1>5 DEF Shows
<1>7. FreshInv /\ FreshInv'
  BY <1>2 DEF FoldInv, FreshInv, vars
<1>8. ViewFresh'
  BY <1>2, <1>3, <1>7 DEF ViewFresh, FreshInv, vars
<1> QED BY <1>2, <1>4, <1>6, <1>7, <1>8 DEF FoldInv, vars

\* The seats a client remembers as vacated after a step it follows.
Gone == IF phase = "lobby" THEN vacated \cup (Present(status) \ Present(status')) ELSE vacated

\* What the store holds after a step of the match shows the match.
LEMMA FollowStep ==
    ASSUME IInv, FoldInv, Next, view.held
    PROVE  /\ Shows(Fold(view, events'), Gone, phase', status', money', ready', position', owner', turn',
                    winner', endReason')
           /\ phase' = "lobby" =>
                 \A q \in Seats : Fold(view, events').status[q] # "absent" =>
                    Fold(view, events').money[q] = StartingMoney /\ Fold(view, events').position[q] = 0
<1> DEFINE Follows(left) == Shows(Fold(view, events'), left, phase', status', money', ready', position',
                                  owner', turn', winner', endReason')
           Fresh == \A q \in Seats : Fold(view, events').status[q] # "absent" =>
                       Fold(view, events').money[q] = StartingMoney /\ Fold(view, events').position[q] = 0
<1> SUFFICES Follows(Gone) /\ (phase' = "lobby" => Fresh)
  OBVIOUS
<1>1. CASE Join
  <2>1. Follows(vacated) /\ Fresh
    BY <1>1, FollowJoin
  <2>2. Present(status) \ Present(status') = {}
    <3>1. status' = [status EXCEPT ![NextSeat] = "active"] /\ status \in [Seats -> Statuses]
      BY <1>1 DEF Join, IInv, TypeOK, Statuses
    <3> QED BY <3>1 DEF Present
  <2>3. Gone = vacated
    BY <2>2 DEF Gone
  <2> HIDE DEF Follows, Fresh
  <2> QED BY <2>1, <2>3
<1>2. CASE \E p \in Seats : LeaveLobby(p)
  <2>1. PICK p \in Seats : LeaveLobby(p)
    BY <1>2
  <2>2. Follows(vacated \cup {p}) /\ Fresh /\ Present(status) \ Present(status') = {p}
    BY <2>1, FollowLeaveLobby
  <2>3. Gone = vacated \cup {p}
    BY <2>1, <2>2 DEF Gone, LeaveLobby
  <2> HIDE DEF Follows, Fresh
  <2> QED BY <2>2, <2>3
<1>3. CASE \E p \in Seats : Ready(p)
  <2>1. PICK p \in Seats : Ready(p)
    BY <1>3
  <2>2. Follows(vacated) /\ Fresh
    BY <2>1, FollowReady
  <2>3. Gone = vacated
    BY <2>1 DEF Ready, Gone
  <2> HIDE DEF Follows, Fresh
  <2> QED BY <2>2, <2>3
<1>4. CASE \E p \in Seats : Start(p)
  <2>1. PICK p \in Seats : Start(p)
    BY <1>4
  <2>2. Follows(vacated) /\ phase' = "playing"
    BY <2>1, FollowStart DEF Start
  <2>3. Gone = vacated
    BY <2>1 DEF Start, Gone
  <2> HIDE DEF Follows, Fresh
  <2> QED BY <2>2, <2>3
<1>5. CASE \E p \in Seats : LeaveMatch(p)
  <2>1. PICK p \in Seats : LeaveMatch(p)
    BY <1>5
  <2>2. Follows(vacated)
    BY <2>1, FollowLeaveMatch
  <2>3. phase = "playing" /\ phase' # "lobby"
    <3>1. MaybeEndForInsufficientPlayers([status EXCEPT ![p] = "eliminated"]).phase # "lobby"
      BY ShortageFacts DEF Outcomes
    <3> QED BY <2>1, <3>1 DEF LeaveMatch, Conclude
  <2>4. Gone = vacated
    BY <2>3 DEF Gone
  <2> HIDE DEF Follows, Fresh
  <2> QED BY <2>2, <2>3, <2>4
<1>6. CASE \E p \in Seats : TurnStep(p)
  <2>1. PICK p \in Seats : TurnStep(p)
    BY <1>6
  <2>2. Follows(vacated)
    BY <2>1, FollowRoll, FollowBuy, FollowDecline, FollowEndTurn DEF TurnStep
  <2>3. phase = "playing"
    BY <2>1 DEF TurnStep, Roll, Buy, Decline, EndTurn, Deciding, RequireTurn
  <2>4. phase' # "lobby"
    BY <1>6, BoardStepOutcome
  <2>5. Gone = vacated
    BY <2>3 DEF Gone
  <2> HIDE DEF Follows, Fresh
  <2> QED BY <2>2, <2>4, <2>5
<1> QED BY <1>1, <1>2, <1>3, <1>4, <1>5, <1>6 DEF Next, Leave

-----------------------------------------------------------------------------
(* The client's view, in every run. *)

\* A client that reduces a transition's events goes on showing the match.
LEMMA FollowFoldInv == ASSUME IInv, FoldInv, Next, Follow PROVE FoldInv'
<1>1. FreshInv'
  BY FreshStep DEF FoldInv
<1>2. CASE ~view.held
  <2>1. view' = view
    BY <1>2 DEF Follow
  <2> QED BY <1>1, <1>2, <2>1 DEF FoldInv, Views
<1>3. CASE view.held
  <2>1. view' = Fold(view, events') /\ vacated' = Gone
    BY <1>3 DEF Follow, Fold, Gone
  <2>2. /\ Shows(view', vacated', phase', status', money', ready', position', owner', turn', winner', endReason')
        /\ ViewFresh'
    BY <1>3, <2>1, FollowStep DEF ViewFresh
  <2>3. view' \in Views
    BY <2>2 DEF Shows
  <2> QED BY <1>1, <2>2, <2>3 DEF FoldInv
<1> QED BY <1>2, <1>3

\* Transitions, snapshots and steps that change nothing preserve the invariant.
LEMMA FoldStep == IInv /\ FoldInv /\ [FoldNext]_foldVars => IInv' /\ FoldInv'
<1> SUFFICES ASSUME IInv, FoldInv, [FoldNext]_foldVars PROVE IInv' /\ FoldInv'
  OBVIOUS
<1>1. CASE Next /\ Follow
  BY <1>1, NextStep, FollowFoldInv
<1>2. CASE Snapshot
  <2>1. UNCHANGED vars
    BY <1>2 DEF Snapshot
  <2> QED BY <1>2, <2>1, NextStep, SnapshotStep
<1>3. CASE UNCHANGED foldVars
  <2>1. UNCHANGED vars
    BY <1>3 DEF foldVars
  <2>2. IInv'
    BY <2>1, NextStep
  <2>3. FoldInv'
    BY <1>3 DEF foldVars, vars, FoldInv, FreshInv, ViewFresh
  <2> QED BY <2>2, <2>3
<1> QED BY <1>1, <1>2, <1>3 DEF FoldNext

\* The client only watches: beside it the match behaves as by itself.
THEOREM FoldWatches == FoldSpec => Spec
<1>1. FoldInit => Init
  BY DEF FoldInit
<1>2. [FoldNext]_foldVars => [Next]_vars
  BY DEF FoldNext, Snapshot, foldVars
<1> QED BY <1>1, <1>2, PTL DEF FoldSpec, Spec

\* A view that shows the match agrees with it.
LEMMA FoldInvAgrees == IInv /\ FoldInv => ViewAgrees
<1> SUFFICES ASSUME IInv, FoldInv, view.held PROVE ViewAgrees
  BY DEF ViewAgrees
<1>1. Shows(view, vacated, phase, status, money, ready, position, owner, turn, winner, endReason)
  BY DEF FoldInv
<1>2. \A p \in Present(status) : p \in Seats /\ status[p] # "absent"
  BY DEF Present
<1> QED BY <1>1, <1>2 DEF Shows, ViewAgrees

\* In every run of the match beside its client IInv and FoldInv hold.
THEOREM FoldInvariant == FoldSpec => [](IInv /\ FoldInv)
  BY InitFoldInv, FoldStep, PTL DEF FoldSpec

\* The reducer of the client (game-store.ts) rebuilds the match from its
\* events alone: in every reachable state a held view has the phase, the
\* outcome, the owners, and every player's balance and position.
THEOREM ViewFollows == FoldSpec => []ViewAgrees
  BY FoldInvariant, FoldInvAgrees, PTL
=============================================================================
