------------------------------ MODULE BoardGame ------------------------------
(***************************************************************************)
(* The game engine of one match: the lobby lifecycle (join, leave, ready,  *)
(* start) and the board loop (roll, buy, decline, end turn), with the      *)
(* victory evaluation that closes every board action.                      *)
(*                                                                         *)
(* Engine.Apply is a pure function: an accepted action yields one new      *)
(* state and the events that describe it, a rejected one yields nothing.   *)
(* An action below is therefore one accepted Apply; a rejection is a       *)
(* disabled action.  Dice are drawn from a stream seeded by the match and  *)
(* the tick, which no player can predict: they are nondeterministic.       *)
(*                                                                         *)
(* A player id is derived from the match seed and the seat number          *)
(* (DeriveMatchPlayerID), so a player IS a seat, and the roster is a       *)
(* function over seats in which unused seats are "absent".                 *)
(***************************************************************************)
EXTENDS Integers, Sequences, FiniteSets, FiniteSetsExt

CONSTANTS
    MinPlayers, MaxPlayers,    \* cfg.PlayerCount
    StartingMoney,
    Victory,                   \* cfg.Victory.Type
    TargetWealth, RoundLimit,
    Board,                     \* cfg.Board.Spaces, indexed from 0
    PassingGoBonus,
    DoublesExtraRoll, MaxDoublesStreak,
    Dice,                      \* the pairs of dice that may be thrown
    MaxRound                   \* bound: no action is taken after this round

Seats  == 0 .. MaxPlayers - 1
Spaces == DOMAIN Board
NoSeat == -1                   \* unowned, no winner, no creditor

StartingMoneyMax  == 1000000
MaxSpacePrice     == 1000000
MaxSpaceRent      == 100000
MaxTaxAmount      == 1000000
MaxPassingGoBonus == 1000000

(***************************************************************************)
(* What Validate accepts, for the fields the engine reads.                 *)
(***************************************************************************)
ValidSpace(s) ==
    /\ s \in [kind : {"go", "neutral", "property", "tax"},
              price : Int, rent : Int, amount : Int]
    /\ s.kind = "property" => s.price \in 1 .. MaxSpacePrice /\ s.rent \in 0 .. MaxSpaceRent
    /\ s.kind = "tax" => s.amount \in 1 .. MaxTaxAmount

ValidBoard ==
    \E n \in 2 .. 64 :
        /\ Spaces = 0 .. n - 1
        /\ Board = [i \in 0 .. n - 1 |-> Board[i]]
        /\ Board[0].kind = "go"
        /\ \A i \in Spaces : ValidSpace(Board[i])

ValidConfig ==
    /\ MinPlayers \in Nat /\ MaxPlayers \in Nat
    /\ 2 <= MinPlayers /\ MinPlayers <= MaxPlayers /\ MaxPlayers <= 12
    /\ StartingMoney \in 1 .. StartingMoneyMax
    /\ Victory \in {"last_standing", "target_wealth", "round_limit"}
    /\ TargetWealth \in Nat /\ RoundLimit \in Nat
    /\ Victory = "target_wealth" => TargetWealth > StartingMoney
    /\ Victory = "round_limit" => RoundLimit > 0
    /\ ValidBoard
    /\ PassingGoBonus \in 0 .. MaxPassingGoBonus
    /\ DoublesExtraRoll \in BOOLEAN
    /\ MaxDoublesStreak \in 0 .. 16
    /\ DoublesExtraRoll => MaxDoublesStreak >= 2

ASSUME ConfigAssumption == ValidConfig
ASSUME DiceAssumption   == Dice \subseteq (1 .. 6) \X (1 .. 6)
ASSUME BoundAssumption  == MaxRound \in Nat

VARIABLES
    phase,      \* the match phase
    status,     \* status of each seat; "absent" when nobody holds it
    money,
    ready,
    isHost,
    position,   \* board index each player stands on
    owner,      \* owner of each space, NoSeat when the bank holds it
    turn,       \* the turn pointer
    winner, endReason,
    events,     \* the events of the last transition
    rolls       \* history: rolls made in the current turn

vars == <<phase, status, money, ready, isHost, position, owner, turn,
          winner, endReason, events, rolls>>

-----------------------------------------------------------------------------
(* The roster, as the handlers query it. *)

Present(st) == {p \in Seats : st[p] # "absent"}
Active(st)  == {p \in Seats : st[p] = "active"}

\* Mutants: the seat after the last one; the number of seats taken.
NextSeat_append == IF Present(status) = {} THEN 0 ELSE Max(Present(status)) + 1
NextSeat_count  == Cardinality(Present(status))

NextSeat == Min(Seats \ Present(status))

NewTurn(seat, round) ==
    [seat |-> seat, phase |-> "await_roll", round |-> round,
     streak |-> 0, extra |-> FALSE]

\* Mutants: the pointer may rest on an eliminated player; it does not move; it
\* skips the neighbour; a wrap does not count as a round.
PassTurn_blind(st, from) ==
    LET above == {p \in Present(st) : p > from}
    IN  IF above # {} THEN NewTurn(Min(above), turn.round)
        ELSE NewTurn(Min(Present(st)), turn.round + 1)
PassTurn_stays(st, from) == NewTurn(from, turn.round)
PassTurn_skips(st, from) ==
    LET above == {p \in Active(st) : p > from + 1}
    IN  IF above # {} THEN NewTurn(Min(above), turn.round)
        ELSE NewTurn(Min(Active(st)), turn.round + 1)
PassTurn_noRound(st, from) ==
    LET above == {p \in Active(st) : p > from}
    IN  NewTurn(Min(IF above # {} THEN above ELSE Active(st)), turn.round)

\* advanceSeat, and the reset of the turn that every caller makes after it.
PassTurn(st, from) ==
    LET above == {p \in Active(st) : p > from}
    IN  CASE above # {}      -> NewTurn(Min(above), turn.round)
          [] above = {} /\ Active(st) # {}
                             -> NewTurn(Min(Active(st)), turn.round + 1)
          [] OTHER           -> NewTurn(from, turn.round)

\* Mutant: the holdings of a player who is out stay theirs.
Released_keeps(p) == owner

Released(p) == [s \in Spaces |-> IF owner[s] = p THEN NoSeat ELSE owner[s]]

NetWorth(mo, ow, p) ==
    mo[p] + MapThenSumSet(LAMBDA s : Board[s].price, {s \in Spaces : ow[s] = p})

\* Mutants: cash decides; ties go to the highest seat.
RichestActive_cash(st, mo, ow) ==
    LET best == {p \in Active(st) : \A q \in Active(st) : mo[q] <= mo[p]}
    IN  IF best = {} THEN NoSeat ELSE Min(best)
RichestActive_lastTie(st, mo, ow) ==
    LET best == {p \in Active(st) :
                    \A q \in Active(st) : NetWorth(mo, ow, q) <= NetWorth(mo, ow, p)}
    IN  IF best = {} THEN NoSeat ELSE Max(best)

\* richestActive: ties go to the lowest seat; nobody when no one is active.
RichestActive(st, mo, ow) ==
    LET best == {p \in Active(st) :
                    \A q \in Active(st) : NetWorth(mo, ow, q) <= NetWorth(mo, ow, p)}
    IN  IF best = {} THEN NoSeat ELSE Min(best)

-----------------------------------------------------------------------------
(* Ending the match. *)

Playing == [phase |-> "playing", winner |-> NoSeat, reason |-> "none"]
Ended(w, why) == [phase |-> "ended", winner |-> w, reason |-> why]

MaybeEndForInsufficientPlayers(st) ==
    LET n == Cardinality(Active(st))
    IN  CASE n >= 2 -> Playing
          [] n = 1  -> Ended(Min(Active(st)), "last_standing")
          [] OTHER  -> Ended(NoSeat, "insufficient_players")

\* Mutant: the last round is one round longer.
EvaluateMatchEnd_afterNext(st, mo, ow, round) ==
    CASE Cardinality(Active(st)) < 2 -> MaybeEndForInsufficientPlayers(st)
      [] /\ Cardinality(Active(st)) >= 2
         /\ Victory = "round_limit"
         /\ round > RoundLimit + 1
            -> Ended(RichestActive(st, mo, ow), "round_limit")
      [] OTHER -> Playing

EvaluateMatchEnd(st, mo, ow, round) ==
    CASE Cardinality(Active(st)) < 2 -> MaybeEndForInsufficientPlayers(st)
      [] /\ Cardinality(Active(st)) >= 2
         /\ Victory = "target_wealth"
         /\ \E p \in Active(st) : NetWorth(mo, ow, p) >= TargetWealth
            -> Ended(RichestActive(st, mo, ow), "target_wealth")
      [] /\ Cardinality(Active(st)) >= 2
         /\ Victory = "round_limit"
         /\ round > RoundLimit
            -> Ended(RichestActive(st, mo, ow), "round_limit")
      [] OTHER -> Playing

Conclude(o) == phase' = o.phase /\ winner' = o.winner /\ endReason' = o.reason

(***************************************************************************)
(* Events carry what a reader of the log needs to rebuild the state; names, *)
(* hashes and display fields are left out.                                  *)
(***************************************************************************)
EndEvents(o) ==
    IF o.phase = "ended"
    THEN <<[type |-> "game_ended", winner |-> o.winner, reason |-> o.reason]>>
    ELSE <<>>

TurnAdvanced(t) == [type |-> "turn_advanced", seat |-> t.seat, round |-> t.round]

ToPlayer(p, n) == [type |-> "bank_transfer", player |-> p, amount |-> n, direction |-> "to_player"]
ToBank(p, n)   == [type |-> "bank_transfer", player |-> p, amount |-> n, direction |-> "to_bank"]

Bankrupted(p, cause) ==
    << [type |-> "player_bankrupt", player |-> p, cause |-> cause,
        released |-> {s \in Spaces : owner[s] = p}],
       [type |-> "player_eliminated", player |-> p, cause |-> cause] >>

-----------------------------------------------------------------------------
(* The lobby. *)

Init ==
    /\ phase = "lobby"
    /\ status = [p \in Seats |-> "absent"]
    /\ money = [p \in Seats |-> 0]
    /\ ready = [p \in Seats |-> FALSE]
    /\ isHost = [p \in Seats |-> FALSE]
    /\ position = [p \in Seats |-> 0]
    /\ owner = [s \in Spaces |-> NoSeat]
    /\ turn = [seat |-> 0, phase |-> "none", round |-> 0, streak |-> 0, extra |-> FALSE]
    /\ winner = NoSeat
    /\ endReason = "none"
    /\ events = <<>>
    /\ rolls = 0

Join ==
    /\ phase = "lobby"
    /\ Cardinality(Present(status)) < MaxPlayers
    /\ LET p == NextSeat
       IN  /\ status' = [status EXCEPT ![p] = "active"]
           /\ money' = [money EXCEPT ![p] = StartingMoney]
           /\ isHost' = [isHost EXCEPT ![p] = Present(status) = {}]
           /\ ready' = [ready EXCEPT ![p] = FALSE]
           /\ position' = [position EXCEPT ![p] = 0]
           /\ events' = <<[type |-> "player_joined", player |-> p, amount |-> StartingMoney]>>
    /\ UNCHANGED <<phase, owner, turn, winner, endReason, rolls>>

\* Leaving the lobby frees the seat; a departing host hands over to the
\* lowest remaining seat.
LeaveLobby(p) ==
    /\ phase = "lobby"
    /\ status[p] # "absent"
    /\ LET rest == Present(status) \ {p}
       IN  isHost' = [q \in Seats |->
                IF q = p THEN FALSE
                ELSE isHost[q] \/ (isHost[p] /\ rest # {} /\ q = Min(rest))]
    /\ status' = [status EXCEPT ![p] = "absent"]
    /\ money' = [money EXCEPT ![p] = 0]
    /\ ready' = [ready EXCEPT ![p] = FALSE]
    /\ position' = [position EXCEPT ![p] = 0]
    /\ events' = <<[type |-> "player_left", player |-> p]>>
    /\ UNCHANGED <<phase, owner, turn, winner, endReason, rolls>>

\* A redundant toggle is rejected, so the only accepted one negates.
Ready(p) ==
    /\ phase = "lobby"
    /\ status[p] # "absent"
    /\ ready' = [ready EXCEPT ![p] = ~ready[p]]
    /\ events' = <<[type |-> "player_ready_changed", player |-> p, ready |-> ~ready[p]]>>
    /\ UNCHANGED <<phase, status, money, isHost, position, owner, turn, winner, endReason, rolls>>

CanStart ==
    /\ phase = "lobby"
    /\ Cardinality(Active(status)) \in MinPlayers .. MaxPlayers
    /\ \A p \in Active(status) : ready[p]

Start(p) ==
    /\ isHost[p]
    /\ CanStart
    /\ phase' = "playing"
    /\ turn' = NewTurn(Min(Active(status)), 1)
    /\ events' = <<[type |-> "game_started"]>>
    /\ UNCHANGED <<status, money, ready, isHost, position, owner, winner, endReason, rolls>>

-----------------------------------------------------------------------------
(* Playing. *)

\* Leaving a running match eliminates the leaver.  Only the shortage of
\* players is evaluated here, no other victory condition.
LeaveMatch(p) ==
    /\ phase = "playing"
    /\ status[p] # "absent"
    /\ LET wasActive == status[p] = "active"
           st == [status EXCEPT ![p] = "eliminated"]
           o  == MaybeEndForInsufficientPlayers(st)
           passes == o.phase = "playing" /\ turn.seat = p
           tn == IF passes THEN PassTurn(st, p) ELSE turn
       IN  /\ status' = st
           /\ owner' = IF wasActive THEN Released(p) ELSE owner
           /\ turn' = tn
           /\ rolls' = IF passes THEN 0 ELSE rolls
           /\ Conclude(o)
           /\ events' = <<[type |-> "player_left", player |-> p]>>
                        \o (IF wasActive THEN Bankrupted(p, "voluntary_leave") ELSE <<>>)
                        \o EndEvents(o)
                        \o (IF passes THEN <<TurnAdvanced(tn)>> ELSE <<>>)
    /\ UNCHANGED <<money, ready, isHost, position>>

\* Mutant: the turn phase is not checked.
RequireTurn_anyPhase(p, tp) == phase = "playing" /\ status[p] = "active" /\ turn.seat = p

RequireTurn(p, tp) ==
    /\ phase = "playing"
    /\ status[p] = "active"
    /\ turn.seat = p
    /\ turn.phase = tp

\* The tail of every board action: install the new board, then evaluate
\* the victory conditions on it.
Settle(st, mo, ow, tn, evs) ==
    LET o == EvaluateMatchEnd(st, mo, ow, tn.round)
    IN  /\ status' = st
        /\ money' = mo
        /\ owner' = ow
        /\ turn' = tn
        /\ Conclude(o)
        /\ events' = evs \o EndEvents(o)
        /\ UNCHANGED <<ready, isHost>>

\* Where a throw takes a player, and what crossing go pays on the way.
Steps(p, d)  == position[p] + d[1] + d[2]
Target(p, d) == Steps(p, d) % Cardinality(Spaces)
Passes(p, d) == Steps(p, d) \div Cardinality(Spaces)
Banked(p, d) == [money EXCEPT ![p] = @ + PassingGoBonus * Passes(p, d)]
MoveEvents(p, d) ==
    <<[type |-> "dice_rolled", player |-> p, to |-> Target(p, d)]>>
    \o (IF Passes(p, d) > 0 THEN <<ToPlayer(p, PassingGoBonus * Passes(p, d))>> ELSE <<>>)

Doubles(d) == d[1] = d[2] /\ DoublesExtraRoll
Streak(d)  == IF Doubles(d) THEN turn.streak + 1 ELSE 0
\* Mutant: one double too many earns another roll.
Extra_atLimit(d) == Doubles(d) /\ Streak(d) <= MaxDoublesStreak

Extra(d)   == Doubles(d) /\ Streak(d) < MaxDoublesStreak

\* The turn after a roll that left its player solvent.
AfterRoll(d, offered) ==
    LET next == CASE offered             -> "await_buy_decision"
                  [] ~offered /\ Extra(d) -> "await_roll"
                  [] OTHER               -> "turn_over"
    IN  [turn EXCEPT !.phase = next,
                     !.streak = IF next = "turn_over" THEN 0 ELSE Streak(d),
                     !.extra = offered /\ Extra(d)]

\* Mutant: payments are made on credit.
Affords_onCredit(p, d, n) == TRUE

Affords(p, d, n) == Banked(p, d)[p] >= n

\* The owner rent is due to: another, active, player.
RentDue(p, s) ==
    /\ Board[s].kind = "property"
    /\ owner[s] \notin {NoSeat, p}
    /\ status[owner[s]] = "active"

\* Mutant: a property is offered whatever it costs.
Offered_anyPrice(p, d) ==
    LET s == Target(p, d)
    IN  Board[s].kind = "property" /\ owner[s] = NoSeat

Offered(p, d) ==
    LET s == Target(p, d)
    IN  /\ Board[s].kind = "property"
        /\ owner[s] = NoSeat
        /\ Affords(p, d, Board[s].price)

LandQuietly(p, d) ==
    LET s == Target(p, d)
    IN  /\ Board[s].kind # "tax" /\ ~RentDue(p, s)
        /\ Settle(status, Banked(p, d), owner, AfterRoll(d, Offered(p, d)), MoveEvents(p, d))
        /\ rolls' = rolls + 1

PayTax(p, d) ==
    LET due == Board[Target(p, d)].amount
    IN  /\ Board[Target(p, d)].kind = "tax"
        /\ Affords(p, d, due)
        /\ Settle(status, [Banked(p, d) EXCEPT ![p] = @ - due], owner,
                  AfterRoll(d, FALSE), Append(MoveEvents(p, d), ToBank(p, due)))
        /\ rolls' = rolls + 1

PayRent(p, d) ==
    LET s   == Target(p, d)
        due == Board[s].rent
    IN  /\ RentDue(p, s)
        /\ Affords(p, d, due)
        /\ Settle(status, [Banked(p, d) EXCEPT ![p] = @ - due, ![owner[s]] = @ + due], owner,
                  AfterRoll(d, FALSE),
                  Append(MoveEvents(p, d),
                         [type |-> "rent_paid", player |-> p, payee |-> owner[s], amount |-> due]))
        /\ rolls' = rolls + 1

\* An unaffordable payment eliminates the payer; nothing is half-paid.
GoBankrupt(p, d) ==
    LET s     == Target(p, d)
        cause == IF Board[s].kind = "tax" THEN "bankruptcy_tax" ELSE "bankruptcy_rent"
        st    == [status EXCEPT ![p] = "eliminated"]
        tn    == IF Active(st) = {} THEN turn ELSE PassTurn(st, p)
    IN  /\ \/ Board[s].kind = "tax" /\ ~Affords(p, d, Board[s].amount)
           \/ RentDue(p, s) /\ ~Affords(p, d, Board[s].rent)
        /\ Settle(st, Banked(p, d), Released(p), tn,
                  MoveEvents(p, d) \o Bankrupted(p, cause)
                  \o (IF Active(st) = {} THEN <<>> ELSE <<TurnAdvanced(tn)>>))
        /\ rolls' = 0

Roll(p, d) ==
    /\ RequireTurn(p, "await_roll")
    /\ position' = [position EXCEPT ![p] = Target(p, d)]
    /\ \/ LandQuietly(p, d)
       \/ PayTax(p, d)
       \/ PayRent(p, d)
       \/ GoBankrupt(p, d)

\* A decision consumes the extra roll the throw may have earned.
Decided == [turn EXCEPT !.phase = IF turn.extra THEN "await_roll" ELSE "turn_over",
                        !.extra = FALSE]

Deciding(p) ==
    /\ RequireTurn(p, "await_buy_decision")
    /\ Board[position[p]].kind = "property"
    /\ owner[position[p]] = NoSeat

Buy(p) ==
    LET s == position[p]
    IN  /\ Deciding(p)
        /\ money[p] >= Board[s].price
        /\ Settle(status, [money EXCEPT ![p] = @ - Board[s].price], [owner EXCEPT ![s] = p],
                  Decided,
                  <<[type |-> "property_bought", player |-> p, space |-> s, amount |-> Board[s].price]>>)
        /\ UNCHANGED <<position, rolls>>

Decline(p) ==
    /\ Deciding(p)
    /\ Settle(status, money, owner, Decided, <<[type |-> "buy_declined", player |-> p]>>)
    /\ UNCHANGED <<position, rolls>>

EndTurn(p) ==
    /\ RequireTurn(p, "turn_over")
    /\ LET tn == PassTurn(status, p)
       IN  Settle(status, money, owner, tn, <<TurnAdvanced(tn)>>)
    /\ rolls' = 0
    /\ UNCHANGED position

TurnStep(p) == (\E d \in Dice : Roll(p, d)) \/ Buy(p) \/ Decline(p) \/ EndTurn(p)

Leave(p) == LeaveLobby(p) \/ LeaveMatch(p)

Next ==
    /\ turn.round <= MaxRound
    /\ \/ Join
       \/ \E p \in Seats : Leave(p) \/ Ready(p) \/ Start(p) \/ TurnStep(p)

Spec == Init /\ [][Next]_vars

\* Nothing in the server plays for a player: progress assumes that the
\* player whose turn it is keeps acting.
FairSpec == Spec /\ WF_vars(turn.round <= MaxRound /\ \E p \in Seats : TurnStep(p))

-----------------------------------------------------------------------------
(* LegalActions: what a seat is told it may do. *)

LegalActions(p) ==
    CASE status[p] = "absent" -> {}
      [] status[p] # "absent" /\ phase = "lobby" ->
            {"player_leave", "player_ready"}
            \cup (IF isHost[p] /\ CanStart THEN {"game_start"} ELSE {})
      [] status[p] # "absent" /\ phase = "playing" ->
            {"player_leave"} \cup
            (IF status[p] # "active" \/ turn.seat # p THEN {}
             ELSE CASE turn.phase = "await_roll" -> {"roll_dice"}
                    [] turn.phase = "await_buy_decision" ->
                          IF Board[position[p]].kind = "property" /\ owner[position[p]] = NoSeat
                          THEN {"decline_buy"} \cup
                               (IF money[p] >= Board[position[p]].price THEN {"buy_property"} ELSE {})
                          ELSE {}
                    [] turn.phase = "turn_over" -> {"end_turn"}
                    [] OTHER -> {})
      [] OTHER -> {}

-----------------------------------------------------------------------------
(* Properties. *)

Reasons == {"none", "last_standing", "insufficient_players", "target_wealth", "round_limit"}
Causes  == {"voluntary_leave", "bankruptcy_tax", "bankruptcy_rent"}

Event ==
    [type : {"player_joined"}, player : Seats, amount : Int]
    \cup [type : {"player_left", "buy_declined"}, player : Seats]
    \cup [type : {"player_ready_changed"}, player : Seats, ready : BOOLEAN]
    \cup [type : {"game_started"}]
    \cup [type : {"game_ended"}, winner : Seats \cup {NoSeat}, reason : Reasons]
    \cup [type : {"turn_advanced"}, seat : Seats, round : Nat]
    \cup [type : {"dice_rolled"}, player : Seats, to : Spaces]
    \cup [type : {"bank_transfer"}, player : Seats, amount : Int, direction : {"to_player", "to_bank"}]
    \cup [type : {"rent_paid"}, player : Seats, payee : Seats, amount : Int]
    \cup [type : {"property_bought"}, player : Seats, space : Spaces, amount : Int]
    \cup [type : {"player_bankrupt"}, player : Seats, cause : Causes, released : SUBSET Spaces]
    \cup [type : {"player_eliminated"}, player : Seats, cause : Causes]

\* Every field of GameState has the type its Go declaration gives it.
TypeOK ==
    /\ phase \in {"lobby", "playing", "ended"}
    /\ status \in [Seats -> {"absent", "active", "eliminated"}]
    /\ money \in [Seats -> Int]
    /\ ready \in [Seats -> BOOLEAN]
    /\ isHost \in [Seats -> BOOLEAN]
    /\ position \in [Seats -> Spaces]
    /\ owner \in [Spaces -> Seats \cup {NoSeat}]
    /\ turn \in [seat : Seats, phase : {"none", "await_roll", "await_buy_decision", "turn_over"},
                 round : Nat, streak : Nat, extra : BOOLEAN]
    /\ winner \in Seats \cup {NoSeat}
    /\ endReason \in Reasons
    /\ events \in Seq(Event)
    /\ rolls \in Nat

\* No debt: whatever sequence of rents, taxes, purchases and bankruptcies was
\* played, no balance is negative.
Solvent == \A p \in Seats : money[p] >= 0

\* Only property spaces are owned and only by players still in the game: both
\* ways out of a match, bankruptcy and leaving, give every holding back.
HoldingsAreActive ==
    \A s \in Spaces : owner[s] # NoSeat =>
        Board[s].kind = "property" /\ status[owner[s]] = "active"

\* A running match is never stranded: the seat the turn points at is held by
\* an active player who is offered a board action, and at least two play on.
TurnNeverStranded ==
    phase = "playing" =>
        /\ Cardinality(Active(status)) >= 2
        /\ LegalActions(turn.seat) \ {"player_leave"} # {}

\* A buy decision is only ever pending where buying is still possible: the
\* space stays in the bank and the price within reach until the decision.
BuyOfferStands ==
    phase = "playing" /\ turn.phase = "await_buy_decision" =>
        "buy_property" \in LegalActions(turn.seat)

\* A lobby with players has exactly one host, who is one of them, however
\* often hosts leave and freed seats are taken again.
OneHost ==
    phase = "lobby" /\ Present(status) # {} =>
        \E p \in Present(status) : {q \in Seats : isHost[q]} = {p}

\* The doubles cap: nobody throws more often in one turn than the streak
\* limit, also when purchases interrupt the run of doubles.
RollsBounded == rolls <= IF DoublesExtraRoll THEN MaxDoublesStreak ELSE 1

Accepted(p) ==
    (IF ENABLED Leave(p) THEN {"player_leave"} ELSE {})
    \cup (IF ENABLED Ready(p) THEN {"player_ready"} ELSE {})
    \cup (IF ENABLED Start(p) THEN {"game_start"} ELSE {})
    \cup (IF ENABLED (\E d \in Dice : Roll(p, d)) THEN {"roll_dice"} ELSE {})
    \cup (IF ENABLED Buy(p) THEN {"buy_property"} ELSE {})
    \cup (IF ENABLED Decline(p) THEN {"decline_buy"} ELSE {})
    \cup (IF ENABLED EndTurn(p) THEN {"end_turn"} ELSE {})

\* What a player is told is legal is exactly what the engine would accept
\* from that player, in every reachable state.
LegalActionsExact == \A p \in Seats : LegalActions(p) = Accepted(p)

\* An ended match names the right winner: the sole survivor, or an active
\* player nobody active out-values, the lowest seat among equals; the state
\* it is judged on is the one the match ended in.
WinnerJustified ==
    phase = "ended" =>
        CASE endReason = "last_standing" -> Active(status) = {winner}
          [] endReason = "insufficient_players" -> Active(status) = {} /\ winner = NoSeat
          [] OTHER -> /\ winner \in Active(status)
                      /\ \A q \in Active(status) \ {winner} :
                            \/ NetWorth(money, owner, q) < NetWorth(money, owner, winner)
                            \/ /\ NetWorth(money, owner, q) = NetWorth(money, owner, winner)
                               /\ winner < q

\* Elimination is final: an eliminated player stays eliminated, keeps the
\* money they went out with, owns nothing again and is never given the turn.
EliminationIsFinal ==
    [][\A p \in Seats : status[p] = "eliminated" =>
            /\ status'[p] = "eliminated"
            /\ money'[p] = money[p]
            /\ p \notin {owner'[s] : s \in Spaces}
            /\ phase' = "playing" => turn'.seat # p]_vars

\* The turn goes round the table: when it moves on, no active player is
\* skipped, and the round counts the times it came back to a lower seat.
NobodySkipped ==
    [][phase = "playing" /\ phase' = "playing" /\ turn'.seat # turn.seat =>
         LET from == turn.seat
             to   == turn'.seat
             between == IF from < to THEN from + 1 .. to - 1
                        ELSE (from + 1 .. MaxPlayers - 1) \cup (0 .. to - 1)
         IN  /\ between \cap Active(status') = {}
             /\ turn'.round = IF from < to THEN turn.round ELSE turn.round + 1]_vars

\* The round limit holds for board actions: only a player leaving can carry the
\* match past it, because leave evaluates no victory condition but the shortage
\* of players, and the next board action then ends it.
OverrunByLeaveOnly ==
    Victory = "round_limit" /\ phase = "playing" /\ turn.round > RoundLimit =>
        events[1].type = "player_left"

\* A match with a round limit that has started comes to an end, provided the
\* players whose turn it is keep acting.
MatchEnds == phase = "playing" ~> phase = "ended"
=============================================================================
