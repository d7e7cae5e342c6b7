------------------------------ MODULE ClientFold ------------------------------
(***************************************************************************)
(* A client's view of a match beside the engine: snapshots replace it and  *)
(* the reducer folds the events of every transition into it.  Transitions  *)
(* arrive one by one and in order here; Fanout has the ways they may not.  *)
(*                                                                         *)
(* Players of the view are seats, as in BoardGame; a seat the view does    *)
(* not list is "absent".  Names, dice faces and the event feed only feed   *)
(* the display and are left out, and so is the host flag, which no event   *)
(* hands over.                                                             *)
(***************************************************************************)
EXTENDS BoardGame, SequencesExt

VARIABLES
    view,      \* the store's GameView; held is FALSE before the first snapshot
    vacated    \* history: seats left in the lobby while the view was held

foldVars == <<vars, view, vacated>>

\* toView
SnapshotView ==
    [held |-> TRUE, phase |-> phase, status |-> status, money |-> money, ready |-> ready,
     position |-> position, owner |-> owner, turn |-> turn,
     winner |-> winner, reason |-> endReason]

Adjusted(v, p, n) ==
    [v EXCEPT !.money[p] = IF v.status[p] = "absent" THEN @ ELSE Max({0, @ + n})]

Listed(v, p) == v.status[p] # "absent"

\* Mutant: the payee is not credited.
RentPaid_oneSided(v, e) == Adjusted(v, e.player, -e.amount)

RentPaid(v, e) == Adjusted(Adjusted(v, e.player, -e.amount), e.payee, e.amount)

Joined(v, e) ==
    IF Listed(v, e.player) THEN v
    ELSE [v EXCEPT !.status[e.player] = "active", !.money[e.player] = e.amount,
                   !.ready[e.player] = FALSE, !.position[e.player] = 0]

Out(v, e) == IF Listed(v, e.player) THEN [v EXCEPT !.status[e.player] = "eliminated"] ELSE v

Moved(v, e) == IF Listed(v, e.player) THEN [v EXCEPT !.position[e.player] = e.to] ELSE v

Readied(v, e) == IF Listed(v, e.player) THEN [v EXCEPT !.ready[e.player] = e.ready] ELSE v

\* The server names the released spaces and omits the list when it is empty; the
\* client's fallback, all that the player owned in its view, is then empty as well
\* while the owners agree, and is left out.
Reverted(v, e) ==
    [Out(v, e) EXCEPT !.owner = [s \in Spaces |-> IF s \in e.released THEN NoSeat ELSE v.owner[s]]]

Bought(v, e) == Adjusted([v EXCEPT !.owner[e.space] = e.player], e.player, -e.amount)

Transferred(v, e) ==
    Adjusted(v, e.player, IF e.direction = "to_player" THEN e.amount ELSE -e.amount)

ReduceEvent(v, e) ==
    CASE e.type = "player_joined"        -> Joined(v, e)
      [] e.type = "player_ready_changed" -> Readied(v, e)
      [] e.type \in {"player_left", "player_eliminated"} -> Out(v, e)
      [] e.type = "player_bankrupt"      -> Reverted(v, e)
      [] e.type = "game_started"         -> [v EXCEPT !.phase = "playing"]
      [] e.type = "dice_rolled"          -> Moved(v, e)
      [] e.type = "property_bought"      -> Bought(v, e)
      [] e.type = "rent_paid"            -> RentPaid(v, e)
      [] e.type = "bank_transfer"        -> Transferred(v, e)
      [] e.type = "turn_advanced"        -> [v EXCEPT !.turn = NewTurn(e.seat, e.round)]
      [] e.type = "game_ended"           -> [v EXCEPT !.phase = "ended", !.winner = e.winner,
                                                      !.reason = e.reason]
      [] OTHER                           -> v

FoldInit ==
    /\ Init
    /\ view = [SnapshotView EXCEPT !.held = FALSE]
    /\ vacated = {}

\* applyEvents on the events of the transition that is being made.
Follow ==
    /\ view' = IF view.held THEN FoldLeft(ReduceEvent, view, events') ELSE view
    /\ vacated' = IF view.held /\ phase = "lobby"
                  THEN vacated \cup (Present(status) \ Present(status')) ELSE vacated

\* A connection's first snapshot, a resynchronisation or an acknowledgement.
Snapshot ==
    /\ view' = SnapshotView
    /\ vacated' = {}
    /\ UNCHANGED vars

FoldNext == (Next /\ Follow) \/ Snapshot

\* As FairSpec of BoardGame.
FoldSpec ==
    /\ FoldInit
    /\ [][FoldNext]_foldVars
    /\ WF_foldVars(turn.round <= MaxRound /\ (\E p \in Seats : TurnStep(p)) /\ Follow)

-----------------------------------------------------------------------------
(* Properties. *)

\* The reducer rebuilds the engine's state from events alone: whichever
\* snapshot it started from, the view has the phase, the outcome, the owner of
\* every space and the money and position of every player; the status too,
\* except of a seat somebody left in the lobby since, and the turn as soon as
\* one turn has been passed.
ViewAgrees ==
    view.held =>
        /\ view.phase = phase /\ view.winner = winner /\ view.reason = endReason
        /\ view.owner = owner
        /\ \A p \in Present(status) :
              /\ view.money[p] = money[p] /\ view.position[p] = position[p]
              /\ p \notin vacated => view.status[p] = status[p] /\ view.ready[p] = ready[p]
        /\ view.turn.round > 0 =>
              view.turn.seat = turn.seat /\ view.turn.round = turn.round
=============================================================================
