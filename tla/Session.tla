------------------------------- MODULE Session -------------------------------
(***************************************************************************)
(* From a click to its answer: the client's connection with its sequence   *)
(* numbers and pending promises, the server's session behind it with its   *)
(* watermark, and the seat the session acts for.                           *)
(*                                                                         *)
(* The match is in its lobby, where seats are given up and taken again.  A *)
(* player id is derived from the seat, so a session bound to a player is   *)
(* bound to a seat.  A client claims one seat and its token stands for it. *)
(* A session id is minted per connection: it is the client and the number  *)
(* of the connection.  The limiter, the decoder and the engine may refuse  *)
(* an action (RateLimiter and BoardGame say when); the snapshot exchange   *)
(* of the handshake is in Fanout.  Of a commit that fails only the outcome *)
(* is here: the action was stored and adopted, or it was not; MatchStore   *)
(* has what leads to it.                                                   *)
(***************************************************************************)
EXTENDS Integers, Sequences, FiniteSets, FiniteSetsExt

CONSTANTS
    Clients,
    Seats,       \* seats of the lobby, numbered from 0
    MaxConns,    \* bound: connections the clients open, together
    MaxSeq,      \* bound: actions they send, together
    MaxAdopts    \* bound: commits that are stored although they report an error

ASSUME SessionAssumption ==
    /\ Seats \in SUBSET Nat /\ IsFiniteSet(Seats) /\ IsFiniteSet(Clients)
    /\ MaxConns \in Nat /\ MaxSeq \in Nat /\ MaxAdopts \in Nat

SessionIds == Clients \X (1 .. MaxConns)
Nobody == "nobody"
NoSeat == -1

VARIABLES
    seated,    \* seats taken, in the engine's roster
    tokens,    \* Match.players: whose token stands for each seat
    seat,      \* the seat each client was given
    conn,      \* number of each client's current connection
    open,      \* clients whose socket is open
    sessions,  \* Match.sessions
    lastSeq,   \* action watermark of each session
    inbox,     \* actions on their way to each session
    replies,   \* answers on their way back
    seq,       \* last sequence number each client used
    pending,   \* sequence numbers whose promise is unsettled
    told,      \* how each promise was settled
    done       \* history: actions applied, in order

clientVars == <<seat, conn, open, seq, pending, told>>
serverVars == <<seated, tokens, sessions, lastSeq, done>>
vars == <<clientVars, serverVars, inbox, replies>>

Current(c) == <<c, conn[c]>>

Total(f) == MapThenSumSet(LAMBDA c : f[c], Clients)

Init ==
    /\ seated = {}
    /\ tokens = [s \in Seats |-> Nobody]
    /\ seat = [c \in Clients |-> NoSeat]
    /\ conn = [c \in Clients |-> 0]
    /\ open = {}
    /\ sessions = {}
    /\ lastSeq = [k \in SessionIds |-> 0]
    /\ inbox = [k \in SessionIds |-> <<>>]
    /\ replies = [k \in SessionIds |-> <<>>]
    /\ seq = [c \in Clients |-> 0]
    /\ pending = [c \in Clients |-> {}]
    /\ told = [c \in Clients |-> [n \in 1 .. MaxSeq |-> "nothing"]]
    /\ done = <<>>

-----------------------------------------------------------------------------
(* Seats and connections. *)

\* Mutant: a seat is given to two clients.
Vacant_all == Seats

Vacant == Seats \ seated

\* POST /matches/{matchId}/players: the lowest free seat and a token for it, which
\* replaces the token of whoever had the seat before.
ClaimSeat(c) ==
    /\ seat[c] = NoSeat
    /\ Vacant # {}
    /\ LET s == Min(Vacant)
       IN  /\ seated' = seated \cup {s}
           /\ tokens' = [tokens EXCEPT ![s] = c]
           /\ seat' = [seat EXCEPT ![c] = s]
    /\ UNCHANGED <<conn, open, sessions, lastSeq, inbox, replies, seq, pending,
                   told, done>>

\* Mutant: a new connection counts from the nextSeq of its snapshot, 1.
Numbering_restarts(c) == [seq EXCEPT ![c] = 0]

\* A new connection goes on counting where the last one stopped.
Numbering(c) == seq

\* connect and Bind: the token decides which seat the session acts for.  A
\* token that was replaced is refused, and the client tries again.
Connect(c) ==
    /\ c \notin open
    /\ Total(conn) < MaxConns
    /\ seat[c] # NoSeat /\ tokens[seat[c]] = c
    /\ conn' = [conn EXCEPT ![c] = @ + 1]
    /\ open' = open \cup {c}
    /\ sessions' = sessions \cup {<<c, conn[c] + 1>>}
    /\ seq' = Numbering(c)
    /\ UNCHANGED <<seated, tokens, seat, lastSeq, inbox, replies, pending, told, done>>

\* Mutant: promises of the lost connection stay pending.
Settle_keeps(c) == UNCHANGED <<pending, told>>

Settle(c) ==
    /\ pending' = [pending EXCEPT ![c] = {}]
    /\ told' = [told EXCEPT ![c] = [n \in 1 .. MaxSeq |->
                  IF n \in pending[c] THEN "failed" ELSE @[n]]]

\* The client sees its socket closed; what the server already wrote is lost.
OnClose(c) ==
    /\ c \in open
    /\ open' = open \ {c}
    /\ Settle(c)
    /\ replies' = [replies EXCEPT ![Current(c)] = <<>>]
    /\ UNCHANGED <<serverVars, seat, conn, seq, inbox>>

\* The socket of the session is the one its client has open.
Attached(k) == k[1] \in open /\ k = Current(k[1])

\* The reader loop ends: the heartbeat's ping or a write failed, or nothing was
\* read for readIdleTimeout, be the client still there or not.  The session is
\* deleted with its watermark.
Disconnect(k) ==
    /\ k \in sessions
    /\ sessions' = sessions \ {k}
    /\ lastSeq' = [lastSeq EXCEPT ![k] = 0]
    /\ inbox' = [inbox EXCEPT ![k] = <<>>]
    /\ UNCHANGED <<clientVars, seated, tokens, done, replies>>

-----------------------------------------------------------------------------
(* An action and its answer. *)

Send(c, leave) ==
    /\ c \in open
    /\ Total(seq) < MaxSeq
    /\ seq' = [seq EXCEPT ![c] = @ + 1]
    /\ pending' = [pending EXCEPT ![c] = @ \cup {seq[c] + 1}]
    /\ inbox' = IF Current(c) \in sessions
                THEN [inbox EXCEPT ![Current(c)] = Append(@, [n |-> seq[c] + 1, leave |-> leave])]
                ELSE inbox
    /\ UNCHANGED <<serverVars, seat, conn, open, told, replies>>

Replayed(k, n) == n = lastSeq[k]

\* What ApplyAction makes of an action nobody refuses before: a repeated
\* sequence number is acknowledged again, an older one refused, and the engine
\* refuses a player who is not in the roster.
Verdict(k, n) ==
    CASE Replayed(k, n) -> "replayed"
      [] ~Replayed(k, n) /\ n < lastSeq[k] -> "stale"
      [] ~Replayed(k, n) /\ n >= lastSeq[k] /\ seat[k[1]] \notin seated -> "rejected"
      [] OTHER -> "applied"

Reply(k, f, ok) ==
    replies' = IF Attached(k) THEN [replies EXCEPT ![k] = Append(@, [n |-> f.n, ok |-> ok])]
               ELSE replies

\* The roster and the log move on; reported says whether the commit did.
Apply(k, f, reported) ==
    /\ done' = Append(done, [client |-> k[1], n |-> f.n, leave |-> f.leave, reported |-> reported,
                             holder |-> tokens[seat[k[1]]]])
    /\ seated' = IF f.leave THEN seated \ {seat[k[1]]} ELSE seated

Adopts == Cardinality({i \in 1 .. Len(done) : ~done[i].reported})

\* What may come of an action: anybody on the way may refuse it.
Outcomes(k, n) ==
    IF Verdict(k, n) # "applied" THEN {Verdict(k, n), "refused"}
    ELSE {"applied", "refused"} \cup (IF Adopts < MaxAdopts THEN {"adopted"} ELSE {})

\* handleAction.  Whoever refuses an action, its watermark stays; so it does for
\* an action whose commit reported an error and was adopted by the
\* reconciliation, which is answered as an error all the same.  When the answer
\* cannot be written the loop ends, too: that is a Disconnect.
HandleAction(k) ==
    /\ k \in sessions
    /\ inbox[k] # <<>>
    /\ LET f == Head(inbox[k])
       IN  \E v \in Outcomes(k, f.n) :
              /\ Reply(k, f, v \in {"applied", "replayed"})
              /\ IF v \in {"applied", "adopted"} THEN Apply(k, f, v = "applied")
                 ELSE UNCHANGED <<done, seated>>
              /\ lastSeq' = IF v = "applied" THEN [lastSeq EXCEPT ![k] = f.n] ELSE lastSeq
    /\ inbox' = [inbox EXCEPT ![k] = Tail(@)]
    /\ UNCHANGED <<clientVars, tokens, sessions>>

\* onMessage: an answer settles the promise of its sequence number, if there
\* is one.
OnMessage(c) ==
    /\ c \in open
    /\ replies[Current(c)] # <<>>
    /\ LET r == Head(replies[Current(c)])
       IN  /\ pending' = [pending EXCEPT ![c] = @ \ {r.n}]
           /\ told' = IF r.n \in pending[c]
                      THEN [told EXCEPT ![c][r.n] = IF r.ok THEN "done" ELSE "refused"]
                      ELSE told
    /\ replies' = [replies EXCEPT ![Current(c)] = Tail(@)]
    /\ UNCHANGED <<serverVars, seat, conn, open, seq, inbox>>

Next ==
    \/ \E c \in Clients :
          \/ ClaimSeat(c) \/ Connect(c) \/ OnClose(c) \/ OnMessage(c)
          \/ \E leave \in BOOLEAN : Send(c, leave)
    \/ \E k \in SessionIds : Disconnect(k) \/ HandleAction(k)

\* A session's goroutine runs, an open socket delivers what was written, and
\* the client learns that the server has closed its socket.
Spec ==
    /\ Init
    /\ [][Next]_vars
    /\ \A k \in SessionIds : WF_vars(HandleAction(k))
    /\ \A c \in Clients : WF_vars(OnMessage(c)) /\ WF_vars(Current(c) \notin sessions /\ OnClose(c))

-----------------------------------------------------------------------------
(* Properties. *)

Applied(c, n) == {i \in 1 .. Len(done) : done[i].client = c /\ done[i].n = n}

\* A client is told the truth, through reconnections, refusals and
\* answers that are lost with their socket: an action reported done was applied
\* exactly once, none is applied twice, and one reported refused was not applied
\* unless its commit reported an error and was adopted.
PromisesAreHonest ==
    \A c \in Clients : \A n \in 1 .. MaxSeq :
        /\ Cardinality(Applied(c, n)) <= 1
        /\ told[c][n] = "done" => Applied(c, n) # {}
        /\ told[c][n] = "refused" => \A i \in Applied(c, n) : ~done[i].reported

\* Nobody but its present holder acts from a seat, save a session whose client
\* held the seat when it was given up: by the client's own leave, or by the
\* leave of a session that had outlived an earlier holder's.  Such a session
\* goes on acting for the seat, also when it is somebody else's.
ActorHoldsSeat ==
    \A i \in 1 .. Len(done) :
        \/ done[i].holder = done[i].client
        \/ \E j \in 1 .. i - 1 : done[j].holder = done[i].client /\ done[j].leave

\* Every promise is settled: by its answer, or by the loss of the connection.
PromisesSettle ==
    \A c \in Clients : \A n \in 1 .. MaxSeq : n \in pending[c] ~> n \notin pending[c]
=============================================================================
