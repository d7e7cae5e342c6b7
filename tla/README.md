# TLA+ specifications of HighJack

HighJack is a multiplayer board game: a Go server (`src/server`) that owns the
rules, the matches and their persistence, a TypeScript client (`src/apps/game`)
that follows a match over a websocket, and a few supporting packages. This
directory models the parts in which something can go wrong between two steps,
two goroutines, or two machines, checks them with TLC on small instances, and
proves the central results with TLAPS for every value of the constants.

## 1. Inventory

| Component | Code | State | Operations |
|---|---|---|---|
| Game engine, lobby | `game/lifecycle.go`, `game/state.go`, `game/engine.go` | phase, roster (seat, status, host, ready, money) | join, leave, ready, start |
| Game engine, board | `game/board_ruleset.go`, `game/board.go`, `game/legality.go` | owners, positions, turn pointer, winner | roll, buy, decline, end turn; victory evaluation; legal actions |
| Configuration | `game/config*.go` | none | validation, hashing |
| Dice, ids | `game/rng.go`, `game/ids.go` | none | derivation of dice, seeds and player ids |
| Match runtime | `match/match.go` | state under `mu`; sessions, tokens, history; `fanoutMu` | Join, Bind, Disconnect, ApplyAction, Broadcast, ResumeFor, MarkReady, reconcileCommit |
| Registry and janitor | `match/registry.go`, `cmd/highjack/main.go` | map of live matches, last activity | Create, Get, EvictIdle |
| Rate limiter | `match/ratelimiter.go` | hits per key, sweep counter | Allow |
| Websocket handler | `realtime/handler.go` | one goroutine per connection | handshake, action loop, heartbeat, disconnect |
| HTTP lobby API | `api/matches.go` | none of its own | create match, claim seat, read match |
| Persistence | `persistence/store.go` | snapshot, event rows, cursor, players, status | CreateMatch, CommitTransition, CommitJoin, LoadMatch, MarkInterrupted |
| Migrations | `persistence/migrate.go`, `migrations/` | applied versions | read what is applied, run what is missing, one transaction per file; no lock |
| Client store | `apps/game/src/state/game-store.ts` | view, dedup set, log | applySnapshot, applyEvents, reducer |
| Client connection | `apps/game/src/net/connection.ts` | socket, sequence number, pending actions | connect, onMessage, onClose, send |
| Protocol codecs | `protocol/*.go`, `packages/protocol` | none | encode, decode |
| Server process | `cmd/highjack` | how far it has booted | migrate, mark leftover matches interrupted, serve, drain |
| Web site, UI | `apps/web`, `packages/ui` | none of interest | static pages, components |

How they interact. An action travels client connection → websocket handler →
`Match.ApplyAction` (under the match mutex: engine, then one database
transaction, then the in-memory install) → `Match.Broadcast` (under the fan-out
mutex, after the match mutex was released) → every ready session's socket →
client store. Seat claims take the same route from an HTTP request. The
janitor goroutine runs beside all of that and removes matches nobody attends.
The database may fail, reply late, or not reply at all; the process may die, and
a deploy may run two of them over one database for a while.

What is hard, per component, and what makes it correct:

- **Engine.** Long sequences of legal actions: hosts leave, seats are reused,
  players go bankrupt or leave in the middle of a turn, doubles are interrupted
  by purchases. Correct: nobody in debt, only active players own, the turn
  always rests on somebody who can act, one host, the doubles cap, what is
  offered is what is accepted, the right winner, a match with a round limit ends.
- **Durable commit.** A commit that reports an error may have happened, may
  still happen, or not. Correct: memory never runs ahead of the database, what
  was acknowledged is stored and is not applied again, the whole is an
  append-only log.
- **Fan-out.** Commit and publication use different locks, and a handshake
  overlaps both. Correct: nothing live reaches a connection before its snapshot,
  nothing published to a ready connection is lost, every commit is published.
- **Retained history.** Trimming at capacity. Correct: whole transitions only;
  a resuming client gets all events after its cursor or none, and if none although
  it is behind, it is told (the code does not tell cursor 0: section 4).
- **Registry.** A bound that is checked before it is used, and a janitor that
  races reconnects. Correct: bounded overshoot, a grace period after the last
  disconnect, idle matches reclaimed.
- **Rate limiter.** Keys deleted by other callers' sweeps. Correct: the limit
  over every window, no undeserved refusal, the map shrinks.
- **Client store.** The view is rebuilt from events between snapshots. Correct:
  it shows what the engine has.
- **Connection and session.** A promise per action on one side, a watermark per
  connection on the other, sockets that drop in between, seats that change
  hands. Correct: promises are settled, truthfully; nobody acts for another.
- **Boot.** Builds with different migrations follow one another, fail half-way,
  or race. Correct: who serves has its schema, files run once and in order, only
  matches nobody runs any more are marked interrupted.

`PROJECT.json` lists the hazards one by one with the line where each bites and
the property that covers it.

## 2. Modules

| Module | Models | Notes |
|---|---|---|
| `BoardGame` | the engine, lobby and board, one action per accepted `Engine.Apply` | pure data: no RECURSIVE operator, assumptions are what `Validate` accepts |
| `MCBoardGame` | boards and dice for TLC | a mixed board and the smallest interesting one |
| `BoardGame_proofs` | theorems about `BoardGame` and `ClientFold` | section 5 |
| `MatchStore` | one match and its database: requests, commits of unknown outcome, reconciliation, death and boot | refines `DurableLog` |
| `DurableLog` | what the runtime promises: a log that is written, then told | abstract specification |
| `MCMatchStore` | the symmetry set for TLC | |
| `MatchStore_proofs` | theorems about `MatchStore`, and the refinement | section 5 |
| `ClientFold` | the client's view: `toView`, `applyEvents`, `reduceEvent`, run beside the engine | extends `BoardGame`, composes with it step by step |
| `MCClientFold` | `MCBoardGame`'s boards with `ClientFold` | |
| `Session` | client connection, session, watermark, seat and token, from a click to its answer | checked directly |
| `Session_proofs` | theorems about `Session` | section 5 |
| `Deploy` | server processes over one database: migrations, boot, serving, death | |
| `MCDeploy` | three builds for TLC | |
| `Deploy_proofs` | theorems about `Deploy` | section 5 |
| `Fanout` | commit, publication, acknowledgement, handshake, the client's fold | checked directly |
| `Fanout_proofs` | theorems about `Fanout` | section 5 |
| `RetainedHistory` | the in-memory event window and what a resuming client gets | checked directly; loops are recursive functions |
| `RetainedHistory_proofs` | theorems about `RetainedHistory` | section 5 |
| `Registry` | creation bound, lookups, session tables, janitor | checked directly |
| `Registry_proofs` | theorems about `Registry` | section 5 |
| `RateLimiter` | `Allow` with its amortised sweep | checked directly; the loop is a recursive function |
| `RateLimiter_proofs` | theorems about `RateLimiter` | section 5 |

Every module that a run checks also holds, next to some definitions, a variant
named `<definition>_<what is wrong>`, marked "Mutant": a plausible mistake in
that piece of code. With the definition replaced by the variant, TLC finds the
corresponding property violated, so none of the properties holds vacuously. The
specifications themselves never use the variants.

### BoardGame

A player id is derived from the match seed and the seat
(`DeriveMatchPlayerID`), so a player is a seat and the roster a function over
seats in which an unused seat is "absent". `Engine.Apply` is pure and either
yields a new state with its events or rejects; an action is one accepted call,
a rejection a disabled action. Dice are nondeterministic over the constant
`Dice`. `Settle` is the tail every board handler runs: install the board, then
`evaluateMatchEnd`. `LandQuietly`, `PayTax`, `PayRent` and `GoBankrupt` are the
branches of `resolveLanding`. The history variable `rolls` counts the throws of
a turn, for `RollsBounded`; `events` is what the transition emitted.
`LegalActions` is translated separately from the handlers, because the code
computes it separately: `LegalActionsExact` compares it with what is ENABLED.

### MatchStore

A game state is the sequence of requests that led to it, and its tick that
sequence's length. The mutex makes at most one request current (`cur`); it goes
through commit, install or error, and reconciliation. `inflight` is a COMMIT
whose reply was lost to the deadline and that may land or abort at any later
time. `Reconcile` follows `reconcileCommit`: it reads the cursor back, which
may fail, and adopts the stored state when it moved. `Collides` is the primary
key of the event table. `Crash` and `Boot` follow the single process: boot
marks open matches interrupted and does not resume them.

### Fanout

A transition is its tick. The goroutine of a connection, and each HTTP seat
claim, commits, takes the fan-out lock, sends to the sessions that are ready,
releases, and acknowledges. A connection is bound, is given a snapshot and perhaps
a catch-up range by `ResumeFor`, is written the catch-up frame (`SendCatchup`) and
then the snapshot (`SendSnapshot`), as `handler.go:315-319` does, and is marked
ready. A client in `Resuming` sends a cursor with its hello, and any range up to
the newest tick may then be its catch-up; which one it is, `RetainedHistory`
says. The shipped client sends no cursor (`connection.ts:96-104`), and the
constant may be empty; the run lets its client resume. The client's view counts
how often each transition's effect is in it, which tells a loss from a double
application; a batch of events goes by the tick of its first event, as in
`applyEvents`. Commits always succeed here; their failures are in `MatchStore`.

### ClientFold

Every step of `BoardGame` is taken together with the fold of the events it
emits (`Follow`), and a snapshot of the current state may replace the view at any
time (`Snapshot`), so the fold starts from every reachable state. `ReduceEvent`
has one operator per event that does something; `Adjusted` keeps the reducer's
clamp at zero. The reducer's fallback for a `player_bankrupt` event without a list of
released spaces (`game-store.ts:325-329`) is left out: the list is missing only when
it is empty, and then a view that shows the owners finds nothing to revert either. What `ViewAgrees` leaves out is what the events do not carry: the
host, the turn before the first turn is passed, the phase within a turn, and the
status of a seat left in the lobby, which the view keeps as "eliminated" also
when somebody else sits there (history variable `vacated`).

### Session

A session id is minted per connection, so it is the client and the number of the
connection. A token stands for a seat and is replaced when the seat is claimed
again; a session keeps the seat it was bound to. The server may end a connection
at any time (heartbeat, idle timeout, failed write), the client may lose it at
any time, in either order: actions and answers under way are lost with it. An
action may be refused on the way, or its commit may report an error although it
was stored (`MatchStore` has how); the answer is then an error. `done` records
the applied actions with the holder of their seat at that moment.

### Deploy

A process reads the applied versions, runs the missing files one transaction at
a time, marks leftover matches, serves, drains, and ends; it may die anywhere. A
file is a version number. Migrate's comparison with the highest version uses
what it read at the start (`seen`). Processes may overlap, because nothing in the
code prevents it; the repository documents a single instance as the supported
topology, so `overlapped` records whether they did, and the properties say what
holds regardless and what only without. A match row is its status and its
interrupted flag; a later transition overwrites the status and not the flag.

### RetainedHistory, Registry, RateLimiter

`RetainedHistory` has one action for a recorded transition and one for a state
adopted by reconciliation, which records nothing; queries are operators checked
for every cursor. `Registry` splits `Create` at the lock it releases, and a
connection at Get, Bind and welcome. Idle age stops just past the TTL, since
nothing tells larger ages apart. `RateLimiter` has one action per call, as the
mutex makes it, with the sweep inside it.

## 3. Runs

All of these finish within three minutes. "Deadlock" is not an error in
any of them: a match that ended, or a system whose bounds are used up, stops.

| Run | Instance | Shows |
|---|---|---|
| `board_wealth` | 3 seats, 5 spaces of every kind, a wealth target, 2 rounds, doubles cap 2 | the engine's invariants, the exactness of the legal actions, the winner under a wealth target, elimination, turn order |
| `board_rounds` | 3 seats, 3 spaces, round limit 2, doubles cap 2, a client that follows | the doubles cap, the winner under a round limit, who can overrun the limit, that the match ends, that the client's view agrees |
| `store_faults` | 2 seat claims, 2 sessions, 2 sequence numbers, 4 ticks, 3 database faults, a crash | durability, no second application, refinement of `DurableLog` |
| `store_join` | 1 fault while a seat is claimed | a counterexample: section 4 |
| `fanout_delivery` | 1 client with 2 connections, with a cursor or without, 1 seat claim, 4 ticks | nothing live before the snapshot, nothing lost while ready, every commit published |
| `fanout_handshake` | 2 clients without cursors, 2 ticks | a counterexample |
| `history_window` | capacity 4, transitions of 1 to 3 events, 6 ticks, 1 adopted | whole transitions, exact catch-up |
| `registry_idle` | 3 matches, 2 creators, 1 place, 1 connection, 1 seat claim, TTL 1 | bounded overshoot, reconnect grace, reclamation |
| `registry_leak` | 1 match, 1 connection | a counterexample |
| `deploy_overlap` | 3 processes with the files {1,2}, {1,2,4} and {1,2,3,4}, 2 matches | schema of who serves, order of migrations, what is marked interrupted |
| `session_actions` | 3 clients and 1 seat, 2 connections and 3 actions between them, 1 adopted commit | honest and settled promises, who acts from a seat |
| `limiter_window` | 2 keys, 2 per window of 2, sweep every 3 calls, clock to 5 | the limit, earned refusals, the sweep |

Why the bounds are enough to be interesting. Three seats are the smallest table
with a hole in it when somebody leaves, and on which passing the turn can skip
a player. Throws of 2 and 3 reach every space of the mixed board and cross go at
most once; on the tiny board throws of 2 and 7 do, and a 7 crosses go two or three
times. One of the throws is a double. A starting balance
of 2 or 3 makes bankruptcies, purchases and the wealth target all happen in two
rounds. In the store two requests and three faults give a lost reply, a
read-back that fails, and a late landing in one behaviour; four ticks leave room
for the collision that follows. Three goroutines contend in `Fanout`: those of a
client's two connections, the earlier of which may still be publishing when the
later one acts, and a seat claim's. A window
of four with transitions of up to three events is trimmed in the middle of a
transition. Two creators overshoot a bound of one. In the limiter the clock runs
through more than two windows, and a sweep meets fresh and stale keys. One seat
and three clients are enough for a seat to change hands twice while the sessions
of both leavers live, and two connections for a reconnect of one of them. Of the three builds one
has a file below the others' highest, so a late file meets every order of
deployment, and any two boots can race.

The bounds are named constants in the guards: `MaxRound`, `MaxTick`, `MaxSeq`,
`MaxFaults`, `MaxConns`, `MaxAdopts`, `MaxTime`; in `Session` `MaxConns` and
`MaxSeq` count for all clients together. Symmetry is used in
`store_faults` only, on the seat claims and the sessions, which no definition
tells apart, and which a safety run may permute.

Fairness:

- `BoardGame!FairSpec`: some player's board action is taken when one stays
  possible. The server has no turn timer, so this is an assumption about the
  players: whoever has the turn keeps acting. `MatchEnds` says what the rules
  guarantee under it. `ClientFold!FoldSpec` is the same with the client beside.
- `Session!Spec`: a session's goroutine handles what it has been sent, an open
  socket delivers what was written to it, and the client's socket reports, at
  last, that the server has closed it. Nobody has to connect, send or leave.
- `Fanout!FairSpec`: a goroutine that can run does run (the Go scheduler is
  preemptive and fair), and one that waits for the fan-out lock gets it though
  others keep taking it (`sync.Mutex` hands over to a waiter starved for a
  millisecond: strong fairness). A client reads what is on its wire.
- `Registry!FairSpec`: time passes, and the janitor's ticker keeps firing.

## 4. Where code and documentation disagree

Three runs carry a statement of the repository that the code does not meet; the
quotations are in `PROJECT.json`.

- `store_join`: a seat claim whose COMMIT succeeded without a reply is reported
  as failed; the seat turns up taken when a later commit collides and the stored
  state is adopted.
- `fanout_handshake`: nothing is buffered for a session between `ResumeFor` and
  `MarkReady`; a transition published in between does not reach it.
- `registry_leak`: when the welcome cannot be written the session stays in the
  table, and the match is never idle again.

Observed while modelling, without a violation run of their own:

- `leave` passes the turn, and with it the round, without evaluating the round
  limit, so a match can go on past its last round until the next board action;
  `docs/game/V0_2_DECISIONS.md:82` says "When the round exceeds the limit, the
  match ends immediately". `OverrunByLeaveOnly` states that this is the only way.
- A snapshot does not mark the ticks it contains as applied
  (`game-store.ts:182`), so the late frame of such a transition is folded again,
  although `game-store.ts:236` says a tick is applied at most once.
- The catch-up frame is written before the snapshot (`handler.go:316-319`).
  `docs/protocol/OVERVIEW.md:163` says "After a bind the server **always** sends a
  full snapshot. Missed events follow only when the supplied cursor is inside the
  retained window", and `docs/game/V0_2_DECISIONS.md:94` that they "are appended".
  `SnapshotBeforeLive` is therefore about live frames, and says of the catch-up
  that it ends at the snapshot that comes right after it. A client that still holds
  a view folds the catch-up and marks only its first tick as applied. The shipped
  client sends no cursor and gets no catch-up.
- A client with cursor 0 whose events are no longer retained is given none and is
  not told: `match.go:508` has `c > 0 && c < m.state.Tick`. The comment above it
  says of the client outside the window and the current one "only the former needs
  telling", and `docs/protocol/OVERVIEW.md:165` "otherwise `resync: true` tells the
  client to trust the snapshot rather than assume a complete history".
  `ResumeExact` states that cursor 0 is the only exception and when it is met; the
  snapshot is sent in any case.
- Publications may happen in another order than commits: `Broadcast` is called
  after the match mutex is released.
- An adopted commit is reported to its caller as an error although
  `ratelimiter.go:92` says "Either way the caller is told the truth"
  (`PromisesAreHonest` allows exactly that case).
- An adopted commit is missing from the retained window, so that a catch-up range
  that should contain it is served without it, as if complete. No property forbids
  it: the part of `ResumeExact` about what is served is stated for cursors with
  nothing adopted after them.
- The live-match bound is checked and used under two lock acquisitions
  (`OvershootBounded` states by how much it can be exceeded); a match can be
  evicted between Get and Bind.
- The action watermark starts again with a new connection, because the session id
  that it belongs to is minted per connection. `match.go:262` says "Reconnect keeps
  the action watermark so a replayed seq is still recognized as a duplicate rather
  than replayed as new", and `docs/game/V0_2_DECISIONS.md:100` "per-player
  last-applied `seq` watermark". What keeps an action from being applied twice is
  that the client never repeats a number (with one that restarted its numbering,
  `PromisesAreHonest` fails) and gives up its open actions when the socket closes:
  one sent again on the next connection would be applied again, if still legal.
  `AckedNeverReapplied` is about repeats on one connection (a request of
  `MatchStore` is a session and a number); `Session` models the client that does
  not repeat.
- A lobby seat's player id is reused, and leaving ends no session: the leaver's
  open session acts for whoever sits there next, and can even give up the seat
  for them, after which their session outlives its seat in turn. `ActorHoldsSeat`
  names that as the only exception: the actor held the seat when it was given up.
- With overlapping processes a match that runs is marked interrupted, its next
  commit sets the status back and leaves the flag; racing boots may apply
  migrations out of order, never twice. The repository documents one instance.
- The client's roster keeps somebody who left the lobby as "eliminated" until
  the next snapshot, also after the seat was taken again.
- `readIdleTimeout` is renewed by data frames the reader returns; `Session` lets
  the server drop a connection at any time and does not depend on it.

## 5. Proofs

`tlapm` on the eight `*_proofs.tla` modules checks everything below, for every
value of the constants that satisfies the named assumptions; the bounds of the runs
(`MaxTick`, `MaxSeq`, ...) are among those constants, so the results hold for runs
of any length. Each inductive invariant was an invariant of a TLC run before it was
proved. Facts about data that need induction (a loop over a sequence, a sum over a
set, `FlattenSeq`) are proved by least counterexample: `LeastNat`, from the
well-foundedness of the naturals, gives the first index at which a recursive
definition and its closed form differ, and the step before it refutes that. Where a
definition is a recursive function, a closed form that satisfies its equation also
shows that the function exists.

**BoardGame.** Assumptions: the configuration is one `Validate` accepts
(`ConfigAssumption`), dice show 1 to 6, `MaxRound` is a number. The inductive
invariant `IInv` is

- four of the invariants themselves, `TypeOK`, `Solvent`, `HoldingsAreActive`,
  and `OneHost`;
- `TurnInv`: in a running match two players are active, the turn is with one of
  them, and a pending decision is about a property in the bank that its player
  can pay. `TurnNeverStranded` and `BuyOfferStands` speak about the set of legal
  actions, which is not something a step preserves directly;
- `LobbyInv`: before the start nobody owns, is out, or has thrown, and hosts are
  present. Without it a lobby leave could orphan holdings, and a lobby that
  empties and fills again could have two hosts;
- `RollInv`: while another throw can follow, all throws of the turn are counted
  in the streak and the cap leaves room. The cap alone is not inductive: a
  purchase between two throws separates the count from the decision.

Every board action ends in `Settle`, so `BoardStep` reduces them to what their
board and turn must satisfy; `SolventRoll` does the same for the three landings
that leave a player solvent. `PassTurnFacts` and `PassTurnOrder` are about the
turn pointer; they need that a non-empty set of seats has a minimum (`MinSeat`,
from the well-foundedness of the naturals). Proved: `TypeOK`, `Solvent`,
`HoldingsAreActive`, `TurnNeverStranded`, `BuyOfferStands`, `OneHost`,
`RollsBounded`, `WinnerJustified`, `OverrunByLeaveOnly`, and the action
properties `EliminationIsFinal` and `NobodySkipped`. `WinnerJustified` and `OverrunByLeaveOnly` are
inductive together with `IInv` (`VerdictStep`): `EvaluationJustified` says what
`evaluateMatchEnd` finds, `SomeoneIsRichest` that a comparison of net worths has a
best, and `SumOfPrices` that a net worth is a number on every board.

`LegalActionsExact` speaks of ENABLED; its two directions are proved without it.
`OnlyOffered` is an action property: whatever action a player takes was in the
player's `LegalActions` before the step. `OffersStand` is the converse for the
checks: whatever is offered passes every check the engine makes of that action, and
a throw that is offered has exactly one of the four landings for any dice. That a
step whose checks pass has a successor state is what remains to the run.

**ClientFold.** The same assumptions, and nothing about the client but its code.
`FoldInv`, proved together with `IInv` for the engine beside its client, is

- `Shows`: a held view lists every player, and nobody else but seats left in the
  lobby since the snapshot; what it says of the phase, the owners, the outcome, the
  players and the turn is what `ViewAgrees` asks for. `ViewAgrees` alone is not
  inductive: it says nothing of who is listed, and the reducer ignores events about
  players it does not list;
- `ViewFresh`: in the lobby the view gives everybody it lists the starting money and
  puts them on go, those who have left included. `Joined` (the `player_joined` case)
  does nothing for a player who is listed already, so when a vacated seat is taken
  again the view shows the new player with what is left of the old one;
- `FreshInv`: in the lobby the match gives the same to every player, no turn was
  passed, and there is no outcome before the end.

`Fold` is the store's state after a batch of events. The community module defines
`FoldLeft` by a recursion over sets of indices; `FoldExists` shows that the recursion
defines a function, `FoldsAgree` that the fold of a prefix only depends on that prefix
(both by least counterexample), and `FoldNone`, `FoldMore` and `FoldBatches` draw the
usual equations from them. On top of these there is one lemma per kind of event on
what it does to a view that shows the match (`ShowsMoved`, `ShowsRent`,
`ShowsVacated`, ...), and one per action of the engine that chains them along the
action's events (`FollowRoll`, `FollowLeaveMatch`, ...). `AdjustedFacts` and
`Solvent` show on the way that the reducer's clamp at zero is never needed: an event
never takes more from a view that shows the match than the view has.
Proved: `ViewAgrees`, and that beside its client the match behaves as by itself
(`FoldWatches`), which carries every theorem about `BoardGame` over.

**MatchStore.** Assumption: the bounds are numbers. `IInv` adds to `TypeOK` and
`AckedIsDurable`

- `RequestInv`: the request under the mutex and its stage go together;
- `LogInv`: the stored log is memory, or one transition ahead, and ahead by the
  current request between commit and install;
- `InflightInv`: a commit on its way extends a log memory agrees with, by a
  request nobody was told about;
- `WatermarkInv`: acknowledged requests lie behind the watermarks and tokens.

The step that needs all of them is a late landing after a failed read-back: the
log moves ahead of memory by exactly one transition, the next commit collides,
and the reconciliation adopts it. Proved: `TypeOK`, `MemoryFollowsDatabase`,
`AckedIsDurable`, `AckedNeverReapplied`, and `ImplementsDurableLog`: every step
maps to a step of `DurableLog` or a stutter.

**Deploy.** Assumptions: versions are positive and a build has finitely many
files. `IInv` adds to `TypeOK` and `InterruptedMeansDead`

- `MigrateInv`: what a booting process has still to run covers what the schema
  lacks of its build, which makes `ServingHasSchema` follow at the end of the loop
  although other processes write to the schema meanwhile;
- `Once`: no version is recorded twice;
- `Alone`: without overlap one process runs, the schema ascends, and every
  version that was not there when that process looked lies below the files it has
  still to run. Without the last part the stale highest version would not be
  enough to keep the order;
- `HolderInv`: a match is held by a process that has come to serve, so a process
  that marks leftovers holds none.

`LowestFile` (the minimum of a non-empty set of versions) and `Recorded` (what an
append does to a sequence's range) are the lemmas underneath. Proved: `TypeOK`,
`ServingHasSchema`, `SchemaInOrder`, `InterruptedMeansDead`.

**Fanout.** Assumptions: the bounds are numbers, and `Resuming` is any set of
clients (`ResumingAssumption`), so the results hold with cursors and without.
`IInv` adds to `TypeOK`

- `ConnInv`: only connections past their handshake act or are written to;
- `TickInv`: nothing is published, in flight or known ahead of its commit;
- `OrderInv`: `SnapshotBeforeLive`, one client at a time;
- `CatchupInv`: a catch-up is chosen and written within the handshake, before
  anything else is on the wire, and ends at the snapshot's tick. Without it the
  catch-up could be the last thing on the wire when a live frame arrives;
- `ViewInv`: after the handshake a client holds a view, or its snapshot is still
  on the wire;
- `DeliveryInv`: what committed since a client became ready is folded into its
  view for good or on its way (being published, about to be sent to that
  connection, or on its wire), and what the client's dedup set holds of it is
  folded. `NoLossWhileReady` speaks of quiet moments only and says nothing about
  the frames that are still on their way, so it is not inductive by itself.

`SnapshotFacts` and the facts about the fold say what the client's store keeps
when a snapshot overtakes a frame. A catch-up marks a tick the snapshot has, so it
cannot hide a tick that commits after the client became ready. Proved: `TypeOK`,
`SnapshotBeforeLive`, `NoLossWhileReady`.

**Session.** Assumptions: finitely many seats and clients. `IInv` is `TypeInv`,
`ActorHoldsSeat` and

- `ConnInv`: an open socket has a connection, a session a claimed seat;
- `OnceInv`: an action travels once, over one connection, is not yet applied while
  it travels, and is applied once;
- `AnswerInv`: watermarks, answers on their way and settled promises agree with
  what was applied. The watermark alone would not do: it is forgotten with the
  connection, and what makes that harmless is `OnceInv`;
- `SeatInv`: a claimed seat is its client's until it was given up while theirs.

The proof of `ActorHoldsSeat` failed for the statement that a stranger's session
belongs to a client that itself left: with a third client it is false, since a
session that outlived its leave may give up the next holder's seat. The property
and the run (now three clients) were corrected. Proved: `PromisesAreHonest`,
`ActorHoldsSeat`.

**Registry.** Assumptions: finitely many matches and creators, a positive bound
and TTL. `IInv` adds to `TypeOK` and `OvershootBounded` that creators insert only
what was minted (`MakingInv`) and that while nobody is attached the idle clock has
not run for longer than the match was really quiet (`QuietInv`). Proved: `TypeOK`,
`OvershootBounded`, and the action property `ReconnectGrace`.

**RateLimiter.** Assumptions: numbers, with a window and a sweep period of at
least one. `IInv` adds to `TypeOK` and `LimitHolds` that a key is allowed at times
that never go back (`OrderInv`), and that what is retained of a key is a suffix of
what it was allowed, with everything before it outside the window (`RetainInv`).
`KeptIsWindow` draws from them that what `Allow` counts is exactly the calls within
the window, for which `UnexpiredIsRest` gives the loop's closed form; the limit,
earned refusals and the sweep all follow from it. Proved: `TypeOK`, `LimitHolds`,
`RefusalIsEarned`, and the action property `SweepForgets`.

**RetainedHistory.** Assumption: the window has room for one transition. `IInv`
adds to `TypeOK` and the capacity

- `Blocks`: an event in the window has its whole transition around it, at the
  positions its number says;
- `Ordered`: ticks ascend, and no transition is there twice;
- `Complete` and `NoOlder`: the window has every transition from `base` on that was
  recorded, and nothing before.

`DroppedFacts` is the argument for the cut: it falls where the tick changes, and
something is left because no transition exceeds the capacity. For `ResumeExact`,
`EventsAfterCut` is the loop of `sinceLocked` in closed form, `BetweenCuts` places
a transition between two cuts, and `AllSinceIsRest` joins them up to the last tick.
That only cursor 0 and the newest tick are given nothing in silence is a matter of
cases on the cursor; that cursor 0 is, only once the window was cut, follows
from the loop's closed form.
Proved: `TypeOK`, `WholeTransitions`, `ResumeExact`.

**Only model-checked.** Liveness (`MatchEnds`, `CommitIsPublished`,
`IdleIsReclaimed`, `PromisesSettle`) and ENABLED (`LegalActionsExact`, but see
`OnlyOffered` and `OffersStand`) are outside what the prover handles. Every other
property of a passing run is a theorem. The three runs that end in a violation are
counterexamples, which the prover has nothing to add to.

## 6. Plan

Written, in the order of importance: engine, durable commit with its abstract log,
fan-out, history, registry, limiter, client fold, session, deploy, and proofs for
every one of them. What could follow: the window between
`Registry.Get` and `Bind` in which the janitor evicts the match (a hazard without a
property, `registry.go:147`).

## 7. Not modelled

Codecs, logging, flags, origin checks and HTTP status codes are stateless or
transport; the configuration hash and the dice stream are hash constructions
without control flow (dice are a free choice instead). Money is an unbounded
integer: `Validate` bounds every amount by a million, so int64 is out of reach
of any match of realistic length. Heartbeats only decide when a connection
drops, which the models allow at any time. Configuration shape checking
(`config_shape.go`) is a pure walk over a JSON document whose verdict is the
assumption on `BoardGame`'s constants; environment parsing (`config/config.go`),
routing and middleware (`api/server.go`) keep no state. The client's legality
fallback serves older servers only. The web site and UI packages have no protocol
state.
