---------------------------- MODULE Session_proofs ----------------------------
(***************************************************************************)
(* Proofs about Session, for any number of clients and seats and any       *)
(* number of connections, actions and adopted commits: that clients are    *)
(* told the truth about their actions, and who may act from a seat.        *)
(***************************************************************************)
EXTENDS Session, FiniteSetTheorems, WellFoundedInduction, NaturalsInduction, TLAPS

Numbers == 1 .. MaxSeq
Frames  == [n : Numbers, leave : BOOLEAN]
Answers == [n : Numbers, ok : BOOLEAN]
Deeds   == [client : Clients, n : Numbers, leave : BOOLEAN, reported : BOOLEAN,
            holder : Clients \cup {Nobody}]

\* Every variable has the type its Go or TypeScript declaration gives it.
TypeInv ==
    /\ seated \subseteq Seats
    /\ tokens \in [Seats -> Clients \cup {Nobody}]
    /\ seat \in [Clients -> Seats \cup {NoSeat}]
    /\ conn \in [Clients -> 0 .. MaxConns]
    /\ open \subseteq Clients
    /\ sessions \subseteq SessionIds
    /\ lastSeq \in [SessionIds -> 0 .. MaxSeq]
    /\ inbox \in [SessionIds -> Seq(Frames)]
    /\ replies \in [SessionIds -> Seq(Answers)]
    /\ seq \in [Clients -> 0 .. MaxSeq]
    /\ pending \in [Clients -> SUBSET Numbers]
    /\ told \in [Clients -> [Numbers -> {"nothing", "failed", "done", "refused"}]]
    /\ done \in Seq(Deeds)

\* An open socket belongs to a connection, and a session to a claimed seat.
ConnInv ==
    /\ \A c \in open : conn[c] > 0
    /\ \A k \in sessions : seat[k[1]] # NoSeat

\* Action n of client c is on its way to the server.
Underway(c, n) == \E k \in SessionIds : k[1] = c /\ \E i \in 1 .. Len(inbox[k]) : inbox[k][i].n = n

\* Action n of client c was applied.
Kept(c, n) == \E i \in 1 .. Len(done) : done[i].client = c /\ done[i].n = n

\* Action n of client c was refused for good: what was applied of it was
\* adopted, and nothing is on its way that could still be applied.
Dropped(c, n) ==
    /\ \A i \in 1 .. Len(done) : done[i].client = c /\ done[i].n = n => ~done[i].reported
    /\ ~Underway(c, n)
    /\ n <= seq[c]

\* An action travels once, over one connection, and is applied at most once.
OnceInv ==
    /\ \A k \in SessionIds : \A i \in 1 .. Len(inbox[k]) :
          inbox[k][i].n <= seq[k[1]] /\ ~Kept(k[1], inbox[k][i].n)
    /\ \A k, l \in SessionIds : k[1] = l[1] =>
          \A i \in 1 .. Len(inbox[k]), j \in 1 .. Len(inbox[l]) :
             inbox[k][i].n = inbox[l][j].n => k = l /\ i = j
    /\ \A i \in 1 .. Len(done) : done[i].n <= seq[done[i].client]
    /\ \A i, j \in 1 .. Len(done) :
          done[i].client = done[j].client /\ done[i].n = done[j].n => i = j

\* Watermarks, answers on their way and settled promises tell the truth.
AnswerInv ==
    /\ \A k \in SessionIds : lastSeq[k] # 0 => Kept(k[1], lastSeq[k])
    /\ \A k \in SessionIds : \A i \in 1 .. Len(replies[k]) :
          /\ replies[k][i].ok => Kept(k[1], replies[k][i].n)
          /\ ~replies[k][i].ok => Dropped(k[1], replies[k][i].n)
    /\ \A c \in Clients, n \in Numbers :
          /\ told[c][n] = "done" => Kept(c, n)
          /\ told[c][n] = "refused" => Dropped(c, n)

\* The seat of client c was given up while it was theirs.
GivenUp(c) == \E i \in 1 .. Len(done) : done[i].holder = c /\ done[i].leave

\* A claimed seat is its client's until it is given up.
SeatInv ==
    \A c \in Clients : seat[c] # NoSeat =>
        GivenUp(c) \/ (tokens[seat[c]] = c /\ seat[c] \in seated)

IInv == TypeInv /\ ConnInv /\ OnceInv /\ AnswerInv /\ SeatInv /\ ActorHoldsSeat

-----------------------------------------------------------------------------
(* The bound on a sum bounds every term.  An induction is a search for the *)
(* least counterexample: the library's principles cannot be instantiated.  *)

\* A set of naturals that is not empty has a least member.
LEMMA LeastNat ==
    ASSUME NEW S, S \subseteq Nat, S # {}
    PROVE  \E x \in S : \A y \in S : x <= y
<1>1. PICK x \in S : \A y \in S : ~(<<y, x>> \in OpToRel(<, Nat))
  BY WFMin, NatLessThanWellFounded
<1>2. \A y \in S : ~(y < x)
  BY <1>1 DEF OpToRel
<1> QED BY <1>2

\* The recursion behind Total, one client at a time.
Pick(s) == CHOOSE x \in s : TRUE
SumBody(f, h, s) == IF s = {} THEN 0 ELSE f[Pick(s)] + h[s \ {Pick(s)}]

\* Taking one client out of a set leaves one fewer to add up.
LEMMA PickFacts ==
    ASSUME NEW s, s # {}, IsFiniteSet(s)
    PROVE  /\ Pick(s) \in s
           /\ IsFiniteSet(s \ {Pick(s)})
           /\ Cardinality(s \ {Pick(s)}) = Cardinality(s) - 1
           /\ Cardinality(s) \in Nat /\ Cardinality(s) > 0
<1>1. Pick(s) \in s
  BY DEF Pick
<1> QED BY <1>1, FS_RemoveElement, FS_CardinalityType, FS_EmptySet

\* The recursion defines a function on the subsets of a finite set: a partial
\* one for the subsets of at most n members extends to n + 1.
LEMMA SumExists ==
    ASSUME NEW f, NEW S, IsFiniteSet(S)
    PROVE  \E h : h = [s \in SUBSET S |-> SumBody(f, h, s)]
<1> DEFINE Upto(n) == {s \in SUBSET S : Cardinality(s) <= n}
           Partial(n) == \E h : h = [s \in Upto(n) |-> SumBody(f, h, s)]
           Bad == {n \in Nat : ~Partial(n)}
<1>1. \A s \in SUBSET S : IsFiniteSet(s) /\ Cardinality(s) \in Nat
  BY FS_Subset, FS_CardinalityType
<1>2. ASSUME NEW n \in Bad, \A m \in Bad : n <= m PROVE FALSE
  <2>1. CASE n = 0
    <3>1. Upto(0) \subseteq {{}}
      BY <1>1, FS_EmptySet
    <3> DEFINE h == [s \in Upto(0) |-> 0]
    <3>2. \A s \in Upto(0) : SumBody(f, h, s) = 0
      BY <3>1 DEF SumBody
    <3>3. h = [s \in Upto(0) |-> SumBody(f, h, s)]
      BY <3>2
    <3> HIDE DEF h
    <3>4. Partial(0)
      BY <3>3
    <3> QED BY <2>1, <3>4
  <2>2. CASE n # 0
    <3>1. n - 1 \in Nat /\ n - 1 \notin Bad
      <4> HIDE DEF Partial
      <4> QED BY <1>2, <2>2
    <3>2. PICK g : g = [s \in Upto(n - 1) |-> SumBody(f, g, s)]
      BY <3>1
    <3> DEFINE h == [s \in Upto(n) |-> IF Cardinality(s) <= n - 1 THEN g[s] ELSE SumBody(f, g, s)]
    <3>3. ASSUME NEW s \in Upto(n) PROVE h[s] = SumBody(f, h, s)
      <4>1. h[s] = SumBody(f, g, s)
        BY <1>1, <3>2, <3>3
      <4>2. CASE s = {}
        BY <4>1, <4>2 DEF SumBody
      <4>3. CASE s # {}
        <5>1. s \ {Pick(s)} \in Upto(n - 1)
          BY <1>1, <4>3, PickFacts
        <5>2. s \ {Pick(s)} \in Upto(n) /\ Cardinality(s \ {Pick(s)}) <= n - 1
          BY <5>1, <1>1
        <5>3. h[s \ {Pick(s)}] = g[s \ {Pick(s)}]
          BY <5>2
        <5> HIDE DEF h
        <5> QED BY <4>1, <4>3, <5>3 DEF SumBody
      <4> QED BY <4>2, <4>3
    <3>4. h = [s \in Upto(n) |-> SumBody(f, h, s)]
      BY <3>3
    <3> HIDE DEF h
    <3>5. Partial(n)
      BY <3>4
    <3> QED BY <3>5
  <2> QED BY <2>1, <2>2
<1>3. Bad = {}
  <2> HIDE DEF Partial
  <2> QED BY <1>2, LeastNat
<1>4. Partial(Cardinality(S))
  BY <1>1, <1>3
<1>5. Upto(Cardinality(S)) = SUBSET S
  BY FS_Subset
<1> QED BY <1>4, <1>5

\* No client counts for more than all of them.
LEMMA TotalBounds ==
    ASSUME NEW f, \A c \in Clients : f[c] \in Nat
    PROVE  Total(f) \in Nat /\ \A c \in Clients : f[c] <= Total(f)
<1>1. IsFiniteSet(Clients)
  BY SessionAssumption
<1> DEFINE h == CHOOSE g : g = [s \in SUBSET Clients |-> SumBody(f, g, s)]
<1>2. Total(f) = h[Clients]
  BY DEF Total, MapThenSumSet, MapThenFoldSet, SumBody, Pick
<1>3. h = [s \in SUBSET Clients |-> SumBody(f, h, s)]
  BY <1>1, SumExists
<1> HIDE DEF h
<1> DEFINE Good(s) == h[s] \in Nat /\ \A c \in s : f[c] <= h[s]
           Bad == {n \in Nat : \E s \in SUBSET Clients : Cardinality(s) = n /\ ~Good(s)}
<1>4. \A s \in SUBSET Clients : IsFiniteSet(s) /\ Cardinality(s) \in Nat
  BY <1>1, FS_Subset, FS_CardinalityType
<1>5. ASSUME NEW n \in Bad, \A m \in Bad : n <= m PROVE FALSE
  <2>1. PICK s \in SUBSET Clients : Cardinality(s) = n /\ ~Good(s)
    BY <1>5
  <2>2. h[s] = SumBody(f, h, s)
    BY <1>3
  <2>3. s # {}
    BY <2>1, <2>2 DEF SumBody
  <2> DEFINE r == s \ {Pick(s)}
  <2>4. Cardinality(r) = n - 1 /\ n - 1 \in Nat /\ r \in SUBSET Clients /\ Pick(s) \in s
    BY <1>4, <2>1, <2>3, PickFacts
  <2>5. Good(r)
    <3> HIDE DEF Good
    <3> QED BY <1>5, <2>4
  <2>6. h[s] = f[Pick(s)] + h[r] /\ f[Pick(s)] \in Nat /\ h[r] \in Nat
    BY <2>2, <2>3, <2>4, <2>5 DEF SumBody
  <2>7. \A c \in s : c = Pick(s) \/ c \in r
    OBVIOUS
  <2> HIDE DEF r
  <2>8. h[s] \in Nat /\ f[Pick(s)] <= h[s] /\ h[r] <= h[s]
    BY <2>6
  <2>9. \A c \in r : f[c] <= h[s]
    <3> TAKE c \in r
    <3>1. f[c] \in Nat /\ f[c] <= h[r]
      BY <2>4, <2>5
    <3> QED BY <2>6, <2>8, <3>1
  <2> QED BY <2>1, <2>7, <2>8, <2>9
<1>6. Bad = {}
  <2> HIDE DEF Good
  <2> QED BY <1>5, LeastNat
<1>7. Good(Clients)
  <2> HIDE DEF Good
  <2> QED BY <1>4, <1>6
<1> QED BY <1>2, <1>7

-----------------------------------------------------------------------------
(* The steps. *)

\* A session id is a client and a connection of theirs.
LEMMA SessionIdFacts ==
    /\ \A k \in SessionIds : k[1] \in Clients /\ k[2] \in 1 .. MaxConns /\ k = <<k[1], k[2]>>
    /\ \A c \in Clients : TypeInv /\ ConnInv /\ c \in open => Current(c) \in SessionIds
    /\ NoSeat \notin Seats /\ MaxConns \in Nat /\ MaxSeq \in Nat
<1>1. \A k \in SessionIds : k[1] \in Clients /\ k[2] \in 1 .. MaxConns /\ k = <<k[1], k[2]>>
  BY DEF SessionIds
<1>2. MaxConns \in Nat /\ MaxSeq \in Nat /\ NoSeat \notin Seats
  BY SessionAssumption DEF NoSeat
<1>3. \A c \in Clients : TypeInv /\ ConnInv /\ c \in open => Current(c) \in SessionIds
  BY <1>2 DEF TypeInv, ConnInv, Current, SessionIds
<1> QED BY <1>1, <1>2, <1>3

\* Before anything happened there is nothing to be wrong about.
LEMMA InitIInv == Init => IInv
<1> SUFFICES ASSUME Init PROVE IInv
  OBVIOUS
<1>1. 0 \in 0 .. MaxConns /\ 0 \in 0 .. MaxSeq
  BY SessionIdFacts
<1>2. TypeInv
  BY <1>1 DEF Init, TypeInv, Numbers
<1>3. Len(done) = 0 /\ \A k \in SessionIds : Len(inbox[k]) = 0 /\ Len(replies[k]) = 0
  BY DEF Init
<1>4. ConnInv /\ SeatInv
  BY DEF Init, ConnInv, SeatInv
<1>5. OnceInv
  BY <1>3 DEF OnceInv
<1>6. AnswerInv
  BY <1>3 DEF AnswerInv, Init, Numbers
<1>7. ActorHoldsSeat
  BY <1>3 DEF ActorHoldsSeat
<1> QED BY <1>2, <1>4, <1>5, <1>6, <1>7 DEF IInv

\* What depends only on the log, on the way to it and on the numbers used.
LEMMA SameRecord ==
    ASSUME IInv, UNCHANGED <<done, inbox, seq>>
    PROVE  /\ OnceInv' /\ ActorHoldsSeat'
           /\ \A c, n : (Kept(c, n)' <=> Kept(c, n)) /\ (Dropped(c, n)' <=> Dropped(c, n))
           /\ \A c : GivenUp(c)' <=> GivenUp(c)
BY DEF IInv, OnceInv, ActorHoldsSeat, Kept, Dropped, Underway, GivenUp

\* A claim takes a free seat, so nobody loses one who has not given it up.
LEMMA ClaimSeatStep == ASSUME IInv, NEW c \in Clients, ClaimSeat(c) PROVE IInv'
<1> DEFINE s == Min(Vacant)
<1>1. /\ seat[c] = NoSeat /\ Vacant # {}
      /\ seated' = seated \cup {s}
      /\ tokens' = [tokens EXCEPT ![s] = c]
      /\ seat' = [seat EXCEPT ![c] = s]
      /\ UNCHANGED <<conn, open, sessions, lastSeq, inbox, replies, seq, pending, told, done>>
  BY DEF ClaimSeat
<1>2. s \in Vacant
  <2>1. Vacant \subseteq Nat
    BY SessionAssumption DEF Vacant
  <2>2. \E x \in Vacant : \A y \in Vacant : x <= y
    BY <1>1, <2>1, LeastNat
  <2> QED BY <2>2 DEF Min
<1>3. s \in Seats /\ s \notin seated /\ s # NoSeat
  BY <1>2, SessionIdFacts DEF Vacant
<1> HIDE DEF s
<1>4. TypeInv'
  BY <1>1, <1>3 DEF IInv, TypeInv
<1>5. ConnInv'
  <2>1. \A k \in sessions : k[1] \in Clients
    BY SessionIdFacts DEF IInv, TypeInv
  <2> QED BY <1>1, <1>3, <2>1 DEF IInv, ConnInv, TypeInv
<1>6. SeatInv'
  <2> SUFFICES ASSUME NEW d \in Clients, seat'[d] # NoSeat
               PROVE  GivenUp(d) \/ (tokens'[seat'[d]] = d /\ seat'[d] \in seated')
    BY <1>1, SameRecord DEF SeatInv
  <2>1. CASE d = c
    BY <1>1, <1>3, <2>1 DEF IInv, TypeInv
  <2>2. CASE d # c
    <3>1. seat'[d] = seat[d] /\ seat[d] \in Seats
      BY <1>1, <2>2 DEF IInv, TypeInv
    <3>2. GivenUp(d) \/ (tokens[seat[d]] = d /\ seat[d] \in seated)
      BY <3>1 DEF IInv, SeatInv
    <3> QED BY <1>1, <1>3, <3>1, <3>2 DEF IInv, TypeInv
  <2> QED BY <2>1, <2>2
<1>7. AnswerInv'
  BY <1>1, SameRecord DEF IInv, AnswerInv
<1> QED BY <1>1, <1>4, <1>5, <1>6, <1>7, SameRecord DEF IInv

\* A connection opens a session for a claimed seat.
LEMMA ConnectStep == ASSUME IInv, NEW c \in Clients, Connect(c) PROVE IInv'
<1>1. /\ Total(conn) < MaxConns /\ seat[c] # NoSeat
      /\ conn' = [conn EXCEPT ![c] = @ + 1]
      /\ open' = open \cup {c}
      /\ sessions' = sessions \cup {<<c, conn[c] + 1>>}
      /\ UNCHANGED <<seq, seated, tokens, seat, lastSeq, inbox, replies, pending, told, done>>
  BY DEF Connect, Numbering
<1>2. conn[c] + 1 \in 1 .. MaxConns
  <2>1. \A d \in Clients : conn[d] \in Nat
    BY SessionIdFacts DEF IInv, TypeInv
  <2>2. Total(conn) \in Nat /\ conn[c] <= Total(conn)
    BY <2>1, TotalBounds
  <2> QED BY <1>1, <2>1, <2>2, SessionIdFacts
<1>3. conn' \in [Clients -> 0 .. MaxConns] /\ <<c, conn[c] + 1>> \in SessionIds
  BY <1>1, <1>2 DEF IInv, TypeInv, SessionIds
<1>4. TypeInv'
  BY <1>1, <1>3 DEF IInv, TypeInv
<1>5. ConnInv'
  <2>1. \A d \in open' : conn'[d] > 0
    <3> TAKE d \in open'
    <3>1. CASE d = c
      BY <1>1, <1>2, <3>1 DEF IInv, TypeInv
    <3>2. CASE d # c
      <4>1. d \in open /\ conn'[d] = conn[d]
        BY <1>1, <3>2 DEF IInv, TypeInv
      <4> QED BY <4>1 DEF IInv, ConnInv
    <3> QED BY <3>1, <3>2
  <2>2. \A k \in sessions' : seat'[k[1]] # NoSeat
    BY <1>1 DEF IInv, ConnInv
  <2> QED BY <2>1, <2>2 DEF ConnInv
<1>6. SeatInv'
  BY <1>1, SameRecord DEF IInv, SeatInv
<1>7. AnswerInv'
  BY <1>1, SameRecord DEF IInv, AnswerInv
<1> QED BY <1>1, <1>4, <1>5, <1>6, <1>7, SameRecord DEF IInv

\* A lost connection settles promises as failed and loses answers.
LEMMA OnCloseStep == ASSUME IInv, NEW c \in Clients, OnClose(c) PROVE IInv'
<1> DEFINE k == Current(c)
<1>1. /\ c \in open
      /\ open' = open \ {c}
      /\ pending' = [pending EXCEPT ![c] = {}]
      /\ told' = [told EXCEPT ![c] = [n \in Numbers |->
                    IF n \in pending[c] THEN "failed" ELSE told[c][n]]]
      /\ replies' = [replies EXCEPT ![k] = <<>>]
      /\ UNCHANGED <<seated, tokens, sessions, lastSeq, done, seat, conn, seq, inbox>>
  BY DEF OnClose, Settle, serverVars, Numbers, IInv, TypeInv
<1>2. told' \in [Clients -> [Numbers -> {"nothing", "failed", "done", "refused"}]]
  BY <1>1 DEF IInv, TypeInv
<1>3. replies' \in [SessionIds -> Seq(Answers)]
  <2>1. <<>> \in Seq(Answers) /\ replies \in [SessionIds -> Seq(Answers)]
    BY DEF IInv, TypeInv
  <2> HIDE DEF k
  <2> QED BY <1>1, <2>1
<1>4. pending' \in [Clients -> SUBSET Numbers]
  BY <1>1 DEF IInv, TypeInv
<1>5. TypeInv'
  BY <1>1, <1>2, <1>3, <1>4 DEF IInv, TypeInv
<1>6. ConnInv' /\ SeatInv'
  BY <1>1, SameRecord DEF IInv, ConnInv, SeatInv
<1>7. AnswerInv'
  <2>1. \A l \in SessionIds : lastSeq'[l] # 0 => Kept(l[1], lastSeq[l])
    BY <1>1 DEF IInv, AnswerInv
  <2>2. \A l \in SessionIds : replies'[l] = <<>> \/ replies'[l] = replies[l]
    BY <1>1 DEF IInv, TypeInv
  <2>3. \A l \in SessionIds : \A i \in 1 .. Len(replies'[l]) :
           /\ replies'[l][i].ok => Kept(l[1], replies'[l][i].n)
           /\ ~replies'[l][i].ok => Dropped(l[1], replies'[l][i].n)
    <3> TAKE l \in SessionIds
    <3>1. CASE replies'[l] = <<>>
      BY <3>1
    <3>2. CASE replies'[l] = replies[l]
      BY <3>2 DEF IInv, AnswerInv
    <3> QED BY <2>2, <3>1, <3>2
  <2>4. \A d \in Clients, n \in Numbers : told'[d][n] = told[d][n] \/ told'[d][n] = "failed"
    BY <1>1 DEF IInv, TypeInv
  <2>5. \A d \in Clients, n \in Numbers :
           /\ told'[d][n] = "done" => Kept(d, n)
           /\ told'[d][n] = "refused" => Dropped(d, n)
    BY <2>4 DEF IInv, AnswerInv
  <2> QED BY <1>1, <2>1, <2>3, <2>5, SameRecord DEF AnswerInv
<1> QED BY <1>1, <1>5, <1>6, <1>7, SameRecord DEF IInv

\* An answer settles a promise with what it says.
LEMMA OnMessageStep == ASSUME IInv, NEW c \in Clients, OnMessage(c) PROVE IInv'
<1> DEFINE k == Current(c)
           r == Head(replies[k])
<1>1. /\ c \in open /\ replies[k] # <<>>
      /\ pending' = [pending EXCEPT ![c] = @ \ {r.n}]
      /\ told' = IF r.n \in pending[c]
                 THEN [told EXCEPT ![c][r.n] = IF r.ok THEN "done" ELSE "refused"]
                 ELSE told
      /\ replies' = [replies EXCEPT ![k] = Tail(@)]
      /\ UNCHANGED <<seated, tokens, sessions, lastSeq, done, seat, conn, open, seq, inbox>>
  BY DEF OnMessage, serverVars
<1>2. k \in SessionIds /\ k[1] = c
  BY <1>1, SessionIdFacts DEF IInv, Current
<1>3. replies[k] \in Seq(Answers)
  BY <1>2 DEF IInv, TypeInv
<1>4. /\ Len(replies[k]) \in Nat /\ 1 \in 1 .. Len(replies[k]) /\ r = replies[k][1] /\ r \in Answers
      /\ Tail(replies[k]) \in Seq(Answers) /\ Len(Tail(replies[k])) = Len(replies[k]) - 1
      /\ \A i \in 1 .. Len(replies[k]) - 1 : Tail(replies[k])[i] = replies[k][i + 1]
  BY <1>1, <1>3
<1>5. r.n \in Numbers
  BY <1>4 DEF Answers
<1>6. (r.ok => Kept(c, r.n)) /\ (~r.ok => Dropped(c, r.n))
  BY <1>2, <1>4 DEF IInv, AnswerInv
<1>7. /\ \A d \in Clients, n \in Numbers :
            \/ told'[d][n] = told[d][n]
            \/ d = c /\ n = r.n /\ told'[d][n] = IF r.ok THEN "done" ELSE "refused"
      /\ told' \in [Clients -> [Numbers -> {"nothing", "failed", "done", "refused"}]]
  <2> HIDE DEF r, k
  <2>1. CASE r.n \in pending[c]
    BY <1>1, <1>5, <2>1 DEF IInv, TypeInv
  <2>2. CASE r.n \notin pending[c]
    BY <1>1, <2>2 DEF IInv, TypeInv
  <2> QED BY <2>1, <2>2
<1> HIDE DEF r
<1>8. TypeInv'
  BY <1>1, <1>2, <1>4, <1>7 DEF IInv, TypeInv
<1>9. ConnInv' /\ SeatInv'
  BY <1>1, SameRecord DEF IInv, ConnInv, SeatInv
<1>10. AnswerInv'
  <2>1. \A l \in SessionIds : lastSeq'[l] # 0 => Kept(l[1], lastSeq[l])
    BY <1>1 DEF IInv, AnswerInv
  <2>2. \A l \in SessionIds : \A i \in 1 .. Len(replies'[l]) :
           \E j \in 1 .. Len(replies[l]) : replies'[l][i] = replies[l][j]
    <3> TAKE l \in SessionIds
    <3>1. CASE l = k
      <4>1. replies'[l] = Tail(replies[k])
        BY <1>1, <1>2, <3>1 DEF IInv, TypeInv
      <4> QED BY <1>4, <3>1, <4>1
    <3>2. CASE l # k
      <4>1. replies'[l] = replies[l]
        BY <1>1, <3>2 DEF IInv, TypeInv
      <4> QED BY <4>1
    <3> QED BY <3>1, <3>2
  <2>3. \A l \in SessionIds : \A i \in 1 .. Len(replies'[l]) :
           /\ replies'[l][i].ok => Kept(l[1], replies'[l][i].n)
           /\ ~replies'[l][i].ok => Dropped(l[1], replies'[l][i].n)
    BY <2>2 DEF IInv, AnswerInv
  <2>4. \A d \in Clients, n \in Numbers :
           /\ told'[d][n] = "done" => Kept(d, n)
           /\ told'[d][n] = "refused" => Dropped(d, n)
    BY <1>6, <1>7 DEF IInv, AnswerInv
  <2> QED BY <1>1, <2>1, <2>3, <2>4, SameRecord DEF AnswerInv
<1> QED BY <1>1, <1>8, <1>9, <1>10, SameRecord DEF IInv

\* A session that ends forgets what was on its way to it.
LEMMA DisconnectStep == ASSUME IInv, NEW k \in SessionIds, Disconnect(k) PROVE IInv'
<1>1. /\ sessions' = sessions \ {k}
      /\ lastSeq' = [lastSeq EXCEPT ![k] = 0]
      /\ inbox' = [inbox EXCEPT ![k] = <<>>]
      /\ UNCHANGED <<seat, conn, open, seq, pending, told, seated, tokens, done, replies>>
  BY DEF Disconnect, clientVars
<1>2. \A l \in SessionIds : /\ inbox'[l] = inbox[l] \/ inbox'[l] = <<>>
                            /\ lastSeq'[l] = lastSeq[l] \/ lastSeq'[l] = 0
  BY <1>1 DEF IInv, TypeInv
<1>3. inbox' \in [SessionIds -> Seq(Frames)]
  <2>1. <<>> \in Seq(Frames) /\ inbox \in [SessionIds -> Seq(Frames)]
    BY DEF IInv, TypeInv
  <2> QED BY <1>1, <2>1
<1>4. TypeInv'
  <2>1. 0 \in 0 .. MaxSeq
    BY SessionIdFacts
  <2>2. lastSeq' \in [SessionIds -> 0 .. MaxSeq]
    BY <1>1, <2>1 DEF IInv, TypeInv
  <2> QED BY <1>1, <1>3, <2>2 DEF IInv, TypeInv
<1>5. ConnInv' /\ SeatInv' /\ ActorHoldsSeat'
  BY <1>1 DEF IInv, ConnInv, SeatInv, ActorHoldsSeat, GivenUp
<1>6. \A l \in SessionIds : \A i \in 1 .. Len(inbox'[l]) :
         inbox'[l] = inbox[l] /\ i \in 1 .. Len(inbox[l])
  <2> TAKE l \in SessionIds
  <2>1. CASE inbox'[l] = <<>>
    BY <2>1
  <2>2. CASE inbox'[l] = inbox[l]
    BY <2>2
  <2> QED BY <1>2, <2>1, <2>2
<1>7. \A c, n : /\ Kept(c, n)' <=> Kept(c, n)
                /\ Underway(c, n)' => Underway(c, n)
                /\ Dropped(c, n) => Dropped(c, n)'
  <2>1. \A c, n : Kept(c, n)' <=> Kept(c, n)
    BY <1>1 DEF Kept
  <2>2. \A c, n : Underway(c, n)' => Underway(c, n)
    BY <1>6 DEF Underway
  <2>3. \A c, n : Dropped(c, n) => Dropped(c, n)'
    BY <1>1, <2>2 DEF Dropped
  <2> QED BY <2>1, <2>2, <2>3
<1>8. OnceInv'
  <2>1. \A l \in SessionIds : \A i \in 1 .. Len(inbox'[l]) :
           inbox'[l][i].n <= seq'[l[1]] /\ ~Kept(l[1], inbox'[l][i].n)
    BY <1>1, <1>6 DEF IInv, OnceInv
  <2>2. \A m, l \in SessionIds : m[1] = l[1] =>
           \A i \in 1 .. Len(inbox'[m]), j \in 1 .. Len(inbox'[l]) :
              inbox'[m][i].n = inbox'[l][j].n => m = l /\ i = j
    BY <1>6 DEF IInv, OnceInv
  <2>3. \A i \in 1 .. Len(done') : done'[i].n <= seq'[done'[i].client]
    BY <1>1 DEF IInv, OnceInv
  <2>4. \A i, j \in 1 .. Len(done') :
           done'[i].client = done'[j].client /\ done'[i].n = done'[j].n => i = j
    BY <1>1 DEF IInv, OnceInv
  <2> QED BY <1>7, <2>1, <2>2, <2>3, <2>4 DEF OnceInv
<1>9. AnswerInv'
  BY <1>1, <1>2, <1>7 DEF IInv, AnswerInv
<1> QED BY <1>4, <1>5, <1>8, <1>9 DEF IInv

\* A new action takes a number nobody has used for this client.
LEMMA SendStep ==
    ASSUME IInv, NEW c \in Clients, NEW leave \in BOOLEAN, Send(c, leave) PROVE IInv'
<1> DEFINE k == Current(c)
           n0 == seq[c] + 1
           f == [n |-> n0, leave |-> leave]
<1>1. /\ c \in open /\ Total(seq) < MaxSeq
      /\ seq' = [seq EXCEPT ![c] = n0]
      /\ pending' = [pending EXCEPT ![c] = @ \cup {n0}]
      /\ inbox' = IF k \in sessions THEN [inbox EXCEPT ![k] = Append(@, f)] ELSE inbox
      /\ UNCHANGED <<seated, tokens, sessions, lastSeq, done, seat, conn, open, told, replies>>
  BY DEF Send, serverVars, IInv, TypeInv
<1>2. k \in SessionIds /\ k[1] = c
  BY <1>1, SessionIdFacts DEF IInv, Current
<1>3. n0 \in Numbers /\ seq[c] \in Nat
  <2>1. \A d \in Clients : seq[d] \in Nat
    BY SessionIdFacts DEF IInv, TypeInv
  <2>2. Total(seq) \in Nat /\ seq[c] <= Total(seq)
    BY <2>1, TotalBounds
  <2> QED BY <1>1, <2>1, <2>2, SessionIdFacts DEF Numbers
<1>4. f \in Frames /\ f.n = n0
  BY <1>3 DEF Frames
<1>5. /\ \A d \in Clients : seq[d] <= seq'[d] /\ seq[d] \in Int /\ seq'[d] \in Int
      /\ seq'[c] = n0 /\ seq' \in [Clients -> 0 .. MaxSeq]
  BY <1>1, <1>3, SessionIdFacts DEF IInv, TypeInv, Numbers
<1> HIDE DEF f, k
<1>6. inbox' \in [SessionIds -> Seq(Frames)]
  BY <1>1, <1>2, <1>4 DEF IInv, TypeInv
<1>7. \A l \in SessionIds : \A i \in 1 .. Len(inbox'[l]) :
         \/ i \in 1 .. Len(inbox[l]) /\ inbox'[l][i] = inbox[l][i]
         \/ l = k /\ i = Len(inbox[k]) + 1 /\ inbox'[l][i] = f
  <2> TAKE l \in SessionIds
  <2>1. inbox[l] \in Seq(Frames)
    BY DEF IInv, TypeInv
  <2>2. CASE k \in sessions /\ l = k
    <3>1. inbox'[l] = Append(inbox[l], f)
      BY <1>1, <2>2 DEF IInv, TypeInv
    <3> QED BY <1>4, <2>1, <2>2, <3>1
  <2>3. CASE ~(k \in sessions /\ l = k)
    <3>1. inbox'[l] = inbox[l]
      BY <1>1, <2>3 DEF IInv, TypeInv
    <3> QED BY <3>1
  <2> QED BY <2>2, <2>3
<1>8. TypeInv'
  BY <1>1, <1>3, <1>5, <1>6 DEF IInv, TypeInv
<1>9. ConnInv' /\ SeatInv' /\ ActorHoldsSeat'
  BY <1>1 DEF IInv, ConnInv, SeatInv, ActorHoldsSeat, GivenUp
<1>10. ~Kept(c, n0)
  <2> SUFFICES ASSUME NEW i \in 1 .. Len(done), done[i].client = c, done[i].n = n0 PROVE FALSE
    BY DEF Kept
  <2>1. done[i].n <= seq[c]
    BY DEF IInv, OnceInv
  <2> QED BY <1>3, <2>1
<1>11. \A d, n : /\ Kept(d, n)' <=> Kept(d, n)
                 /\ Underway(d, n)' => Underway(d, n) \/ (d = c /\ n = n0)
  <2>1. \A d, n : Kept(d, n)' <=> Kept(d, n)
    BY <1>1 DEF Kept
  <2>2. \A d, n : Underway(d, n)' => Underway(d, n) \/ (d = c /\ n = n0)
    BY <1>2, <1>4, <1>7 DEF Underway
  <2> QED BY <2>1, <2>2
<1>12. \A d \in Clients, n \in Numbers : Dropped(d, n) => Dropped(d, n)'
  <2> SUFFICES ASSUME NEW d \in Clients, NEW n \in Numbers, Dropped(d, n) PROVE Dropped(d, n)'
    OBVIOUS
  <2>1. n <= seq[d] /\ n \in Int
    BY DEF Dropped, Numbers
  <2>2. n <= seq'[d] /\ ~(d = c /\ n = n0)
    BY <1>3, <1>5, <2>1
  <2> QED BY <1>1, <1>11, <2>2 DEF Dropped
<1>13. \A l \in SessionIds : \A i \in 1 .. Len(inbox[l]) : inbox[l][i].n \in Int /\ inbox[l][i].n <= seq[l[1]]
  <2>1. \A l \in SessionIds : \A i \in 1 .. Len(inbox[l]) : inbox[l][i] \in Frames
    BY DEF IInv, TypeInv
  <2> QED BY <2>1 DEF IInv, OnceInv, Frames, Numbers
<1>14. OnceInv'
  <2>1. \A l \in SessionIds : \A i \in 1 .. Len(inbox'[l]) :
           inbox'[l][i].n <= seq'[l[1]] /\ ~Kept(l[1], inbox'[l][i].n)
    <3> TAKE l \in SessionIds
    <3> TAKE i \in 1 .. Len(inbox'[l])
    <3>1. CASE i \in 1 .. Len(inbox[l]) /\ inbox'[l][i] = inbox[l][i]
      <4>1. inbox[l][i].n <= seq[l[1]] /\ ~Kept(l[1], inbox[l][i].n) /\ inbox[l][i].n \in Int
        BY <1>13, <3>1 DEF IInv, OnceInv
      <4>2. l[1] \in Clients
        BY SessionIdFacts
      <4>3. inbox[l][i].n <= seq'[l[1]]
        BY <1>5, <4>1, <4>2
      <4> QED BY <3>1, <4>1, <4>3
    <3>2. CASE l = k /\ inbox'[l][i] = f
      BY <1>2, <1>3, <1>4, <1>5, <1>10, <3>2
    <3> QED BY <1>7, <3>1, <3>2
  <2>2. ASSUME NEW m \in SessionIds, NEW l \in SessionIds, m[1] = l[1],
               NEW i \in 1 .. Len(inbox'[m]), NEW j \in 1 .. Len(inbox'[l]),
               inbox'[m][i].n = inbox'[l][j].n
        PROVE  m = l /\ i = j
    <3>1. CASE i \in 1 .. Len(inbox[m]) /\ inbox'[m][i] = inbox[m][i]
               /\ j \in 1 .. Len(inbox[l]) /\ inbox'[l][j] = inbox[l][j]
      BY <2>2, <3>1 DEF IInv, OnceInv
    <3>2. CASE i \in 1 .. Len(inbox[m]) /\ inbox'[m][i] = inbox[m][i] /\ l = k /\ inbox'[l][j] = f
      <4>1. inbox[m][i].n <= seq[c] /\ inbox[m][i].n \in Int /\ inbox[m][i].n = n0
        BY <1>2, <1>4, <1>13, <2>2, <3>2
      <4> QED BY <1>3, <4>1
    <3>3. CASE j \in 1 .. Len(inbox[l]) /\ inbox'[l][j] = inbox[l][j] /\ m = k /\ inbox'[m][i] = f
      <4>1. inbox[l][j].n <= seq[c] /\ inbox[l][j].n \in Int /\ inbox[l][j].n = n0
        BY <1>2, <1>4, <1>13, <2>2, <3>3
      <4> QED BY <1>3, <4>1
    <3>4. CASE m = k /\ l = k /\ i = Len(inbox[k]) + 1 /\ j = Len(inbox[k]) + 1
      BY <3>4
    <3> QED BY <1>7, <3>1, <3>2, <3>3, <3>4
  <2>3. \A i \in 1 .. Len(done') : done'[i].n <= seq'[done'[i].client]
    <3> TAKE i \in 1 .. Len(done')
    <3>1. done' = done /\ done[i] \in Deeds
      BY <1>1 DEF IInv, TypeInv
    <3>2. done[i].n <= seq[done[i].client] /\ done[i].n \in Int /\ done[i].client \in Clients
      BY <1>1, <3>1 DEF IInv, OnceInv, Deeds, Numbers
    <3>3. done[i].n <= seq'[done[i].client]
      BY <1>5, <3>2
    <3> QED BY <3>1, <3>3
  <2>4. \A i, j \in 1 .. Len(done') :
           done'[i].client = done'[j].client /\ done'[i].n = done'[j].n => i = j
    BY <1>1 DEF IInv, OnceInv
  <2> QED BY <1>11, <2>1, <2>2, <2>3, <2>4 DEF OnceInv
<1>15. AnswerInv'
  <2>1. \A l \in SessionIds : \A i \in 1 .. Len(replies[l]) : replies[l][i].n \in Numbers
    <3>1. \A l \in SessionIds : \A i \in 1 .. Len(replies[l]) : replies[l][i] \in Answers
      BY DEF IInv, TypeInv
    <3> QED BY <3>1 DEF Answers
  <2>2. \A l \in SessionIds : l[1] \in Clients
    BY SessionIdFacts
  <2> QED BY <1>1, <1>11, <1>12, <2>1, <2>2 DEF IInv, AnswerInv
<1> QED BY <1>8, <1>9, <1>14, <1>15 DEF IInv

\* An answered action leaves the inbox; what is said of it is true, and whoever
\* acts holds the seat or held it when it was given up.
LEMMA HandleActionStep == ASSUME IInv, NEW k \in SessionIds, HandleAction(k) PROVE IInv'
<1>0. PICK f : f = Head(inbox[k])
  OBVIOUS
<1> DEFINE c == k[1]
           deed(b) == [client |-> c, n |-> f.n, leave |-> f.leave, reported |-> b,
                       holder |-> tokens[seat[c]]]
<1>1. /\ k \in sessions /\ inbox[k] # <<>>
      /\ inbox' = [inbox EXCEPT ![k] = Tail(@)]
      /\ UNCHANGED <<seat, conn, open, seq, pending, told, tokens, sessions>>
  BY DEF HandleAction, clientVars
<1>2. PICK v \in Outcomes(k, f.n) :
         /\ Reply(k, f, v \in {"applied", "replayed"})
         /\ IF v \in {"applied", "adopted"} THEN Apply(k, f, v = "applied")
            ELSE UNCHANGED <<done, seated>>
         /\ lastSeq' = IF v = "applied" THEN [lastSeq EXCEPT ![k] = f.n] ELSE lastSeq
  BY <1>0 DEF HandleAction
<1>3. c \in Clients /\ seat[c] \in Seats /\ tokens[seat[c]] \in Clients \cup {Nobody}
  <2>1. c \in Clients /\ seat[c] # NoSeat
    BY <1>1, SessionIdFacts DEF IInv, ConnInv
  <2> QED BY <2>1 DEF IInv, TypeInv
<1>4. inbox[k] \in Seq(Frames)
  BY DEF IInv, TypeInv
<1>5. /\ Len(inbox[k]) \in Nat /\ 1 \in 1 .. Len(inbox[k]) /\ f = inbox[k][1] /\ f \in Frames
      /\ Tail(inbox[k]) \in Seq(Frames) /\ Len(Tail(inbox[k])) = Len(inbox[k]) - 1
      /\ \A i \in 1 .. Len(inbox[k]) - 1 : Tail(inbox[k])[i] = inbox[k][i + 1]
  BY <1>0, <1>1, <1>4
<1>6. f.n \in Numbers /\ f.leave \in BOOLEAN /\ f.n \in Int /\ f.n # 0
  BY <1>5 DEF Frames, Numbers
<1>7. f.n <= seq[c] /\ ~Kept(c, f.n)
  BY <1>5 DEF IInv, OnceInv
<1>8. inbox' \in [SessionIds -> Seq(Frames)]
  BY <1>1, <1>5 DEF IInv, TypeInv
<1>9. \A l \in SessionIds : \A i \in 1 .. Len(inbox'[l]) :
         \E j \in 1 .. Len(inbox[l]) : /\ inbox'[l][i] = inbox[l][j]
                                       /\ j = IF l = k THEN i + 1 ELSE i
  <2> TAKE l \in SessionIds
  <2> TAKE i \in 1 .. Len(inbox'[l])
  <2>1. CASE l = k
    <3>1. inbox'[l] = Tail(inbox[k])
      BY <1>1, <2>1 DEF IInv, TypeInv
    <3>2. i \in 1 .. Len(inbox[k]) - 1 /\ i + 1 \in 1 .. Len(inbox[k])
      BY <1>5, <3>1
    <3> QED BY <1>5, <2>1, <3>1, <3>2
  <2>2. CASE l # k
    <3>1. inbox'[l] = inbox[l]
      BY <1>1, <2>2 DEF IInv, TypeInv
    <3> QED BY <2>2, <3>1
  <2> QED BY <2>1, <2>2
<1>10. \A l \in SessionIds : \A i \in 1 .. Len(inbox'[l]) : l[1] = c => inbox'[l][i].n # f.n
  <2> SUFFICES ASSUME NEW l \in SessionIds, NEW i \in 1 .. Len(inbox'[l]), l[1] = c, inbox'[l][i].n = f.n
               PROVE  FALSE
    OBVIOUS
  <2>1. PICK j \in 1 .. Len(inbox[l]) : inbox'[l][i] = inbox[l][j] /\ j = IF l = k THEN i + 1 ELSE i
    BY <1>9
  <2>2. l = k /\ j = 1
    BY <1>5, <2>1 DEF IInv, OnceInv
  <2> QED BY <2>1, <2>2
<1>11. \A d, n : Underway(d, n)' => Underway(d, n) /\ ~(d = c /\ n = f.n)
  BY <1>9, <1>10 DEF Underway
<1>12. Underway(c, f.n)
  BY <1>5 DEF Underway
<1>13. \/ v \in {"applied", "adopted"} /\ done' = Append(done, deed(v = "applied"))
          /\ seated' = IF f.leave THEN seated \ {seat[c]} ELSE seated
       \/ v \notin {"applied", "adopted"} /\ done' = done /\ seated' = seated
  BY <1>2 DEF Apply
<1>14. v = "replayed" => f.n = lastSeq[k]
  BY <1>2 DEF Outcomes, Verdict, Replayed
<1>15. done \in Seq(Deeds) /\ \A b \in BOOLEAN : deed(b) \in Deeds
  BY <1>3, <1>6 DEF IInv, TypeInv, Deeds
<1>16. /\ \A b : deed(b).client = c /\ deed(b).n = f.n /\ deed(b).leave = f.leave
              /\ deed(b).reported = b /\ deed(b).holder = tokens[seat[c]]
  OBVIOUS
<1> HIDE DEF deed
<1> DEFINE b0 == v = "applied"
<1>17. /\ done' \in Seq(Deeds) /\ Len(done) \in Nat
       /\ v \in {"applied", "adopted"} =>
             /\ Len(done') = Len(done) + 1 /\ done'[Len(done) + 1] = deed(b0)
             /\ \A i \in 1 .. Len(done) : done'[i] = done[i]
       /\ v \notin {"applied", "adopted"} => done' = done
  <2>1. b0 \in BOOLEAN
    OBVIOUS
  <2>2. deed(b0) \in Deeds
    BY <1>15, <2>1
  <2> HIDE DEF b0
  <2>3. CASE v \in {"applied", "adopted"}
    <3>1. done' = Append(done, deed(b0))
      BY <1>13, <2>3 DEF b0
    <3> QED BY <1>15, <2>2, <2>3, <3>1
  <2>4. CASE v \notin {"applied", "adopted"}
    BY <1>13, <1>15, <2>4
  <2> QED BY <2>3, <2>4
<1> HIDE DEF b0
<1>18. /\ \A i \in 1 .. Len(done) : i \in 1 .. Len(done') /\ done'[i] = done[i]
       /\ \A i \in 1 .. Len(done') :
             \/ i \in 1 .. Len(done) /\ done'[i] = done[i]
             \/ i = Len(done) + 1 /\ done'[i] = deed(b0) /\ v \in {"applied", "adopted"}
  <2>1. CASE v \in {"applied", "adopted"}
    BY <1>17, <2>1
  <2>2. CASE v \notin {"applied", "adopted"}
    BY <1>17, <2>2
  <2> QED BY <2>1, <2>2
<1>19. /\ \A d, n : Kept(d, n) => Kept(d, n)'
       /\ \A d, n : Kept(d, n)' => Kept(d, n) \/ (d = c /\ n = f.n)
       /\ v \in {"applied", "adopted"} => Kept(c, f.n)'
       /\ \A d : GivenUp(d) => GivenUp(d)'
  <2>1. \A d, n : Kept(d, n) => Kept(d, n)'
    BY <1>18 DEF Kept
  <2>2. \A d, n : Kept(d, n)' => Kept(d, n) \/ (d = c /\ n = f.n)
    BY <1>16, <1>18 DEF Kept
  <2>3. ASSUME v \in {"applied", "adopted"} PROVE Kept(c, f.n)'
    <3>1. Len(done) + 1 \in 1 .. Len(done') /\ done'[Len(done) + 1] = deed(b0)
      BY <1>17, <2>3
    <3> QED BY <1>16, <3>1 DEF Kept
  <2>4. \A d : GivenUp(d) => GivenUp(d)'
    BY <1>18 DEF GivenUp
  <2> QED BY <2>1, <2>2, <2>3, <2>4
<1>20. \A d, n : Dropped(d, n) => Dropped(d, n)'
  <2> SUFFICES ASSUME NEW d, NEW n, Dropped(d, n) PROVE Dropped(d, n)'
    OBVIOUS
  <2>1. ~(d = c /\ n = f.n)
    BY <1>12 DEF Dropped
  <2>2. \A i \in 1 .. Len(done') : done'[i].client = d /\ done'[i].n = n => ~done'[i].reported
    BY <1>16, <1>18, <2>1 DEF Dropped
  <2> QED BY <1>1, <1>11, <2>2 DEF Dropped
<1>21. ASSUME v # "applied" PROVE Dropped(c, f.n)'
  <2>1. b0 = FALSE
    BY <1>21 DEF b0
  <2>2. \A i \in 1 .. Len(done) : ~(done[i].client = c /\ done[i].n = f.n)
    BY <1>7 DEF Kept
  <2>3. \A i \in 1 .. Len(done') : done'[i].client = c /\ done'[i].n = f.n => ~done'[i].reported
    BY <1>16, <1>18, <2>1, <2>2
  <2> QED BY <1>1, <1>7, <1>11, <2>3 DEF Dropped
<1>22. /\ replies' \in [SessionIds -> Seq(Answers)]
       /\ \A l \in SessionIds : \A i \in 1 .. Len(replies'[l]) :
             \/ i \in 1 .. Len(replies[l]) /\ replies'[l][i] = replies[l][i]
             \/ l = k /\ replies'[l][i].n = f.n
                /\ (replies'[l][i].ok <=> v \in {"applied", "replayed"})
  <2> DEFINE r == [n |-> f.n, ok |-> v \in {"applied", "replayed"}]
  <2>1. r \in Answers /\ r.n = f.n /\ (r.ok <=> v \in {"applied", "replayed"})
    <3>1. (v \in {"applied", "replayed"}) \in BOOLEAN
      OBVIOUS
    <3> QED BY <1>6, <3>1 DEF Answers
  <2>2. replies' = IF Attached(k) THEN [replies EXCEPT ![k] = Append(@, r)] ELSE replies
    BY <1>2 DEF Reply
  <2>3. replies \in [SessionIds -> Seq(Answers)]
    BY DEF IInv, TypeInv
  <2> HIDE DEF r
  <2>4. replies' \in [SessionIds -> Seq(Answers)]
    BY <2>1, <2>2, <2>3
  <2>5. ASSUME NEW l \in SessionIds, NEW i \in 1 .. Len(replies'[l])
        PROVE  \/ i \in 1 .. Len(replies[l]) /\ replies'[l][i] = replies[l][i]
               \/ l = k /\ replies'[l][i] = r
    <3>1. CASE Attached(k) /\ l = k
      <4>1. replies'[l] = Append(replies[l], r) /\ replies[l] \in Seq(Answers)
        BY <2>2, <2>3, <3>1
      <4> QED BY <2>1, <3>1, <4>1
    <3>2. CASE ~(Attached(k) /\ l = k)
      <4>1. replies'[l] = replies[l]
        BY <2>2, <2>3, <3>2
      <4> QED BY <4>1
    <3> QED BY <3>1, <3>2
  <2> QED BY <2>1, <2>4, <2>5
<1>23. TypeInv'
  <2>1. lastSeq' \in [SessionIds -> 0 .. MaxSeq]
    BY <1>2, <1>6 DEF IInv, TypeInv, Numbers
  <2>2. seated' \subseteq Seats
    BY <1>13 DEF IInv, TypeInv
  <2> QED BY <1>1, <1>8, <1>17, <1>22, <2>1, <2>2 DEF IInv, TypeInv
<1>24. ConnInv'
  BY <1>1 DEF IInv, ConnInv
<1>25. OnceInv'
  <2>1. \A l \in SessionIds : \A i \in 1 .. Len(inbox'[l]) :
           inbox'[l][i].n <= seq'[l[1]] /\ \A n : n = inbox'[l][i].n => ~Kept(l[1], n)'
    <3> TAKE l \in SessionIds
    <3> TAKE i \in 1 .. Len(inbox'[l])
    <3>1. PICK j \in 1 .. Len(inbox[l]) : inbox'[l][i] = inbox[l][j]
      BY <1>9
    <3>2. inbox[l][j].n <= seq[l[1]] /\ ~Kept(l[1], inbox[l][j].n)
      BY DEF IInv, OnceInv
    <3>3. ~(l[1] = c /\ inbox'[l][i].n = f.n)
      BY <1>10
    <3>4. \A n : n = inbox'[l][i].n => ~Kept(l[1], n)'
      BY <1>19, <3>1, <3>2, <3>3
    <3> QED BY <1>1, <3>1, <3>2, <3>4
  <2>2. ASSUME NEW m \in SessionIds, NEW l \in SessionIds, m[1] = l[1],
               NEW i \in 1 .. Len(inbox'[m]), NEW j \in 1 .. Len(inbox'[l]),
               inbox'[m][i].n = inbox'[l][j].n
        PROVE  m = l /\ i = j
    <3>1. PICK x \in 1 .. Len(inbox[m]) : inbox'[m][i] = inbox[m][x] /\ x = IF m = k THEN i + 1 ELSE i
      BY <1>9
    <3>2. PICK y \in 1 .. Len(inbox[l]) : inbox'[l][j] = inbox[l][y] /\ y = IF l = k THEN j + 1 ELSE j
      BY <1>9
    <3>3. m = l /\ x = y
      BY <2>2, <3>1, <3>2 DEF IInv, OnceInv
    <3> QED BY <3>1, <3>2, <3>3
  <2>3. \A i \in 1 .. Len(done') : done'[i].n <= seq'[done'[i].client]
    BY <1>1, <1>7, <1>16, <1>18 DEF IInv, OnceInv
  <2>4. ASSUME NEW i \in 1 .. Len(done'), NEW j \in 1 .. Len(done'),
               done'[i].client = done'[j].client, done'[i].n = done'[j].n
        PROVE  i = j
    <3>1. \A x \in 1 .. Len(done) : ~(done[x].client = c /\ done[x].n = f.n)
      BY <1>7 DEF Kept
    <3>2. CASE i \in 1 .. Len(done) /\ j \in 1 .. Len(done)
      BY <1>18, <2>4, <3>2 DEF IInv, OnceInv
    <3>3. CASE i \notin 1 .. Len(done) \/ j \notin 1 .. Len(done)
      BY <1>16, <1>18, <2>4, <3>1, <3>3
    <3> QED BY <3>2, <3>3
  <2> QED BY <2>1, <2>2, <2>3, <2>4 DEF OnceInv, Kept
<1>26. AnswerInv'
  <2>1. ASSUME NEW l \in SessionIds, NEW n, n = lastSeq'[l], n # 0 PROVE Kept(l[1], n)'
    <3>1. CASE l = k /\ v = "applied"
      <4>1. lastSeq'[l] = f.n
        BY <1>2, <3>1 DEF IInv, TypeInv
      <4> QED BY <1>19, <2>1, <3>1, <4>1
    <3>2. CASE ~(l = k /\ v = "applied")
      <4>1. lastSeq'[l] = lastSeq[l]
        BY <1>2, <3>2 DEF IInv, TypeInv
      <4>2. Kept(l[1], lastSeq[l])
        BY <2>1, <4>1 DEF IInv, AnswerInv
      <4> QED BY <1>19, <2>1, <4>1, <4>2
    <3> QED BY <3>1, <3>2
  <2>2. ASSUME v \in {"applied", "replayed"} PROVE Kept(c, f.n)'
    <3>1. CASE v = "applied"
      BY <1>19, <3>1
    <3>2. CASE v = "replayed"
      <4>1. Kept(c, lastSeq[k])
        BY <1>6, <1>14, <3>2 DEF IInv, AnswerInv
      <4> QED BY <1>14, <1>19, <3>2, <4>1
    <3> QED BY <2>2, <3>1, <3>2
  <2>3. ASSUME NEW l \in SessionIds, NEW i \in 1 .. Len(replies'[l]), NEW n, n = replies'[l][i].n
        PROVE  /\ replies'[l][i].ok => Kept(l[1], n)'
               /\ ~replies'[l][i].ok => Dropped(l[1], n)'
    <3>1. CASE i \in 1 .. Len(replies[l]) /\ replies'[l][i] = replies[l][i]
      <4>1. (replies[l][i].ok => Kept(l[1], n)) /\ (~replies[l][i].ok => Dropped(l[1], n))
        BY <2>3, <3>1 DEF IInv, AnswerInv
      <4> QED BY <1>19, <1>20, <3>1, <4>1
    <3>2. CASE l = k /\ replies'[l][i].n = f.n /\ (replies'[l][i].ok <=> v \in {"applied", "replayed"})
      BY <1>21, <2>2, <2>3, <3>2
    <3> QED BY <1>22, <3>1, <3>2
  <2>4. \A d \in Clients, n \in Numbers :
           /\ told'[d][n] = "done" => Kept(d, n)'
           /\ told'[d][n] = "refused" => Dropped(d, n)'
    BY <1>1, <1>19, <1>20 DEF IInv, AnswerInv
  <2> QED BY <2>1, <2>3, <2>4 DEF AnswerInv
<1>27. SeatInv'
  <2> SUFFICES ASSUME NEW d \in Clients, seat[d] # NoSeat, ~GivenUp(d)'
               PROVE  tokens[seat[d]] = d /\ seat[d] \in seated'
    BY <1>1 DEF SeatInv
  <2>1. tokens[seat[d]] = d /\ seat[d] \in seated
    BY <1>19 DEF IInv, SeatInv
  <2>2. CASE seated' = seated
    BY <2>1, <2>2
  <2>3. CASE v \in {"applied", "adopted"} /\ f.leave /\ seated' = seated \ {seat[c]}
    <3>1. ASSUME seat[d] = seat[c] PROVE FALSE
      <4>1. Len(done) + 1 \in 1 .. Len(done') /\ done'[Len(done) + 1] = deed(b0)
        BY <1>17, <2>3
      <4>2. deed(b0).holder = d /\ deed(b0).leave
        BY <1>16, <2>1, <2>3, <3>1
      <4> QED BY <4>1, <4>2 DEF GivenUp
    <3> QED BY <2>1, <2>3, <3>1
  <2> QED BY <1>13, <2>2, <2>3
<1>28. ActorHoldsSeat'
  <2> SUFFICES ASSUME NEW i \in 1 .. Len(done')
               PROVE  \/ done'[i].holder = done'[i].client
                      \/ \E j \in 1 .. i - 1 : done'[j].holder = done'[i].client /\ done'[j].leave
    BY DEF ActorHoldsSeat
  <2>1. CASE i \in 1 .. Len(done) /\ done'[i] = done[i]
    <3>1. \/ done[i].holder = done[i].client
          \/ \E j \in 1 .. i - 1 : done[j].holder = done[i].client /\ done[j].leave
      BY <2>1 DEF IInv, ActorHoldsSeat
    <3>2. \A j \in 1 .. i - 1 : j \in 1 .. Len(done)
      BY <1>17, <2>1
    <3> QED BY <1>18, <2>1, <3>1, <3>2
  <2>2. CASE i = Len(done) + 1 /\ done'[i] = deed(b0)
    <3>1. GivenUp(c) \/ tokens[seat[c]] = c
      BY <1>3, SessionIdFacts DEF IInv, SeatInv
    <3>2. CASE GivenUp(c)
      <4>1. PICK j \in 1 .. Len(done) : done[j].holder = c /\ done[j].leave
        BY <3>2 DEF GivenUp
      <4>2. j \in 1 .. i - 1 /\ done'[j] = done[j]
        BY <1>17, <1>18, <2>2
      <4> QED BY <1>16, <2>2, <4>1, <4>2
    <3>3. CASE tokens[seat[c]] = c
      BY <1>16, <2>2, <3>3
    <3> QED BY <3>1, <3>2, <3>3
  <2> QED BY <1>18, <2>1, <2>2
<1> QED BY <1>23, <1>24, <1>25, <1>26, <1>27, <1>28 DEF IInv

\* Every step of clients and sessions, and a step of nothing.
LEMMA NextStep == ASSUME IInv, [Next]_vars PROVE IInv'
<1>1. ASSUME UNCHANGED vars PROVE IInv'
  BY <1>1, SameRecord DEF vars, clientVars, serverVars, IInv, TypeInv, ConnInv, AnswerInv, SeatInv
<1> QED BY <1>1, ClaimSeatStep, ConnectStep, OnCloseStep, OnMessageStep, SendStep, DisconnectStep,
           HandleActionStep DEF Next

-----------------------------------------------------------------------------
(* Theorems. *)

\* Whatever connections, actions, answers and failures interleave, IInv holds.
THEOREM InductiveInvariant == Spec => []IInv
<1>1. Init => IInv
  BY InitIInv
<1>2. IInv /\ [Next]_vars => IInv'
  BY NextStep
<1> QED BY <1>1, <1>2, PTL DEF Spec

\* The promise of sendAction is settled with the truth: done means applied
\* exactly once, refused means not applied or only adopted.
THEOREM HonestPromises == Spec => []PromisesAreHonest
<1>1. ASSUME IInv PROVE PromisesAreHonest
  <2> SUFFICES ASSUME NEW c \in Clients, NEW n \in Numbers
               PROVE  /\ Cardinality(Applied(c, n)) <= 1
                      /\ told[c][n] = "done" => Applied(c, n) # {}
                      /\ told[c][n] = "refused" => \A i \in Applied(c, n) : ~done[i].reported
    BY DEF PromisesAreHonest, Numbers
  <2>1. \A i, j \in Applied(c, n) : i = j
    BY <1>1 DEF IInv, OnceInv, Applied
  <2>2. Cardinality(Applied(c, n)) <= 1
    <3>1. CASE Applied(c, n) = {}
      BY <3>1, FS_EmptySet
    <3>2. CASE Applied(c, n) # {}
      <4>1. PICK i : Applied(c, n) = {i}
        BY <2>1, <3>2
      <4> QED BY <4>1, FS_Singleton
    <3> QED BY <3>1, <3>2
  <2>3. /\ told[c][n] = "done" => Applied(c, n) # {}
        /\ told[c][n] = "refused" => \A i \in Applied(c, n) : ~done[i].reported
    BY <1>1 DEF IInv, AnswerInv, Kept, Dropped, Applied
  <2> QED BY <2>2, <2>3
<1> QED BY <1>1, InductiveInvariant, PTL

\* A session acts for a seat only while its client holds it, or after it was
\* given up under that client.
THEOREM SeatedActors == Spec => []ActorHoldsSeat
<1>1. IInv => ActorHoldsSeat
  BY DEF IInv
<1> QED BY <1>1, InductiveInvariant, PTL
=============================================================================
