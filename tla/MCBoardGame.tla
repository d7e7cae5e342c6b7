----------------------------- MODULE MCBoardGame -----------------------------
(* Boards and dice for model checking BoardGame on small instances. *)
EXTENDS BoardGame

Go           == [kind |-> "go", price |-> 0, rent |-> 0, amount |-> 0]
Neutral      == [kind |-> "neutral", price |-> 0, rent |-> 0, amount |-> 0]
Tax(n)       == [kind |-> "tax", price |-> 0, rent |-> 0, amount |-> n]
Property(n, r) == [kind |-> "property", price |-> n, rent |-> r, amount |-> 0]

AsBoard(seq) == [i \in 0 .. Len(seq) - 1 |-> seq[i + 1]]

\* Every kind of space; a cheap and a dear property, a tax that can ruin.
MixedBoard == AsBoard(<<Go, Property(2, 2), Tax(2), Property(1, 3), Neutral>>)
\* A board so short that a throw of 7 crosses go two or three times.
TinyBoard  == AsBoard(<<Go, Property(1, 2), Tax(3)>>)

\* A double and an odd throw: totals 2 and 3 reach every space of MixedBoard,
\* totals 2 and 7 every space of TinyBoard.
ShortThrows == {<<1, 1>>, <<1, 2>>}
LongThrows  == {<<1, 1>>, <<3, 4>>}
=============================================================================
