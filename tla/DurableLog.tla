------------------------------ MODULE DurableLog ------------------------------
(***************************************************************************)
(* What the runtime and its database promise together, with the commit     *)
(* protocol, its faults and the process that runs it left out: a log that  *)
(* only grows by one transition at a time, in which everything a client    *)
(* was told about stands, once; and which is closed for good when its      *)
(* match is interrupted.                                                   *)
(***************************************************************************)
EXTENDS Naturals, Sequences

CONSTANT Tx

VARIABLES
    log,      \* the transitions that are durable
    told,     \* the requests whose caller was told that they were applied
    closed    \* the match was marked interrupted

vars == <<log, told, closed>>

Init == log = <<>> /\ told = {} /\ closed = FALSE

Write(tx) ==
    /\ ~closed
    /\ tx \notin told
    /\ log' = Append(log, tx)
    /\ UNCHANGED <<told, closed>>

Tell(tx) ==
    /\ ~closed
    /\ \E i \in 1 .. Len(log) : log[i] = tx
    /\ told' = told \cup {tx}
    /\ UNCHANGED <<log, closed>>

Close ==
    /\ closed' = TRUE
    /\ UNCHANGED <<log, told>>

Next == Close \/ \E tx \in Tx : Write(tx) \/ Tell(tx)

Spec == Init /\ [][Next]_vars
=============================================================================
