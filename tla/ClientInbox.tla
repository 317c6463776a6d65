----------------------------- MODULE ClientInbox -----------------------------
(***************************************************************************)
(* What a DAP client owes its caller: messages arrive in an order, and     *)
(* what has not been given away stays in that order, is given at most once *)
(* and never comes back.  Where a message waits - in the socket, in the    *)
(* buffer of an earlier call, in the result of a drain that is still       *)
(* running - cannot be observed.  ControlClient implements it.             *)
(***************************************************************************)
EXTENDS Naturals, Sequences

CONSTANT MaxBurst   \* bound on the messages that arrive at once

VARIABLES
  arrived,  \* how many messages arrived: they are numbered from 1
  inbox     \* the numbers of those not given to the caller or passed over

Init == arrived = 0 /\ inbox = <<>>

Arrive ==
  \E k \in 1..MaxBurst :
    /\ arrived' = arrived + k
    /\ inbox' = inbox \o [i \in 1..k |-> arrived + i]

\* What stays keeps its order: the numbers ascend, as they did on arrival.
Ascending(numbers) == \A i, j \in 1..Len(numbers) : i < j => numbers[i] < numbers[j]

Leave ==
  /\ \A i \in 1..Len(inbox') : \E j \in 1..Len(inbox) : inbox'[i] = inbox[j]
  /\ Ascending(inbox')
  /\ UNCHANGED arrived

Next == Arrive \/ Leave

Spec == Init /\ [][Next]_<<arrived, inbox>>
=============================================================================
