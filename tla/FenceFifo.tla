------------------------------ MODULE FenceFifo ------------------------------
(***************************************************************************)
(* What a client queue of the hw-fence driver promises: a bounded FIFO of  *)
(* messages.  A message is appended whole or refused, the reader takes the *)
(* oldest one, and a reset forgets the messages published so far (the      *)
(* oldest ones: messages published while the reset runs may survive it).   *)
(***************************************************************************)
EXTENDS Naturals, Sequences

CONSTANTS
  Payloads,  \* what a producer may write
  Capacity   \* the largest number of messages held

VARIABLES
  q,          \* the messages, oldest first
  resetting   \* a reset has begun

vars == <<q, resetting>>

Init == q = << >> /\ resetting = FALSE

Put ==
  /\ Len(q) < Capacity
  /\ \E m \in Payloads : q' = Append(q, m)
  /\ UNCHANGED resetting

Get ==
  /\ q # << >>
  /\ q' = Tail(q)
  /\ UNCHANGED resetting

ResetBegin ==
  /\ ~resetting
  /\ resetting' = TRUE
  /\ UNCHANGED q

ResetEnd ==
  /\ resetting
  /\ resetting' = FALSE
  /\ \E k \in 0 .. Len(q) : q' = SubSeq(q, k + 1, Len(q))

Next == Put \/ Get \/ ResetBegin \/ ResetEnd

Spec == Init /\ [][Next]_vars
=============================================================================
