----------------------------- MODULE MCMmrmClk -----------------------------
(***************************************************************************)
(* Three clients at different levels: the first has two hardware blocks,   *)
(* the second can be throttled and reserves, the third has high priority.  *)
(***************************************************************************)
EXTENDS MmrmClk

MCRates == <<{Off, 3}, {Off, 2}, {Off, 4}>>
MCBlocks == <<{0, 2}, {1}, {1}>>
MCMaxBlocks == <<2, 1, 1>>
MCThrottleList == <<2>>

\* Power over voltage: 12 units for each level, and one more where the client is on.
MCCurrent ==
  [c \in Clients |-> [v \in Levels |-> [a \in Levels |-> (12 * (v + 1)) \div (a + 1)]]]

ASSUME VictimsAssumption == SmallVictims
=============================================================================
