--------------------------- MODULE MCHwFenceSignal ---------------------------
(***************************************************************************)
(* Instances of HwFenceSignal: which fences an array holds, who created a  *)
(* fence, the data of each wait and the resets.  Client 2 creates f2, the  *)
(* last client f1.                                                         *)
(***************************************************************************)
EXTENDS HwFenceSignal

CONSTANTS f1, f2, a1, a2, a3, a4

MCAllocator == [f \in {f1, f2} |-> IF f = f1 THEN Max(Clients) ELSE 2]

\* a1 waits for both fences, a2 fails at its second one, a3 shares f1 with them,
\* up to the limit of the parents, and a4 is empty.
MCChildren == [a \in {a1, a2, a3, a4} |->
  CASE a = a1 -> <<f1, f2>> [] a = a2 -> <<f1, "plain">> [] a = a3 -> <<f1>> [] a = a4 -> << >>]

\* The data tells client and fence.
MCFenceData == [c \in Clients |-> [f \in {f1, f2} |-> {IF f = f1 THEN 10 + c ELSE 20 + c}]]

\* Nobody is reset; or client 2, which waits too, and client 3, which does not.
MCNoResets == [c \in Clients |-> {}]
MCResets == [c \in Clients |-> CASE c = 1 -> {} [] c = 2 -> {NoData} [] c = 3 -> ResetFlags]

MCThreeCalls == [c \in Clients |-> 3]
MCCalls == [c \in Clients |-> CASE c = 1 -> 1 [] c = 2 -> 2 [] c = 3 -> 0]
=============================================================================
