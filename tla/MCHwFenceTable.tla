--------------------------- MODULE MCHwFenceTable ---------------------------
(***************************************************************************)
(* Instances of HwFenceTable.  With three entries the keys <<1, 1>>,       *)
(* <<2, 1>> and <<2, 2>> all hash to entry 2, so that every probe wraps    *)
(* round and every fence can be displaced by another.                      *)
(***************************************************************************)
EXTENDS HwFenceTable

CONSTANTS t1, t2, t3

MCFences == {<<1, 1>>, <<2, 1>>}
MCArrays == {<<2, 2>>}
MCOwner == [k \in {<<1, 1>>, <<2, 1>>, <<2, 2>>} |-> IF k = <<2, 1>> THEN t2 ELSE t1]

\* One thread for each client, and a third client that only waits.
OneThreadEach == [t \in {t1, t2, t3} |-> IF t = t1 THEN 1 ELSE IF t = t2 THEN 2 ELSE 3]
=============================================================================
