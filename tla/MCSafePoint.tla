---------------------------- MODULE MCSafePoint ----------------------------
(* SafePoint with one transaction, a cache window of 2 ticks, the update  *)
(* and quick-repeat intervals of 2 and 1 ticks, and a clock up to 6: long *)
(* enough for a transaction to outlive the cache window plus the GC life  *)
(* time, for a failed load followed by a quick retry, and for two loads.  *)
EXTENDS SafePoint

CONSTANTS t1

MCTxns == {t1}
================================================================================
