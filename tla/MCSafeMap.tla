----------------------------- MODULE MCSafeMap ------------------------------
(* Model-checking instance of SafeMap.                                     *)
EXTENDS SafeMap
=============================================================================
