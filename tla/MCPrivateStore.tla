--------------------------- MODULE MCPrivateStore ----------------------------
(* Three concurrent calls on one claim path and two ledger entries.  With   *)
(* two rounds of the retry loop and two owner edits every caller can run    *)
(* out of rounds, lose a race, time out and be applied late.                *)
EXTENDS PrivateStore
=============================================================================
