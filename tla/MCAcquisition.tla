--------------------------- MODULE MCAcquisition ----------------------------
(* Lengths and counts on both sides of every threshold of the code: 40 and    *)
(* 500 characters, 1 and 3 visual items, 80% of one and of five images.       *)
EXTENDS Acquisition
=============================================================================
