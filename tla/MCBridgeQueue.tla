---------------------------- MODULE MCBridgeQueue ----------------------------
(* Three requests: the first and the last for one URL, the second for another *)
(* URL of the same source, which a batch of two never takes all at once.      *)
EXTENDS BridgeQueue
CONSTANTS u, w, s
OneSource == [x \in Urls |-> s]
TwoUrls == [f \in Files |-> IF f = 2 THEN w ELSE u]
=============================================================================
