---------------------------- MODULE MCBeaconClient ----------------------------
(* Two blobs in three slots; one blob of one frame, one of two; a transaction  *)
(* with one blob, with two in an order, and with a repeated one; headers with  *)
(* and without a slot number, at slot boundaries and before the genesis.       *)
EXTENDS BeaconClient

CONSTANTS b1, b2

MCBlobs == {b1, b2}

MCFramesOf == (b1 :> <<"f1">>) @@ (b2 :> <<"f2", "f3">>)

MCHashLists == {<<b1>>, <<b2, b1>>, <<b1, b2, b1>>}

MCHeaders == [slot : {None}, time : 1..7] \cup {[slot |-> 2, time |-> 6]}
==============================================================================
