------------------------------ MODULE MCBlobSync ------------------------------
(***************************************************************************)
(* Small instances of BlobSync.  Channel c1 has a frame in each of two     *)
(* Blob transactions, c2 one in the second.  A first submission refers to  *)
(* half of c1, a second one completes c1 and c2; an unauthorised one, one  *)
(* that failed and one in force refer to c2 again.  The last block of c1   *)
(* has a deposit and then a queue index that is none.                      *)
(***************************************************************************)
EXTENDS BlobSync

Sub(tx, refs, first, size) ==
  [tx |-> tx, auth |-> TRUE, ok |-> TRUE, batch |-> tx, first |-> first,
   size |-> size, refs |-> refs]

Frame(c, n) == [ch |-> c, n |-> n]

L2Block(n, queue) == [index |-> n, queue |-> queue]

MCFramesOf == [t \in {"t1", "t2"} |->
                 IF t = "t1" THEN {Frame("c1", 0)}
                             ELSE {Frame("c1", 1), Frame("c2", 0)}]

MCEndOf == [c \in {"c1", "c2"} |-> IF c = "c1" THEN 1 ELSE 0]

MCPayload == [c \in {"c1", "c2"} |->
                IF c = "c1" THEN <<L2Block(2, <<>>), L2Block(3, <<0, MaxU64>>)>>
                            ELSE <<L2Block(1, <<0>>)>>]

\* c2 lists the same L2 block twice.
DupPayload == [MCPayload EXCEPT !["c2"] = @ \o @]

Empty == [txs |-> {}, subs |-> {}]
Half == [txs |-> {"t1"}, subs |-> {Sub(1, {"t1"}, 1, 2)}]
Rest == [txs |-> {"t2"}, subs |-> {Sub(2, {"t1", "t2"}, 1, 3)}]
Again == [txs |-> {},
          subs |-> {[Sub(3, {"t2"}, 1, 1) EXCEPT !.auth = FALSE],
                    [Sub(4, {"t2"}, 1, 1) EXCEPT !.ok = FALSE],
                    Sub(5, {"t2"}, 1, 1)}]

MCBodies == {Empty, Half, Rest, Again}

\* Blocks for the liveness properties.
LiveBodies == {Empty, Half}
===============================================================================
