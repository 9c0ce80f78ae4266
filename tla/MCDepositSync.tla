---------------------------- MODULE MCDepositSync ----------------------------
(***************************************************************************)
(* Small instances of DepositSync.  Blocks carry nothing, a first CTC, a   *)
(* deposit of either CTC, in or out of turn, one of another L2 chain or a  *)
(* new CTC between deposits of the old and the new one.                    *)
(***************************************************************************)
EXTENDS DepositInvariant

CONSTANTS a, b

SetTo(p, new, old) == [p |-> p, kind |-> "set", addr |-> new, old |-> old,
                       ours |-> FALSE, idx |-> 0]

Enq(p, c, i) == [p |-> p, kind |-> "enq", addr |-> c, old |-> NoAddr,
                 ours |-> TRUE, idx |-> i]

Foreign(p, c, i) == [Enq(p, c, i) EXCEPT !.ours = FALSE]

MCAddr == {NoAddr, a, b}

Deploy == {SetTo(0, a, NoAddr), Enq(1, a, 0)}
Upgrade == {Enq(0, b, 0), Foreign(1, a, 0), Enq(2, a, 1), SetTo(3, b, a),
            Enq(4, a, 2), Enq(5, b, 2)}

\* Blocks for the scan and its commits.
ScanBodies == {{}, Deploy, Upgrade, {Enq(0, a, 1)}, {Enq(0, a, 2)}}

\* Blocks for the search for the CTC before Start, and for liveness.
BootBodies == {{}, {SetTo(0, a, NoAddr)}, {SetTo(0, b, a), Enq(1, b, 0)}}

\* The least that a CTC needs.
CtcBodies == {{}, {SetTo(0, a, NoAddr)}}
==============================================================================
