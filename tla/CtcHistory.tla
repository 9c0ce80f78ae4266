------------------------------ MODULE CtcHistory ------------------------------
(***************************************************************************)
(* The log order and the CanonicalTransactionChain (CTC) address history   *)
(* that internal/ingest reads out of L1 logs.                              *)
(*                                                                         *)
(* A log is [at, e, ev]: block number, the fork the block belongs to (with *)
(* the number it identifies the block, as BlockHash does in the code) and  *)
(* the event.  An event is [p, kind, addr, old, ours, idx]: its position   *)
(* in the block (TxIndex and log Index), "set" for AddressManager's        *)
(* AddressSet("CanonicalTransactionChain") or "enq" for a CTC's            *)
(* TransactionEnqueued, the new CTC or the emitting CTC, the old CTC of a  *)
(* "set", and of an "enq" whether it carries our L2 chain id and its queue *)
(* index.  Calldata, gas and timestamps are carried along unread by every  *)
(* component and are left out.                                             *)
(***************************************************************************)
EXTENDS Integers

\* The order of decodeLogs' sort: block number, then position in the block.
Precedes(k, l) == \/ k.at < l.at
                  \/ k.at = l.at /\ k.ev.p < l.ev.p

Sets(logs) == {l \in logs : l.ev.kind = "set"}

Enqueues(logs) == {l \in logs : l.ev.kind = "enq"}

Last(logs) == CHOOSE l \in logs : \A k \in logs : k = l \/ Precedes(k, l)

\* The CTC after all of logs, when c was the CTC before them.
CtcAfter(c, logs) == IF Sets(logs) = {} THEN c ELSE Last(Sets(logs)).ev.addr

\* The CTC just before log l.
CtcAt(c, logs, l) == CtcAfter(c, {k \in logs : Precedes(k, l)})

\* Every AddressSet names as its old address the CTC its predecessor left.
Linked(c, logs) == \A l \in Sets(logs) : l.ev.old = CtcAt(c, logs, l)

\* Deposits of our chain that the CTC active at that point emitted.
Active(c, logs) ==
  {l \in Enqueues(logs) : l.ev.ours /\ l.ev.addr = CtcAt(c, logs, l)}

\* The stored record of a deposit: index and provenance.
Record(l) == [idx |-> l.ev.idx, at |-> l.at, e |-> l.e, p |-> l.ev.p]

Records(logs) == {Record(l) : l \in logs}

-------------------------------------------------------------------------------
(* A chain c is a function from the block numbers 0..h to blocks, of which    *)
(* .logs is the set of logs and .in the CTC AddressManager held before it.    *)

\* The first blocks of c, up to number h.
Upto(c, h) == [k \in 0..h |-> c[k]]

\* FilterLogs over [from, end]: the logs of the blocks that exist.
LogsIn(c, from, end) == UNION {c[k].logs : k \in (from..end) \cap DOMAIN c}

\* The deposits that blocks from..end of c hold: in each block, those of the
\* CTC AddressManager had at that point of that block.
Deposits(c, from, end) ==
  UNION {Records(Active(c[k].in, c[k].logs)) : k \in from..end}
===============================================================================
