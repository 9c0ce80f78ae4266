------------------------------ MODULE InboxChain ------------------------------
(***************************************************************************)
(* The L1 chain and the Beacon service as the Blob worker sees them:       *)
(* external to the repository, modelled from what internal/blobingest and  *)
(* internal/blob read of them.                                             *)
(*                                                                         *)
(* A block is [e, txs, subs]: the fork it was mined on, the Blob           *)
(* transactions it holds and its Inbox submissions.  A submission is       *)
(* [tx, auth, ok, batch, first, size, refs]: its hash, whether an          *)
(* authorised sender sent it, its receipt's status, the batch it commits   *)
(* to with its range of L2 block indexes, and the Blob transactions it     *)
(* refers to.  Blobs hold frames [ch, n] of channels; the last frame of    *)
(* channel c is number EndOf[c] and its payload is the sequence Payload[c] *)
(* of L2 blocks, each with the queue indexes of its deposits.              *)
(*                                                                         *)
(* Block h has timestamp h.  As in L1Chain, the hash of block h is the     *)
(* chain up to h, and abandoned blocks do not return.                      *)
(***************************************************************************)
EXTENDS Integers, Sequences

CONSTANTS Bodies,     \* the contents a block may have
          FramesOf,   \* Blob transaction -> the frames of its Blobs
          EndOf,      \* channel -> number of its last frame
          Payload,    \* channel -> sequence of [index, queue]
          MaxHeight,  \* bound: highest block
          MaxReorgs   \* bound: number of reorganisations

ASSUME InboxAssumption ==
  /\ MaxHeight \in Nat
  /\ MaxReorgs \in Nat
  /\ DOMAIN Payload = DOMAIN EndOf
  /\ \A c \in DOMAIN EndOf :
       /\ EndOf[c] \in Nat
       /\ Payload[c] \in Seq([index : Nat, queue : Seq(Nat)])

VARIABLES tip, chain, epoch

chainVars == <<tip, chain, epoch>>

Time(h) == h

HashAt(h) == [k \in 0..h |-> chain[k]]

\* The Blob transactions and submissions of the first blocks of a chain.
TxsUpto(c, h) == UNION {c[k].txs : k \in 0..h}

SubsUpto(c, h) == UNION {c[k].subs : k \in 0..h}

\* A submission counts: its sender was authorised and it succeeded.
InForce(s) == s.auth /\ s.ok

\* Where TransactionReceipt finds a Blob transaction.
Located(t) == \E k \in 0..tip : t \in chain[k].txs

Location(t) == CHOOSE k \in 0..tip : t \in chain[k].txs

-------------------------------------------------------------------------------
NewBlock(body, e) == [e |-> e, txs |-> body.txs, subs |-> body.subs]

ChainInit ==
  /\ tip = 0
  /\ epoch = 0
  /\ chain = [k \in 0..0 |-> NewBlock([txs |-> {}, subs |-> {}], 0)]

\* A new block: no transaction is mined twice, and the sequencer commits to Blob
\* transactions that precede the commitment.
Mine(body) ==
  /\ tip < MaxHeight
  /\ body.txs \cap TxsUpto(chain, tip) = {}
  /\ {s.tx : s \in body.subs} \cap {s.tx : s \in SubsUpto(chain, tip)} = {}
  /\ \A s \in body.subs : s.refs \subseteq TxsUpto(chain, tip) \cup body.txs
  /\ tip' = tip + 1
  /\ chain' = [k \in 0..(tip + 1) |->
                 IF k = tip + 1 THEN NewBlock(body, epoch) ELSE chain[k]]
  /\ UNCHANGED epoch

\* Blocks above d are abandoned; their replacements belong to a new fork.
Reorg(d) ==
  /\ epoch < MaxReorgs
  /\ d < tip
  /\ tip' = d
  /\ chain' = HashAt(d)
  /\ epoch' = epoch + 1

ChainNext == \/ \E body \in Bodies : Mine(body)
             \/ \E d \in 0..MaxHeight : Reorg(d)
===============================================================================
