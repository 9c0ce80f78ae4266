------------------------------ MODULE AuthChain ------------------------------
(***************************************************************************)
(* The L1 chain as the authorisation of Inbox senders sees it: external to *)
(* the repository, modelled from what internal/blobingest reads of it.  A  *)
(* block is [e, logs, subs]: its fork, its manager and sender logs, and    *)
(* its Inbox submissions [tx, sender] by position.  Hashes and forks are   *)
(* those of L1Chain.                                                       *)
(***************************************************************************)
EXTENDS AuthHistory, FiniteSets

CONSTANTS Bodies,     \* the [logs, subs] a block may carry
          MaxHeight,  \* bound: highest block
          MaxReorgs   \* bound: number of reorganisations

ASSUME AuthChainAssumption ==
  /\ MaxHeight \in Nat
  /\ MaxReorgs \in Nat
  /\ \A body \in Bodies :
       /\ IsFiniteSet(body.logs)
       /\ \A l \in body.logs :
            /\ l.tx \in Nat /\ l.idx \in Nat /\ l.from \in Nat
            /\ l.kind = "grant" => l.sender # NoAddr
       /\ \A k, l \in body.logs : k.tx = l.tx /\ k.idx = l.idx => k = l

VARIABLES tip, chain, epoch

chainVars == <<tip, chain, epoch>>

HashAt(h) == [k \in 0..h |-> chain[k]]

\* FilterLogs over [from, end]: the logs of the blocks that exist.
LogsIn(c, from, end) == UNION {c[k].logs : k \in (from..end) \cap DOMAIN c}

Located(l, h, e) ==
  [at |-> h, e |-> e, tx |-> l.tx, idx |-> l.idx, kind |-> l.kind,
   manager |-> l.manager, old |-> l.old, role |-> l.role, from |-> l.from,
   sender |-> l.sender]

NewBlock(body, h, e) ==
  [e |-> e, logs |-> {Located(l, h, e) : l \in body.logs}, subs |-> body.subs]

-------------------------------------------------------------------------------
ChainInit ==
  /\ tip = 0
  /\ epoch = 0
  /\ \E body \in Bodies :
       /\ Linked(NoAddr, NewBlock(body, 0, 0).logs)
       /\ chain = [k \in 0..0 |-> NewBlock(body, 0, 0)]

\* A new block; AddressManager's log names the manager it replaces.
Mine(body) ==
  /\ tip < MaxHeight
  /\ Linked(ManagerAfter(NoAddr, LogsIn(chain, 0, tip)),
            NewBlock(body, tip + 1, epoch).logs)
  /\ tip' = tip + 1
  /\ chain' = [k \in 0..(tip + 1) |->
                 IF k = tip + 1 THEN NewBlock(body, k, epoch) ELSE chain[k]]
  /\ UNCHANGED epoch

\* Blocks above d are abandoned; their replacements belong to a new fork.
Reorg(d) ==
  /\ epoch < MaxReorgs
  /\ d < tip
  /\ tip' = d
  /\ chain' = HashAt(d)
  /\ epoch' = epoch + 1

ChainNext == \/ \E body \in Bodies : Mine(body)
             \/ \E d \in 0..MaxHeight : Reorg(d)
===============================================================================
