------------------------------- MODULE L1Chain -------------------------------
(***************************************************************************)
(* The L1 chain as the RPC node of the service presents it: external to    *)
(* the repository, modelled from what internal/ingest reads of it.         *)
(*                                                                         *)
(* A block is [e, in, out, logs]: the fork it was mined on, the CTC that   *)
(* AddressManager held before and after it, and its logs.  The hash of     *)
(* block h is the chain up to h: two blocks with the same hash have the    *)
(* same ancestors, and no two blocks collide.  A reorganisation starts a   *)
(* new fork, so an abandoned block never returns: that logs of one fork    *)
(* are read between two headers of another is a risk README.md of the      *)
(* repository accepts ("Stable anchors do not detect logs returned from    *)
(* another fork").                                                         *)
(***************************************************************************)
EXTENDS CtcHistory

CONSTANTS Addr,       \* contract addresses
          NoAddr,     \* the zero address
          Bodies,     \* the event sets a block may carry
          MaxHeight,  \* bound: highest block
          MaxReorgs   \* bound: number of reorganisations

Event == [p : Nat, kind : {"set", "enq"}, addr : Addr, old : Addr,
          ours : BOOLEAN, idx : Nat]

ASSUME ChainAssumption ==
  /\ NoAddr \in Addr
  /\ MaxHeight \in Nat
  /\ MaxReorgs \in Nat
  /\ \A body \in Bodies :
       /\ body \subseteq Event
       /\ \A x, y \in body : x.p = y.p => x = y
       /\ \A S \in SUBSET body :
            S # {} => \E x \in S : \A y \in S : y.p <= x.p
       /\ \A x \in body : x.kind = "enq" => x.addr # NoAddr

VARIABLES tip,    \* number of the newest block
          chain,  \* the blocks 0..tip
          epoch   \* the current fork

chainVars == <<tip, chain, epoch>>

Log == [at : 0..MaxHeight, e : 0..MaxReorgs, ev : Event]

Block == [e : 0..MaxReorgs, in : Addr, out : Addr, logs : SUBSET Log]

Stamp(body, h, e) == {[at |-> h, e |-> e, ev |-> x] : x \in body}

\* Block h of fork e on top of a state whose CTC is c.
NewBlock(c, body, h, e) ==
  [e    |-> e,
   in   |-> c,
   out  |-> CtcAfter(c, Stamp(body, h, e)),
   logs |-> Stamp(body, h, e)]

------------------------------------------------------------------------------
(* What RPC queries answer. *)

\* HeaderByNumber(h).Hash(), for h <= tip.
HashAt(h) == Upto(chain, h)

\* c is the chain up to height h, and still is.
Live(c, h) == h <= tip /\ c = HashAt(h)

------------------------------------------------------------------------------
ChainInit ==
  /\ tip = 0
  /\ epoch = 0
  /\ \E body \in Bodies :
       /\ Linked(NoAddr, Stamp(body, 0, 0))
       /\ chain = [k \in 0..0 |-> NewBlock(NoAddr, body, 0, 0)]

\* A new block; AddressManager's own log of a change names the CTC it replaces.
Mine(body) ==
  /\ tip < MaxHeight
  /\ Linked(chain[tip].out, Stamp(body, tip + 1, epoch))
  /\ tip' = tip + 1
  /\ chain' = [k \in 0..(tip + 1) |->
                 IF k = tip + 1
                   THEN NewBlock(chain[tip].out, body, tip + 1, epoch)
                   ELSE chain[k]]
  /\ UNCHANGED epoch

\* Blocks above d are abandoned; their replacements belong to a new fork.
Reorg(d) ==
  /\ epoch < MaxReorgs
  /\ d < tip
  /\ tip' = d
  /\ chain' = Upto(chain, d)
  /\ epoch' = epoch + 1

ChainNext == \/ \E body \in Bodies : Mine(body)
             \/ \E d \in 0..MaxHeight : Reorg(d)

ChainTypeOK ==
  /\ tip \in 0..MaxHeight
  /\ epoch \in 0..MaxReorgs
  /\ chain \in [0..tip -> Block]

------------------------------------------------------------------------------
(* What holds of every chain, and of every block that once was on it. *)

\* c is a chain of height h on which AddressManager's state and logs agree.
WellFormed(c, h) ==
  /\ h \in 0..MaxHeight
  /\ c \in [0..h -> Block]
  /\ c[0].in = NoAddr
  /\ \A k \in 0..h : k > 0 => c[k].in = c[k - 1].out
  /\ \A k \in 0..h : \A l \in c[k].logs :
       l.at = k /\ (l.ev.kind = "enq" => l.ev.addr # NoAddr)
  /\ \A i, j \in 0..h : i <= j =>
       /\ CtcAfter(c[i].in, LogsIn(c, i, j)) = c[j].out
       /\ c[j].out = c[i].in \/ \E l \in Sets(LogsIn(c, i, j)) : c[j].out = l.ev.addr
       /\ \A l \in LogsIn(c, i, j) :
            /\ CtcAt(c[i].in, LogsIn(c, i, j), l) = CtcAt(c[l.at].in, c[l.at].logs, l)
            /\ \/ CtcAt(c[i].in, LogsIn(c, i, j), l) = c[i].in
               \/ \E k \in Sets(LogsIn(c, i, j)) :
                    CtcAt(c[i].in, LogsIn(c, i, j), l) = k.ev.addr

\* c is off the chain and cannot come back: its last block belongs to a fork
\* older than the block that took its place, or will.
Dead(c, h) == c[h].e < epoch /\ (h <= tip => c[h].e < chain[h].e)

Tracked(c, h) == WellFormed(c, h) /\ (Live(c, h) \/ Dead(c, h))

ChainOK ==
  /\ WellFormed(chain, tip)
  /\ \A k \in 0..tip : chain[k].e <= epoch
==============================================================================
