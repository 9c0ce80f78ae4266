------------------------------- MODULE BlobStore -------------------------------
(***************************************************************************)
(* The Blob half of internal/store: source transactions, the channels      *)
(* decoded from them, the L2 blocks of the channels, an index from block   *)
(* number to channel, expiry keys by timestamp, and the Blob checkpoint,   *)
(* all in the blob/ namespace of one Pebble database.                      *)
(*                                                                         *)
(* A kind of key is the set of its values; each value contains its key, so *)
(* putIdentical refuses a value when another one has the same key.  Every  *)
(* operation holds the store's lock, and CommitBlob works on a batch that  *)
(* is written at once or not at all: an operation is one step.             *)
(***************************************************************************)
EXTENDS Integers, Sequences

CONSTANTS MaxU64,        \* the largest uint64: no revision follows it, and it is no
                         \* queue index of a deposit
          SkipFrom       \* the failed enqueue that block reads skip, 20397

ASSUME BlobStoreAssumption == MaxU64 \in Nat /\ SkipFrom \in Nat

VARIABLES txs,       \* blob/tx: [hash, at, e, time, missing, frames]
          channels,  \* blob/channel: [id, sources, numbers, batch, expires]
          index,     \* blob/index: [number, id]
          blocks,    \* blob/block: [index, batch, queue]
          txExpiry,  \* blob/expiry/tx: [time, id]
          chExpiry,  \* blob/expiry/channel: [time, id]
          bstate     \* blob/state

dataVars == <<txs, channels, index, blocks, txExpiry, chExpiry>>
storeVars == <<dataVars, bstate>>

Nil == -1             \* a nil *uint64
NoHash == <<>>        \* the zero hash

NoBlobState == [revision |-> 0, height |-> Nil, hash |-> NoHash, cutoff |-> 0,
                retHeight |-> Nil, retHash |-> NoHash, latest |-> Nil]

\* InitBlob on an empty namespace.
InitBlob ==
  /\ txs = {} /\ channels = {} /\ index = {} /\ blocks = {}
  /\ txExpiry = {} /\ chExpiry = {}
  /\ bstate = NoBlobState

Elems(seq) == {seq[i] : i \in DOMAIN seq}

MinOf(S) == CHOOSE x \in S : \A y \in S : x <= y

MaxOf(S) == CHOOSE x \in S : \A y \in S : y <= x

-------------------------------------------------------------------------------
(* CommitBlob's loop over the transactions, T; unexpired ones are stored. *)

NewTxs(T, cutoff) == {t \in T : t.time >= cutoff}

TxsAgree(N) ==
  /\ \A t \in N : t.missing => t.frames = {}
  /\ \A t \in N : \A u \in txs \cup N : t.hash = u.hash => t = u

(* The loop over the channels, C, of which each is [id, sources, expires,     *)
(* batch, blocks]; A is what blob/tx holds by then.                           *)

Sources(c, A) == {t \in A : t.hash \in c.sources}

\* putChannel's checks of the sources.
Sourced(c, A) ==
  /\ c.sources # {} /\ c.blocks # <<>>
  /\ \A h \in c.sources : \E t \in A : t.hash = h /\ ~t.missing
  /\ c.expires = MinOf({t.time : t \in Sources(c, A)})

\* A channel one of whose sources has expired is not stored.
NewChannels(C, cutoff) == {c \in C : c.expires >= cutoff}

Record(c) == [id |-> c.id, sources |-> c.sources, batch |-> c.batch,
              numbers |-> [i \in DOMAIN c.blocks |-> c.blocks[i].index],
              expires |-> c.expires]

Entries(c) == {[number |-> b.index, id |-> c.id] : b \in Elems(c.blocks)}

NewIndex(K) == UNION {Entries(c) : c \in K}

NewBlocks(K) == UNION {Elems(c.blocks) : c \in K}

AnyPointer(K) == TRUE                                     \* fault

\* putIdentical of every channel, index and block of K.
ChannelsAgree(K) ==
  /\ \A c \in K : \A r \in channels \cup {Record(k) : k \in K} :
       r.id = c.id => r = Record(c)
  /\ \A p \in NewIndex(K) : \A q \in index \cup NewIndex(K) :
       p.number = q.number => p = q
  /\ \A b \in NewBlocks(K) : \A d \in blocks \cup NewBlocks(K) :
       b.index = d.index => b = d

-------------------------------------------------------------------------------
(* pruneBlob: everything whose expiry key lies below the cutoff, channels     *)
(* first, in what the batch holds by then.                                    *)

DueAtCutoff(E, cutoff) == {x \in E : x.time <= cutoff}    \* fault

Due(E, cutoff) == {x \in E : x.time < cutoff}

\* expireRecord succeeds on a channel: every block it lists is still there, and
\* still points to it, when its turn comes.
Expirable(r, I, B) ==
  /\ \A i, j \in DOMAIN r.numbers : r.numbers[i] = r.numbers[j] => i = j
  /\ \A n \in Elems(r.numbers) :
       /\ [number |-> n, id |-> r.id] \in I
       /\ \E b \in B : b.index = n

ChannelExpires(x, R, I, B) ==
  \E r \in R : r.id = x.id /\ r.expires = x.time /\ Expirable(r, I, B)

TxExpires(x, A) == \E t \in A : t.hash = x.id /\ t.time = x.time

\* What is left of the channels, transactions, pointers and blocks.
Left(R, X) == {r \in R : r.id \notin {x.id : x \in X}}

LeftTxs(A, X) == {t \in A : t.hash \notin {x.id : x \in X}}

Gone(R, X) == UNION {Elems(r.numbers) : r \in R \ Left(R, X)}

StaleLatest(I) ==                                         \* fault
  IF I \cup index = {} THEN Nil ELSE MaxOf({p.number : p \in I \cup index})

LatestIndex(I) == IF I = {} THEN Nil ELSE MaxOf({p.number : p \in I})

-------------------------------------------------------------------------------
(* What the batch holds once the new transactions N and channels K are put. *)

TxsWith(N) == txs \cup N
ChannelsWith(K) == channels \cup {Record(c) : c \in K}
IndexWith(K) == index \cup NewIndex(K)
BlocksWith(K) == blocks \cup NewBlocks(K)
TxKeys(N) == txExpiry \cup {[time |-> t.time, id |-> t.hash] : t \in N}

EarlyKeys(K) ==                                           \* fault
  chExpiry \cup {[time |-> c.expires - 1, id |-> c.id] : c \in K}

ChannelKeys(K) == chExpiry \cup {[time |-> c.expires, id |-> c.id] : c \in K}

PruneSucceeds(cutoff, N, K) ==
  /\ \A x \in Due(ChannelKeys(K), cutoff) :
       ChannelExpires(x, ChannelsWith(K), IndexWith(K), BlocksWith(K))
  /\ \A x \in Due(TxKeys(N), cutoff) : TxExpires(x, TxsWith(N))

Write(cutoff, N, K) ==
  LET X == Due(ChannelKeys(K), cutoff)
      Y == Due(TxKeys(N), cutoff)
      G == Gone(ChannelsWith(K), X)
  IN  /\ txs' = LeftTxs(TxsWith(N), Y)
      /\ channels' = Left(ChannelsWith(K), X)
      /\ index' = {p \in IndexWith(K) : p.number \notin G}
      /\ blocks' = {b \in BlocksWith(K) : b.index \notin G}
      /\ txExpiry' = TxKeys(N) \ Y
      /\ chExpiry' = ChannelKeys(K) \ X

\* CommitBlob returns no error, and what it does then.
Acceptable(before, after, T, C) ==
  LET N == NewTxs(T, after.cutoff)
      K == NewChannels(C, after.cutoff)
  IN  /\ bstate = before
      /\ before.revision # MaxU64
      /\ after.cutoff >= before.cutoff
      /\ TxsAgree(N)
      /\ \A c \in C : Sourced(c, TxsWith(N))
      /\ ChannelsAgree(K)
      /\ PruneSucceeds(after.cutoff, N, K)

CommitBlob(before, after, T, C) ==
  /\ Acceptable(before, after, T, C)
  /\ Write(after.cutoff, NewTxs(T, after.cutoff), NewChannels(C, after.cutoff))
  /\ bstate' = [after EXCEPT !.latest = LatestIndex(index'),
                             !.revision = before.revision + 1]

-------------------------------------------------------------------------------
(* GetBlock, for block n, when the deposits below queued are stored. *)

\* The deposit a block's queue index stands for.
Shift(q) == IF q >= SkipFrom THEN q + 1 ELSE q

\* The deposits of a block are looked up in order: the first that is not stored
\* makes the answer null, and an index that no deposit can have is an error.
Refused(b, queued) ==
  \E i \in DOMAIN b.queue :
    /\ b.queue[i] = MaxU64
    /\ \A j \in 1..(i - 1) : b.queue[j] # MaxU64 /\ Shift(b.queue[j]) < queued

\* The integrity checks of a read that finds b's number in the index: what the
\* entry leads to, then the deposits.
Intact(b) ==
  \E p \in index : \E r \in channels :
    /\ p.number = b.index /\ r.id = p.id
    /\ b.index \in Elems(r.numbers)
    /\ b.batch = r.batch
    /\ r.expires >= bstate.cutoff
    /\ r.sources # {}
    /\ \A h \in r.sources :
         \E t \in txs : t.hash = h /\ ~t.missing /\ t.time >= bstate.cutoff

Readable(b, queued) == Intact(b) /\ ~Refused(b, queued)

\* The answer: the block, filled in with its deposits, or null (the empty set).
Filled(b, queued) == \A q \in Elems(b.queue) : q # MaxU64 /\ Shift(q) < queued

Answer(n, queued) == {b \in blocks : b.index = n /\ Filled(b, queued)}
===============================================================================
