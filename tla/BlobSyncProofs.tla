---------------------------- MODULE BlobSyncProofs ----------------------------
(***************************************************************************)
(* The Blob store stays coherent under every commit, the Blob worker's     *)
(* checkpoint follows one chain, what follows from both for readers, and   *)
(* the database holds exactly what the scanned chain says.                 *)
(***************************************************************************)
EXTENDS BlobSync, WellFoundedInduction, NaturalsInduction, TLAPS

-------------------------------------------------------------------------------
(* The Blob store. *)

(* Source transactions have a timestamp and are stored under their hash.         *)
TxsKeyed(T) ==
  /\ \A t \in T : t.time \in Nat
  /\ \A t, u \in T : t.hash = u.hash => t = u

(* Channels have an expiry and are stored under their identifier.                *)
ChannelsKeyed(R) ==
  /\ \A r \in R : r.expires \in Nat
  /\ \A r, s \in R : r.id = s.id => r = s

(* The sources of each channel are there, and the oldest sets its expiry.        *)
SourcesIn(R, T) ==
  \A r \in R :
    /\ r.sources # {}
    /\ \A h \in r.sources : \E t \in T : t.hash = h /\ ~t.missing /\ r.expires <= t.time
    /\ \E t \in T : t.hash \in r.sources /\ t.time = r.expires

(* The index leads from the blocks of the channels to them, and nowhere else.    *)
IndexOf(R, I) ==
  /\ \A p \in I : \E r \in R : \E n \in Elems(r.numbers) : p = [number |-> n, id |-> r.id]
  /\ \A r \in R : \A n \in Elems(r.numbers) : [number |-> n, id |-> r.id] \in I
  /\ \A p, q \in I : p.number = q.number => p = q

(* The blocks are those of the channels, one for each number.                    *)
BlocksOf(R, B) ==
  /\ \A b \in B : b.queue \in Seq(Nat)
  /\ \A b, d \in B : b.index = d.index => b = d
  /\ \A r \in R : \A n \in Elems(r.numbers) : \E b \in B : b.index = n /\ b.batch = r.batch
  /\ \A b \in B : \E r \in R : b.index \in Elems(r.numbers)

Coherent(T, R, I, B) ==
  /\ TxsKeyed(T)
  /\ ChannelsKeyed(R)
  /\ SourcesIn(R, T)
  /\ IndexOf(R, I)
  /\ BlocksOf(R, B)

(* No L2 block comes twice in a channel.                                         *)
DistinctBlocks ==
  \A c \in DOMAIN Payload : \A i, j \in DOMAIN Payload[c] :
    Payload[c][i].index = Payload[c][j].index => i = j

Injective(f) == \A i, j \in DOMAIN f : f[i] = f[j] => i = j

(* What the scan hands to CommitBlob.                                            *)
WellMade(c) ==
  /\ \A b \in Elems(c.blocks) : b.batch = c.batch /\ b.queue \in Seq(Nat)
  /\ DistinctBlocks => Injective(Record(c).numbers)

TxKey(t) == [time |-> t.time, id |-> t.hash]
ChannelKey(r) == [time |-> r.expires, id |-> r.id]

(* A nonempty set of natural numbers has a least element. *)
LEMMA MinOfLeast ==
  ASSUME NEW T \in SUBSET Nat, T # {}
  PROVE  MinOf(T) \in T /\ \A t \in T : MinOf(T) <= t
<1> DEFINE R == {p \in Nat \X Nat : p[1] < p[2]}
<1>1. IsWellFoundedOn(R, Nat)
  BY NatLessThanWellFounded, Zenon DEF OpToRel
<1>2. \A a, b \in Nat : a < b => <<a, b>> \in R
  OBVIOUS
<1> HIDE DEF R
<1>3. PICK x \in T : \A y \in T : ~(<<y, x>> \in R)
  BY <1>1, WFMin
<1>4. x \in Nat /\ \A y \in T : y \in Nat /\ ~(y < x)
  BY <1>2, <1>3
<1>5. \A y \in T : x <= y
  BY <1>4
<1> QED
  BY <1>5, Zenon DEF MinOf

(* Pruning by expiry key keeps exactly the channels that have not expired.       *)
LEMMA PruneChannels ==
  ASSUME NEW R, ChannelsKeyed(R), NEW cut \in Nat, NEW E,
         \A x : x \in E <=> \E r \in R : x = ChannelKey(r)
  PROVE  /\ \A r : r \in Left(R, Due(E, cut)) <=> r \in R /\ cut <= r.expires
         /\ \A x : x \in E \ Due(E, cut) <=>
                     \E r \in Left(R, Due(E, cut)) : x = ChannelKey(r)
<1>1. ASSUME NEW r \in R
      PROVE  r \in Left(R, Due(E, cut)) <=> cut <= r.expires
  <2>1. CASE cut <= r.expires
    <3>1. ASSUME NEW x \in Due(E, cut) PROVE x.id # r.id
      <4>1. PICK s \in R : x = ChannelKey(s)
        BY DEF Due
      <4>2. s.expires < cut
        BY <4>1 DEF Due, ChannelKey
      <4>3. s # r /\ x.id = s.id
        BY <4>1, <4>2, <2>1 DEF ChannelKey, ChannelsKeyed
      <4> QED
        BY <4>3 DEF ChannelsKeyed
    <3> QED
      BY <2>1, <3>1 DEF Left
  <2>2. CASE ~(cut <= r.expires)
    <3>1. ChannelKey(r) \in Due(E, cut) /\ ChannelKey(r).id = r.id
      BY <2>2 DEF Due, ChannelKey, ChannelsKeyed
    <3> QED
      BY <2>2, <3>1 DEF Left
  <2> QED
    BY <2>1, <2>2
<1>2. \A r : r \in Left(R, Due(E, cut)) => r \in R
  BY DEF Left
<1>3. ASSUME NEW r \in R
      PROVE  ChannelKey(r) \in Due(E, cut) <=> ~(cut <= r.expires)
  BY DEF Due, ChannelKey, ChannelsKeyed
<1>4. Due(E, cut) \subseteq E
  BY DEF Due
<1> QED
  BY <1>1, <1>2, <1>3, <1>4

(* Pruning by expiry key keeps exactly the transactions that have not expired.   *)
LEMMA PruneTxs ==
  ASSUME NEW T, TxsKeyed(T), NEW cut \in Nat, NEW E,
         \A x : x \in E <=> \E t \in T : x = TxKey(t)
  PROVE  /\ \A t : t \in LeftTxs(T, Due(E, cut)) <=> t \in T /\ cut <= t.time
         /\ \A x : x \in E \ Due(E, cut) <=>
                     \E t \in LeftTxs(T, Due(E, cut)) : x = TxKey(t)
<1>1. ASSUME NEW r \in T
      PROVE  r \in LeftTxs(T, Due(E, cut)) <=> cut <= r.time
  <2>1. CASE cut <= r.time
    <3>1. ASSUME NEW x \in Due(E, cut) PROVE x.id # r.hash
      <4>1. PICK s \in T : x = TxKey(s)
        BY DEF Due
      <4>2. s.time < cut
        BY <4>1 DEF Due, TxKey
      <4>3. s # r /\ x.id = s.hash
        BY <4>1, <4>2, <2>1 DEF TxKey, TxsKeyed
      <4> QED
        BY <4>3 DEF TxsKeyed
    <3> QED
      BY <2>1, <3>1 DEF LeftTxs
  <2>2. CASE ~(cut <= r.time)
    <3>1. TxKey(r) \in Due(E, cut) /\ TxKey(r).id = r.hash
      BY <2>2 DEF Due, TxKey, TxsKeyed
    <3> QED
      BY <2>2, <3>1 DEF LeftTxs
  <2> QED
    BY <2>1, <2>2
<1>2. \A r : r \in LeftTxs(T, Due(E, cut)) => r \in T
  BY DEF LeftTxs
<1>3. ASSUME NEW r \in T
      PROVE  TxKey(r) \in Due(E, cut) <=> ~(cut <= r.time)
  BY DEF Due, TxKey, TxsKeyed
<1>4. Due(E, cut) \subseteq E
  BY DEF Due
<1> QED
  BY <1>1, <1>2, <1>3, <1>4

(* T2, R2, I2 and B2 are what pruning at cut leaves, and G the blocks that go.    *)
Pruned(cut, T, R, I, B, T2, R2, G, I2, B2) ==
  /\ \A t : t \in T2 <=> t \in T /\ cut <= t.time
  /\ \A r : r \in R2 <=> r \in R /\ cut <= r.expires
  /\ \A n : n \in G <=> \E r \in R : r \notin R2 /\ n \in Elems(r.numbers)
  /\ \A p : p \in I2 <=> p \in I /\ p.number \notin G
  /\ \A b : b \in B2 <=> b \in B /\ b.index \notin G

(* What pruning leaves is coherent: a channel goes with its blocks and pointers,  *)
(* and only with those, and one that stays keeps its sources.                     *)
LEMMA PruneCoherent ==
  ASSUME NEW cut \in Nat, NEW T, NEW R, NEW I, NEW B, Coherent(T, R, I, B),
         NEW T2, NEW R2, NEW G, NEW I2, NEW B2,
         Pruned(cut, T, R, I, B, T2, R2, G, I2, B2)
  PROVE  /\ Coherent(T2, R2, I2, B2)
         /\ \A r \in R2 : \A n \in Elems(r.numbers) : n \notin G
<1> USE DEF Pruned
<1>1. TxsKeyed(T2) /\ ChannelsKeyed(R2)
  BY DEF Coherent, TxsKeyed, ChannelsKeyed
<1>2. SourcesIn(R2, T2)
  <2> SUFFICES ASSUME NEW r \in R2
               PROVE  /\ r.sources # {}
                      /\ \A h \in r.sources :
                           \E t \in T2 : t.hash = h /\ ~t.missing /\ r.expires <= t.time
                      /\ \E t \in T2 : t.hash \in r.sources /\ t.time = r.expires
    BY DEF SourcesIn
  <2>1. r \in R /\ r.expires \in Nat /\ cut <= r.expires
    BY DEF Coherent, ChannelsKeyed
  <2>2. \A t \in T : t.time \in Nat /\ (r.expires <= t.time => t \in T2)
    BY <2>1 DEF Coherent, TxsKeyed
  <2> QED
    BY <2>1, <2>2 DEF Coherent, SourcesIn
<1>3. ASSUME NEW r \in R2, NEW n \in Elems(r.numbers) PROVE n \notin G
  <2>1. SUFFICES ASSUME NEW s \in R, s \notin R2, n \in Elems(s.numbers) PROVE FALSE
    OBVIOUS
  <2>2. [number |-> n, id |-> r.id] \in I /\ [number |-> n, id |-> s.id] \in I
    BY <2>1 DEF Coherent, IndexOf
  <2>3. [number |-> n, id |-> r.id] = [number |-> n, id |-> s.id]
    BY <2>2, \A p, q \in I : p.number = q.number => p = q DEF Coherent, IndexOf
  <2>4. r.id = s.id
    BY <2>3
  <2> QED
    BY <2>1, <2>4 DEF Coherent, ChannelsKeyed
<1>4. IndexOf(R2, I2)
  <2>1. ASSUME NEW p \in I2
        PROVE  \E r \in R2 : \E n \in Elems(r.numbers) : p = [number |-> n, id |-> r.id]
    <3>1. PICK r \in R : \E n \in Elems(r.numbers) : p = [number |-> n, id |-> r.id]
      BY DEF Coherent, IndexOf
    <3>2. PICK n \in Elems(r.numbers) : p = [number |-> n, id |-> r.id]
      BY <3>1
    <3>3. p.number = n
      BY <3>2
    <3> QED
      BY <3>2, <3>3
  <2>2. ASSUME NEW r \in R2, NEW n \in Elems(r.numbers)
        PROVE  [number |-> n, id |-> r.id] \in I2
    <3>1. [number |-> n, id |-> r.id] \in I /\ [number |-> n, id |-> r.id].number = n
      BY DEF Coherent, IndexOf
    <3> QED
      BY <3>1, <1>3
  <2> QED
    BY <2>1, <2>2 DEF Coherent, IndexOf
<1>5. BlocksOf(R2, B2)
  <2>1. ASSUME NEW b \in B2 PROVE \E r \in R2 : b.index \in Elems(r.numbers)
    BY DEF Coherent, BlocksOf
  <2>2. ASSUME NEW r \in R2, NEW n \in Elems(r.numbers)
        PROVE  \E b \in B2 : b.index = n /\ b.batch = r.batch
    BY <1>3 DEF Coherent, BlocksOf
  <2> QED
    BY <2>1, <2>2 DEF Coherent, BlocksOf
<1> QED
  BY <1>1, <1>2, <1>3, <1>4, <1>5 DEF Coherent

(* The numbers of a record are those of the channel's blocks.                     *)
LEMMA RecordNumbers ==
  ASSUME NEW c
  PROVE  /\ \A n : n \in Elems(Record(c).numbers) <=> \E b \in Elems(c.blocks) : n = b.index
         /\ Record(c).id = c.id /\ Record(c).sources = c.sources
         /\ Record(c).batch = c.batch /\ Record(c).expires = c.expires
BY DEF Record, Elems

(* What the batch of CommitBlob holds after the transactions and channels are put *)
(* is coherent (putIdentical, putChannel).                                        *)
LEMMA PutCoherent ==
  ASSUME Coherent(txs, channels, index, blocks), NEW N, NEW K,
         \A t \in N : t.time \in Nat, \A c \in K : WellMade(c),
         TxsAgree(N), ChannelsAgree(K), \A c \in K : Sourced(c, TxsWith(N))
  PROVE  Coherent(TxsWith(N), ChannelsWith(K), IndexWith(K), BlocksWith(K))
<1>1. TxsKeyed(TxsWith(N))
  BY DEF Coherent, TxsKeyed, TxsAgree, TxsWith
<1>2. ASSUME NEW c \in K
      PROVE  /\ c.expires \in Nat
             /\ c.sources # {}
             /\ \A h \in c.sources :
                  \E t \in TxsWith(N) : t.hash = h /\ ~t.missing /\ c.expires <= t.time
             /\ \E t \in TxsWith(N) : t.hash \in c.sources /\ t.time = c.expires
  <2> DEFINE S == {t.time : t \in Sources(c, TxsWith(N))}
  <2>1. c.sources # {} /\ c.expires = MinOf(S)
        /\ \A h \in c.sources : \E t \in TxsWith(N) : t.hash = h /\ ~t.missing
    BY DEF Sourced
  <2>2. \A m : m \in S <=> \E t \in TxsWith(N) : t.hash \in c.sources /\ m = t.time
    BY DEF Sources
  <2>3. S \in SUBSET Nat
    BY <1>1, <2>2 DEF TxsKeyed
  <2> HIDE DEF S
  <2>4. S # {}
    <3>1. PICK h \in c.sources : \E t \in TxsWith(N) : t.hash = h
      BY <2>1
    <3>2. PICK t \in TxsWith(N) : t.hash = h
      BY <3>1
    <3>3. t.time \in S
      BY <2>2, <3>2
    <3> QED
      BY <3>3
  <2>5. c.expires \in S /\ \A m \in S : c.expires <= m
    BY <2>1, <2>3, <2>4, MinOfLeast
  <2>6. \A h \in c.sources :
           \E t \in TxsWith(N) : t.hash = h /\ ~t.missing /\ c.expires <= t.time
    BY <2>1, <2>2, <2>5
  <2> QED
    BY <2>1, <2>2, <2>3, <2>5, <2>6
<1>3. \A r \in ChannelsWith(K) : r \in channels \/ \E c \in K : r = Record(c)
  BY DEF ChannelsWith
<1>4. ChannelsKeyed(ChannelsWith(K))
  <2>1. \A r \in ChannelsWith(K) : r.expires \in Nat
    BY <1>2, <1>3, RecordNumbers DEF Coherent, ChannelsKeyed
  <2>2. ASSUME NEW c \in K, NEW r \in ChannelsWith(K), r.id = c.id
        PROVE  r = Record(c)
    BY <2>2 DEF ChannelsAgree, ChannelsWith
  <2>3. ASSUME NEW r \in ChannelsWith(K), NEW s \in ChannelsWith(K), r.id = s.id
        PROVE  r = s
    BY <1>3, <2>2, <2>3, RecordNumbers DEF Coherent, ChannelsKeyed
  <2> QED
    BY <2>1, <2>3 DEF ChannelsKeyed
<1>5. SourcesIn(ChannelsWith(K), TxsWith(N))
  <2>1. txs \subseteq TxsWith(N)
    BY DEF TxsWith
  <2> QED
    BY <1>2, <1>3, <2>1, RecordNumbers DEF Coherent, SourcesIn
<1>6. \A p : p \in NewIndex(K) <=>
         \E c \in K : \E n \in Elems(Record(c).numbers) : p = [number |-> n, id |-> c.id]
  <2>1. ASSUME NEW p
        PROVE  p \in NewIndex(K) <=>
                 \E c \in K : \E b \in Elems(c.blocks) : p = [number |-> b.index, id |-> c.id]
    BY DEF NewIndex, Entries
  <2>2. ASSUME NEW p, NEW c \in K, NEW n \in Elems(Record(c).numbers),
               p = [number |-> n, id |-> c.id]
        PROVE  p \in NewIndex(K)
    <3>1. PICK b \in Elems(c.blocks) : n = b.index
      BY RecordNumbers
    <3> QED
      BY <2>1, <2>2, <3>1
  <2>3. ASSUME NEW p \in NewIndex(K)
        PROVE  \E c \in K : \E n \in Elems(Record(c).numbers) : p = [number |-> n, id |-> c.id]
    <3>1. PICK c \in K : \E b \in Elems(c.blocks) : p = [number |-> b.index, id |-> c.id]
      BY <2>1
    <3>2. PICK b \in Elems(c.blocks) : p = [number |-> b.index, id |-> c.id]
      BY <3>1
    <3>3. b.index \in Elems(Record(c).numbers)
      BY <3>2, RecordNumbers
    <3> QED
      BY <3>2, <3>3
  <2> QED
    BY <2>2, <2>3
<1>7. IndexOf(ChannelsWith(K), IndexWith(K))
  <2>1. ASSUME NEW p \in IndexWith(K)
        PROVE  \E r \in ChannelsWith(K) :
                 \E n \in Elems(r.numbers) : p = [number |-> n, id |-> r.id]
    <3>1. CASE p \in index
      BY <3>1 DEF Coherent, IndexOf, ChannelsWith
    <3>2. CASE p \in NewIndex(K)
      <4>1. PICK c \in K : \E n \in Elems(Record(c).numbers) : p = [number |-> n, id |-> c.id]
        BY <3>2, <1>6
      <4>2. Record(c) \in ChannelsWith(K) /\ Record(c).id = c.id
        BY RecordNumbers DEF ChannelsWith
      <4> QED
        BY <4>1, <4>2
    <3> QED
      BY <3>1, <3>2 DEF IndexWith
  <2>2. ASSUME NEW r \in ChannelsWith(K), NEW n \in Elems(r.numbers)
        PROVE  [number |-> n, id |-> r.id] \in IndexWith(K)
    <3>1. CASE r \in channels
      BY <3>1 DEF Coherent, IndexOf, IndexWith
    <3>2. CASE \E c \in K : r = Record(c)
      <4>1. PICK c \in K : r = Record(c)
        BY <3>2
      <4>2. [number |-> n, id |-> r.id] \in NewIndex(K)
        BY <4>1, <1>6, RecordNumbers
      <4> QED
        BY <4>2 DEF IndexWith
    <3> QED
      BY <1>3, <3>1, <3>2
  <2>3. \A p, q \in IndexWith(K) : p.number = q.number => p = q
    BY DEF Coherent, IndexOf, ChannelsAgree, IndexWith
  <2> QED
    BY <2>1, <2>2, <2>3 DEF IndexOf
<1>8. \A b : b \in NewBlocks(K) <=> \E c \in K : b \in Elems(c.blocks)
  BY DEF NewBlocks
<1>9. BlocksOf(ChannelsWith(K), BlocksWith(K))
  <2>1. ASSUME NEW b \in BlocksWith(K)
        PROVE  b.queue \in Seq(Nat) /\ \E r \in ChannelsWith(K) : b.index \in Elems(r.numbers)
    <3>1. CASE b \in blocks
      BY <3>1 DEF Coherent, BlocksOf, ChannelsWith
    <3>2. CASE b \in NewBlocks(K)
      <4>1. PICK c \in K : b \in Elems(c.blocks)
        BY <3>2, <1>8
      <4>2. Record(c) \in ChannelsWith(K) /\ b.index \in Elems(Record(c).numbers)
        BY <4>1, RecordNumbers DEF ChannelsWith
      <4> QED
        BY <4>1, <4>2 DEF WellMade
    <3> QED
      BY <3>1, <3>2 DEF BlocksWith
  <2>2. ASSUME NEW r \in ChannelsWith(K), NEW n \in Elems(r.numbers)
        PROVE  \E b \in BlocksWith(K) : b.index = n /\ b.batch = r.batch
    <3>1. CASE r \in channels
      BY <3>1 DEF Coherent, BlocksOf, BlocksWith
    <3>2. CASE \E c \in K : r = Record(c)
      <4>1. PICK c \in K : r = Record(c)
        BY <3>2
      <4>2. PICK b \in Elems(c.blocks) : n = b.index
        BY <4>1, RecordNumbers
      <4>3. b \in BlocksWith(K) /\ b.batch = r.batch
        BY <4>1, <4>2, <1>8, RecordNumbers DEF BlocksWith, WellMade
      <4> QED
        BY <4>2, <4>3
    <3> QED
      BY <1>3, <3>1, <3>2
  <2>3. \A b, d \in BlocksWith(K) : b.index = d.index => b = d
    BY DEF Coherent, BlocksOf, ChannelsAgree, BlocksWith
  <2> QED
    BY <2>1, <2>2, <2>3 DEF BlocksOf
<1> QED
  BY <1>1, <1>4, <1>5, <1>7, <1>9 DEF Coherent

(* The store's own invariant: coherent records, expiry keys that stand for them,  *)
(* nothing behind the cutoff, and the checkpoint's name for the latest block.     *)
StoreOK ==
  /\ Coherent(txs, channels, index, blocks)
  /\ txExpiry = {TxKey(t) : t \in txs}
  /\ chExpiry = {ChannelKey(r) : r \in channels}
  /\ \A t \in txs : bstate.cutoff <= t.time
  /\ \A r \in channels : bstate.cutoff <= r.expires
  /\ bstate.latest = LatestIndex(index)
  /\ bstate.cutoff \in Nat

(* What CommitBlob leaves: of the old records and of the new ones, exactly those  *)
(* that have not expired, with their blocks.                                      *)
LEMMA CommitLeaves ==
  ASSUME StoreOK, NEW before, NEW after, NEW T, NEW C, CommitBlob(before, after, T, C),
         DOMAIN after = DOMAIN NoBlobState, after.cutoff \in Nat,
         \A t \in T : t.time \in Nat, \A c \in C : WellMade(c),
         NEW N, N = NewTxs(T, after.cutoff), NEW K, K = NewChannels(C, after.cutoff)
  PROVE  /\ StoreOK'
         /\ Coherent(TxsWith(N), ChannelsWith(K), IndexWith(K), BlocksWith(K))
         /\ \A t : t \in txs' <=> t \in TxsWith(N) /\ after.cutoff <= t.time
         /\ \A r : r \in channels' <=> r \in ChannelsWith(K) /\ after.cutoff <= r.expires
         /\ \A b : b \in BlocksWith(K) => (b \in blocks' <=>
               \A r \in ChannelsWith(K) : r \in channels' \/ b.index \notin Elems(r.numbers))
         /\ bstate'.cutoff = after.cutoff
<1> DEFINE cut == after.cutoff
           X == Due(ChannelKeys(K), cut)
           Y == Due(TxKeys(N), cut)
           G == Gone(ChannelsWith(K), X)
<1>1. /\ TxsAgree(N) /\ ChannelsAgree(K) /\ \A c \in C : Sourced(c, TxsWith(N))
      /\ Write(cut, N, K)
      /\ bstate' = [after EXCEPT !.latest = LatestIndex(index'),
                                 !.revision = before.revision + 1]
  BY DEF CommitBlob, Acceptable
<1>2. N \subseteq T /\ K \subseteq C
  BY DEF NewTxs, NewChannels
<1>3. Coherent(TxsWith(N), ChannelsWith(K), IndexWith(K), BlocksWith(K))
  <2>1. /\ \A t \in N : t.time \in Nat
        /\ \A c \in K : WellMade(c)
        /\ \A c \in K : Sourced(c, TxsWith(N))
    BY <1>1, <1>2
  <2> QED
    BY <1>1, <2>1, PutCoherent DEF StoreOK
<1>4. \A x : x \in TxKeys(N) <=> \E t \in TxsWith(N) : x = TxKey(t)
  BY DEF TxKeys, TxsWith, TxKey, StoreOK
<1>5. \A x : x \in ChannelKeys(K) <=> \E r \in ChannelsWith(K) : x = ChannelKey(r)
  <2>1. \A c : ChannelKey(Record(c)) = [time |-> c.expires, id |-> c.id]
    BY RecordNumbers DEF ChannelKey
  <2>2. \A x : x \in chExpiry <=> \E r \in channels : x = ChannelKey(r)
    BY DEF StoreOK
  <2>3. \A x : x \in ChannelKeys(K) <=>
           x \in chExpiry \/ \E c \in K : x = [time |-> c.expires, id |-> c.id]
    BY DEF ChannelKeys
  <2>4. \A r : r \in ChannelsWith(K) <=> r \in channels \/ \E c \in K : r = Record(c)
    BY DEF ChannelsWith
  <2> QED
    BY <2>1, <2>2, <2>3, <2>4
<1>6. /\ \A t : t \in txs' <=> t \in TxsWith(N) /\ cut <= t.time
      /\ \A x : x \in txExpiry' <=> \E t \in txs' : x = TxKey(t)
  <2>1. txs' = LeftTxs(TxsWith(N), Y) /\ txExpiry' = TxKeys(N) \ Y
    BY <1>1 DEF Write
  <2> QED
    BY <1>3, <1>4, <2>1, PruneTxs DEF Coherent
<1>7. /\ \A r : r \in channels' <=> r \in ChannelsWith(K) /\ cut <= r.expires
      /\ \A x : x \in chExpiry' <=> \E r \in channels' : x = ChannelKey(r)
  <2>1. channels' = Left(ChannelsWith(K), X) /\ chExpiry' = ChannelKeys(K) \ X
    BY <1>1 DEF Write
  <2> QED
    BY <1>3, <1>5, <2>1, PruneChannels DEF Coherent
<1>8. /\ \A n : n \in G <=> \E r \in ChannelsWith(K) :
                  r \notin channels' /\ n \in Elems(r.numbers)
      /\ \A p : p \in index' <=> p \in IndexWith(K) /\ p.number \notin G
      /\ \A b : b \in blocks' <=> b \in BlocksWith(K) /\ b.index \notin G
  <2>1. /\ channels' = Left(ChannelsWith(K), X)
        /\ index' = {p \in IndexWith(K) : p.number \notin G}
        /\ blocks' = {b \in BlocksWith(K) : b.index \notin G}
    BY <1>1 DEF Write
  <2>2. \A n : n \in G <=> \E r \in ChannelsWith(K) :
                  r \notin channels' /\ n \in Elems(r.numbers)
    BY <2>1 DEF Gone
  <2> HIDE DEF G
  <2> QED
    BY <2>1, <2>2
<1> HIDE DEF G, X, Y, cut
<1>9. /\ Coherent(txs', channels', index', blocks')
      /\ \A r \in channels' : \A n \in Elems(r.numbers) : n \notin G
  <2>1. cut \in Nat
    BY DEF cut
  <2>2. Pruned(cut, TxsWith(N), ChannelsWith(K), IndexWith(K), BlocksWith(K),
               txs', channels', G, index', blocks')
    BY <1>6, <1>7, <1>8 DEF Pruned
  <2> QED
    BY <1>3, <2>1, <2>2, PruneCoherent
<1>10. bstate'.cutoff = after.cutoff /\ bstate'.latest = LatestIndex(index')
  BY <1>1 DEF NoBlobState
<1>11. StoreOK'
  <2>1. txExpiry' = {TxKey(t) : t \in txs'} /\ chExpiry' = {ChannelKey(r) : r \in channels'}
    BY <1>6, <1>7
  <2>2. LatestIndex(index)' = LatestIndex(index')
    BY DEF LatestIndex
  <2>3. Coherent(txs, channels, index, blocks)'
    BY <1>9 DEF Coherent, TxsKeyed, ChannelsKeyed, SourcesIn, IndexOf, BlocksOf
  <2>4. (\A t \in txs' : bstate'.cutoff <= t.time) /\ (\A r \in channels' : bstate'.cutoff <= r.expires)
    BY <1>6, <1>7, <1>10 DEF cut
  <2> QED
    BY <1>10, <2>1, <2>2, <2>3, <2>4 DEF StoreOK, TxKey, ChannelKey
<1> QED
  BY <1>3, <1>6, <1>7, <1>8, <1>10, <1>11 DEF cut

-------------------------------------------------------------------------------
(* The chain. *)

(* c is a chain of height h: no Blob transaction is mined twice, and submissions  *)
(* refer to what was mined before them.                                           *)
WellFormed(c, h) ==
  /\ h \in 0..MaxHeight
  /\ DOMAIN c = 0..h
  /\ \A k \in 0..h : c[k].e \in Nat
  /\ \A j, k \in 0..h : \A t \in c[j].txs : t \in c[k].txs => j = k
  /\ \A k \in 0..h : \A s \in c[k].subs : s.refs \subseteq TxsUpto(c, k)

ChainOK ==
  /\ WellFormed(chain, tip)
  /\ epoch \in 0..MaxReorgs
  /\ \A k \in 0..tip : chain[k].e <= epoch

(* c is the chain up to height h, and still is.                                   *)
Live(c, h) == h <= tip /\ c = HashAt(h)

(* c is off the chain and cannot come back: its last block belongs to a fork      *)
(* older than the block that took its place, or will.                             *)
Dead(c, h) == c[h].e < epoch /\ (h <= tip => c[h].e < chain[h].e)

Tracked(c, h) == WellFormed(c, h) /\ (Live(c, h) \/ Dead(c, h))

(* The Blob transactions of the first blocks of a chain.                          *)
LEMMA TxsUptoIs ==
  ASSUME NEW c, NEW h, NEW t
  PROVE  t \in TxsUpto(c, h) <=> \E k \in 0..h : t \in c[k].txs
BY DEF TxsUpto

(* Chains that agree up to a block have the same transactions up to it.           *)
LEMMA TxsUptoAgree ==
  ASSUME NEW c, NEW d, NEW h, \A k \in 0..h : c[k] = d[k]
  PROVE  TxsUpto(c, h) = TxsUpto(d, h)
BY TxsUptoIs

(* A prefix of a chain is one.                                                    *)
LEMMA PrefixWellFormed ==
  ASSUME NEW c, NEW h, WellFormed(c, h), NEW d \in 0..h, NEW p,
         DOMAIN p = 0..d, \A k \in 0..d : p[k] = c[k]
  PROVE  WellFormed(p, d)
<1>1. h \in Nat /\ d \in Nat /\ d <= h /\ d \in 0..MaxHeight
  BY InboxAssumption DEF WellFormed
<1>2. \A k \in 0..d : k \in 0..h
  BY <1>1
<1>3. ASSUME NEW k \in 0..d PROVE TxsUpto(p, k) = TxsUpto(c, k)
  <2>1. \A j \in 0..k : p[j] = c[j]
    BY <1>1
  <2> QED
    BY <2>1, TxsUptoAgree
<1> QED
  BY <1>1, <1>2, <1>3 DEF WellFormed

(* What is on the chain is a chain.                                               *)
LEMMA LiveTracked ==
  ASSUME ChainOK, NEW h \in 0..tip
  PROVE  Live(HashAt(h), h) /\ Tracked(HashAt(h), h)
<1>1. DOMAIN HashAt(h) = 0..h /\ \A k \in 0..h : HashAt(h)[k] = chain[k]
  BY DEF HashAt
<1>2. tip \in Nat
  BY InboxAssumption DEF ChainOK, WellFormed
<1> QED
  BY <1>1, <1>2, PrefixWellFormed DEF Live, Tracked, ChainOK

(* A block with a replacement is not on the chain.                                *)
LEMMA LiveNotDead ==
  ASSUME ChainOK, NEW c, NEW h, WellFormed(c, h), Live(c, h)
  PROVE  ~Dead(c, h)
<1>1. h \in Nat /\ tip \in Nat
  BY InboxAssumption DEF ChainOK, WellFormed
<1>2. c[h] = chain[h]
  BY <1>1 DEF Live, HashAt
<1>3. c[h].e \in Nat
  BY <1>1 DEF WellFormed
<1> QED
  BY <1>2, <1>3 DEF Dead, Live

(* Mining keeps the chain well-formed.                                            *)
LEMMA MineWellFormed ==
  ASSUME ChainOK, NEW body, Mine(body)
  PROVE  ChainOK'
<1>1. /\ tip \in Nat /\ tip + 1 \in 0..MaxHeight /\ tip' = tip + 1 /\ epoch' = epoch
      /\ DOMAIN chain' = 0..(tip + 1)
      /\ chain'[tip + 1] = NewBlock(body, epoch)
      /\ \A k \in 0..tip : chain'[k] = chain[k]
      /\ epoch \in Nat
  BY InboxAssumption DEF Mine, ChainOK, WellFormed
<1>2. /\ chain'[tip + 1].e = epoch /\ chain'[tip + 1].txs = body.txs
      /\ chain'[tip + 1].subs = body.subs
  BY <1>1 DEF NewBlock
<1>3. \A k \in 0..(tip + 1) : k \in 0..tip \/ k = tip + 1
  BY <1>1
<1>4. \A k \in 0..(tip + 1) : chain'[k].e \in Nat /\ chain'[k].e <= epoch
  BY <1>1, <1>2, <1>3 DEF ChainOK, WellFormed
<1>5. ASSUME NEW j \in 0..(tip + 1), NEW k \in 0..(tip + 1),
             NEW t, t \in chain'[j].txs, t \in chain'[k].txs
      PROVE  j = k
  <2>1. \A i \in 0..tip : t \in chain[i].txs => t \notin body.txs
    BY TxsUptoIs DEF Mine
  <2>2. CASE j \in 0..tip /\ k \in 0..tip
    BY <1>1, <1>5, <2>2 DEF ChainOK, WellFormed
  <2>3. CASE j = tip + 1 \/ k = tip + 1
    BY <1>1, <1>2, <1>3, <1>5, <2>1, <2>3
  <2> QED
    BY <1>3, <2>2, <2>3
<1>6. ASSUME NEW k \in 0..(tip + 1), NEW s \in chain'[k].subs
      PROVE  s.refs \subseteq TxsUpto(chain', k)
  <2>1. CASE k \in 0..tip
    <3>1. TxsUpto(chain', k) = TxsUpto(chain, k)
      BY <1>1, <2>1, TxsUptoAgree
    <3> QED
      BY <1>1, <2>1, <3>1 DEF ChainOK, WellFormed
  <2>2. CASE k = tip + 1
    <3>1. s.refs \subseteq TxsUpto(chain, tip) \cup body.txs
      BY <1>2, <2>2 DEF Mine
    <3>2. \A t \in TxsUpto(chain, tip) : t \in TxsUpto(chain', k)
      BY <1>1, <2>2, TxsUptoIs
    <3>3. \A t \in body.txs : t \in TxsUpto(chain', k)
      BY <1>1, <1>2, <2>2, TxsUptoIs
    <3> QED
      BY <3>1, <3>2, <3>3
  <2> QED
    BY <1>3, <2>1, <2>2
<1>7. WellFormed(chain', tip')
  BY <1>1, <1>4, <1>5, <1>6 DEF WellFormed
<1>8. epoch' \in 0..MaxReorgs /\ \A k \in 0..tip' : chain'[k].e <= epoch'
  BY <1>1, <1>4 DEF ChainOK
<1>9. WellFormed(chain, tip)'
  BY <1>7 DEF WellFormed, TxsUpto
<1> QED
  BY <1>8, <1>9 DEF ChainOK

(* A reorganisation keeps the chain well-formed.                                  *)
LEMMA ReorgWellFormed ==
  ASSUME ChainOK, NEW d \in 0..MaxHeight, Reorg(d)
  PROVE  ChainOK'
<1>1. /\ tip \in Nat /\ d \in 0..tip /\ tip' = d /\ epoch' = epoch + 1
      /\ DOMAIN chain' = 0..d /\ \A k \in 0..d : chain'[k] = chain[k]
      /\ epoch \in Nat /\ epoch' \in 0..MaxReorgs
  BY InboxAssumption DEF Reorg, HashAt, ChainOK, WellFormed
<1>2. WellFormed(chain', d)
  BY <1>1, PrefixWellFormed DEF ChainOK
<1>3. \A k \in 0..d : chain'[k].e \in Nat /\ chain'[k].e <= epoch'
  <2>1. \A k \in 0..d : k \in 0..tip
    BY <1>1
  <2> QED
    BY <1>1, <2>1 DEF ChainOK, WellFormed
<1>4. WellFormed(chain, tip)'
  BY <1>1, <1>2 DEF WellFormed, TxsUpto
<1> QED
  BY <1>1, <1>3, <1>4 DEF ChainOK

(* A block that was seen stays accounted for, and one that left the chain does    *)
(* not return to it.                                                              *)
LEMMA TrackedStep ==
  ASSUME ChainOK, ChainNext, NEW c, NEW h, WellFormed(c, h)
  PROVE  /\ Live(c, h) \/ Dead(c, h) => Live(c, h)' \/ Dead(c, h)'
         /\ Dead(c, h) => Dead(c, h)'
         /\ (Live(c, h) \/ Dead(c, h)) /\ Live(c, h)' => Live(c, h)
<1>0. /\ h \in Nat /\ DOMAIN c = 0..h /\ c[h].e \in Nat /\ tip \in Nat /\ epoch \in Nat
      /\ \A k \in 0..tip : chain[k].e \in Nat /\ chain[k].e <= epoch
  BY InboxAssumption DEF WellFormed, ChainOK
<1>a. Live(c, h) => c[h] = chain[h]
  BY <1>0 DEF Live, HashAt
<1>1. ASSUME NEW body \in Bodies, Mine(body)
      PROVE  /\ Live(c, h) => Live(c, h)'
             /\ Dead(c, h) => Dead(c, h)' /\ ~Live(c, h)'
  <2>1. tip' = tip + 1 /\ epoch' = epoch /\ chain'[tip + 1].e = epoch
        /\ \A k \in 0..tip : chain'[k] = chain[k]
    BY <1>0, <1>1 DEF Mine, NewBlock
  <2>2. h <= tip => HashAt(h)' = HashAt(h)
    BY <1>0, <2>1 DEF HashAt
  <2>3. Dead(c, h) => Dead(c, h)'
    BY <1>0, <2>1 DEF Dead
  <2>4. Live(c, h)' => c[h] = chain'[h] /\ h <= tip'
    BY <1>0 DEF Live, HashAt
  <2> QED
    BY <1>0, <2>1, <2>2, <2>3, <2>4 DEF Live, Dead
<1>2. ASSUME NEW d \in 0..MaxHeight, Reorg(d)
      PROVE  /\ Live(c, h) => Live(c, h)' \/ Dead(c, h)'
             /\ Dead(c, h) => Dead(c, h)' /\ ~Live(c, h)'
  <2>1. d \in Nat /\ d < tip /\ tip' = d /\ epoch' = epoch + 1
        /\ \A k \in 0..d : chain'[k] = chain[k]
    BY <1>0, <1>2 DEF Reorg, HashAt
  <2>2. h <= d => HashAt(h)' = HashAt(h)
    BY <1>0, <2>1 DEF HashAt
  <2>3. Dead(c, h) => Dead(c, h)'
    BY <1>0, <2>1 DEF Dead
  <2>4. Live(c, h)' => c[h] = chain'[h] /\ h <= tip'
    BY <1>0 DEF Live, HashAt
  <2>5. CASE Live(c, h)
    <3>1. c[h].e <= epoch /\ h <= tip
      BY <1>0, <1>a, <2>5 DEF Live
    <3> QED
      BY <1>0, <2>1, <2>2, <2>3, <2>4, <2>5, <3>1 DEF Live, Dead
  <2>6. CASE ~Live(c, h)
    BY <1>0, <2>1, <2>3, <2>4, <2>6 DEF Dead
  <2> QED
    BY <2>5, <2>6
<1> QED
  BY <1>1, <1>2 DEF ChainNext

-------------------------------------------------------------------------------
(* The worker between and within Steps, except for what a scan has found.         *)

Idle == {"idle", "wait", "retry", "halt", "stopped"}
Preparing == {"head1", "height1", "tip", "confirmed"}
Retaining == {"target", "head2", "height2", "retain"}
Reading == {"block", "subs", "refs", "end", "head3", "height3", "commit"}
Scanning == Reading \cup {"anchor"}

(* The checkpoint is of one chain; each commit scans a block or moves the cutoff. *)
CheckpointOK ==
  /\ DOMAIN bstate = DOMAIN NoBlobState
  /\ bstate.height \in Nil..MaxHeight /\ bstate.retHeight \in Nil..MaxHeight
  /\ bstate.cutoff \in 0..MaxHeight
  /\ bstate.revision \in Nat
  /\ bstate.revision <= bstate.height + 1 + bstate.cutoff
  /\ bstate.height # Nil => Start <= bstate.height
  /\ IF bstate.height = Nil THEN bstate.hash = NoHash
                            ELSE Tracked(bstate.hash, bstate.height)

(* Under DistinctBlocks a stored channel names each of its blocks once.           *)
NumbersOK == DistinctBlocks => \A r \in channels : Injective(r.numbers)

(* The Step works on the checkpoint in the database and on a window above it.     *)
StepOK ==
  /\ pc \in Idle \cup Preparing \cup Retaining \cup Scanning \cup {"plan", "publish"}
  /\ DOMAIN v = DOMAIN Fresh
  /\ v.target \in 0..MaxHeight /\ v.end \in 0..MaxHeight /\ v.from \in 0..MaxHeight + 1
  /\ pc \notin Idle \cup {"publish"} => v.st = bstate
  /\ pc \in Retaining => Cutoff(v.target) > v.st.cutoff
  /\ pc \in Scanning => v.from = From(v.st) /\ v.from <= v.end
  /\ pc = "publish" => bstate.height = v.end

(* What the scan hands to the store is well made.                                 *)
FoundOK == (\A t \in v.txs : t.time \in Nat) /\ (\A c \in v.channels : WellMade(c))

Extends(c, st) == st.height # Nil => \A k \in 0..st.height : c[k] = st.hash[k]

(* The window's last block descends from the scanned one, or that one is gone.    *)
AnchorOK ==
  pc \in Reading =>
    /\ Tracked(v.anchor, v.end)
    /\ \/ Extends(v.anchor, v.st)
       \/ pc # "commit" /\ v.st.height # Nil /\ Dead(v.st.hash, v.st.height)

ReadyOK ==
  /\ ready \in BOOLEAN /\ fatal \in BOOLEAN /\ blobReady \in BOOLEAN
  /\ queued \in 0..MaxQueued
  /\ blobReady =>
       /\ pc \notin Scanning \cup {"publish"}
       /\ pc \in Retaining \cup {"plan"} => v.st.height >= v.target

StoreInv == StoreOK /\ NumbersOK

BaseInv ==
  /\ ChainOK
  /\ CheckpointOK
  /\ StoreInv
  /\ StepOK
  /\ FoundOK
  /\ AnchorOK
  /\ ReadyOK

(* The locals of a new Step.                                                      *)
LEMMA FreshFields ==
  /\ DOMAIN Fresh = {"st", "target", "confirmed", "from", "end", "anchor", "block",
                     "subs", "sub", "refs", "sources", "cache", "txs", "channels"}
  /\ Fresh.st = NoBlobState /\ Fresh.target = 0 /\ Fresh.from = 0 /\ Fresh.end = 0
  /\ Fresh.txs = {} /\ Fresh.channels = {}
BY DEF Fresh

(* Every initial state satisfies the invariant.                                   *)
LEMMA InitBase == Init => BaseInv
<1> SUFFICES ASSUME Init PROVE BaseInv
  OBVIOUS
<1> USE InboxAssumption, BlobConfigAssumption
<1>1. tip = 0 /\ epoch = 0 /\ DOMAIN chain = 0..0
      /\ chain[0] = NewBlock([txs |-> {}, subs |-> {}], 0)
  BY DEF Init, ChainInit
<1>2. chain[0].e = 0 /\ chain[0].txs = {} /\ chain[0].subs = {}
  BY <1>1 DEF NewBlock
<1>3. ChainOK
  <2>1. \A k \in 0..tip : k = 0
    BY <1>1
  <2> QED
    BY <1>1, <1>2, <2>1 DEF ChainOK, WellFormed
<1>4. bstate = NoBlobState /\ txs = {} /\ channels = {} /\ index = {} /\ blocks = {}
      /\ txExpiry = {} /\ chExpiry = {}
  BY DEF Init, InitBlob
<1>5. CheckpointOK
  BY <1>4 DEF CheckpointOK, NoBlobState, Nil
<1>6. StoreInv
  <2>1. Coherent(txs, channels, index, blocks)
    BY <1>4 DEF Coherent, TxsKeyed, ChannelsKeyed, SourcesIn, IndexOf, BlocksOf
  <2>2. bstate.cutoff \in Nat /\ bstate.latest = LatestIndex(index)
    BY <1>4 DEF NoBlobState, LatestIndex
  <2> QED
    BY <1>4, <2>1, <2>2 DEF StoreInv, StoreOK, NumbersOK
<1>7. pc = "idle" /\ v = Fresh /\ ready = FALSE /\ fatal = FALSE /\ blobReady = FALSE /\ queued = 0
  BY DEF Init, StatusInit
<1>8. StepOK /\ FoundOK /\ AnchorOK
  BY <1>7, FreshFields DEF StepOK, FoundOK, AnchorOK, Idle, Preparing, Retaining, Scanning, Reading
<1>9. ReadyOK
  <2>1. queued \in 0..MaxQueued
    BY <1>7
  <2>2. ready \in BOOLEAN /\ fatal \in BOOLEAN /\ blobReady \in BOOLEAN /\ ~blobReady
    BY <1>7, Zenon
  <2> QED
    BY <2>1, <2>2, Zenon DEF ReadyOK
<1> QED
  BY <1>3, <1>5, <1>6, <1>8, <1>9 DEF BaseInv

(* What the store knows is a matter of the store alone.                           *)
LEMMA SameStore == StoreInv /\ UNCHANGED storeVars => StoreInv'
<1> SUFFICES ASSUME StoreInv, UNCHANGED storeVars PROVE StoreInv'
  OBVIOUS
<1>1. /\ txs' = txs /\ channels' = channels /\ index' = index /\ blocks' = blocks
      /\ txExpiry' = txExpiry /\ chExpiry' = chExpiry /\ bstate' = bstate
  BY DEF storeVars, dataVars
<1>2. Coherent(txs, channels, index, blocks)' <=> Coherent(txs, channels, index, blocks)
  BY <1>1 DEF Coherent, TxsKeyed, ChannelsKeyed, SourcesIn, IndexOf, BlocksOf
<1>3. LatestIndex(index)' = LatestIndex(index)
  BY <1>1 DEF LatestIndex
<1>4. {TxKey(t) : t \in txs}' = {TxKey(t) : t \in txs}
      /\ {ChannelKey(r) : r \in channels}' = {ChannelKey(r) : r \in channels}
  BY <1>1 DEF TxKey, ChannelKey
<1> QED
  BY <1>1, <1>2, <1>3, <1>4 DEF StoreInv, StoreOK, NumbersOK

(* What is known of remembered blocks changes with the chain only.                *)
LEMMA SameChain ==
  UNCHANGED chainVars =>
    /\ ChainOK' <=> ChainOK
    /\ \A c, h : (Tracked(c, h)' <=> Tracked(c, h)) /\ (Dead(c, h)' <=> Dead(c, h))
                 /\ (Live(c, h)' <=> Live(c, h))
BY DEF chainVars, ChainOK, Tracked, Dead, Live, HashAt, WellFormed, TxsUpto

(* The checkpoint is sound as long as neither it nor the chain changes.           *)
LEMMA SameCheckpoint ==
  CheckpointOK /\ UNCHANGED <<chainVars, bstate>> => CheckpointOK'
<1> SUFFICES ASSUME CheckpointOK, UNCHANGED <<chainVars, bstate>> PROVE CheckpointOK'
  OBVIOUS
<1>1. bstate' = bstate /\ UNCHANGED chainVars
  OBVIOUS
<1>2. Tracked(bstate.hash, bstate.height) => Tracked(bstate.hash, bstate.height)'
  BY <1>1, SameChain
<1> QED
  BY <1>1, <1>2 DEF CheckpointOK

(* A Step that ends leaves nothing behind.                                        *)
LEMMA ReturnOK ==
  ASSUME NEW l \in Idle, Return(l)
  PROVE  StepOK' /\ FoundOK' /\ AnchorOK'
<1>1. pc' = l /\ v' = Fresh /\ l \notin Preparing \cup Retaining \cup Scanning \cup {"plan", "publish"}
  BY DEF Return, Goto, Idle, Preparing, Retaining, Scanning, Reading
<1> QED
  BY <1>1, FreshFields, InboxAssumption DEF StepOK, FoundOK, AnchorOK, Scanning

(* A step that leaves chain and store alone leaves what is known of them.         *)
LEMMA QuietOK ==
  ASSUME BaseInv, UNCHANGED <<chainVars, storeVars>>
  PROVE  ChainOK' /\ CheckpointOK' /\ StoreInv' /\ bstate' = bstate
<1>1. UNCHANGED chainVars /\ UNCHANGED storeVars /\ bstate' = bstate
  BY DEF storeVars
<1> QED
  BY <1>1, SameChain, SameStore, SameCheckpoint DEF BaseInv

(* Readiness is kept by a step that does not begin to scan.                       *)
LEMMA ReadyKept ==
  ASSUME ReadyOK, UNCHANGED <<restVars, blobReady, bstate>>,
         blobReady => /\ pc' \notin Scanning \cup {"publish"}
                      /\ pc' \in Retaining \cup {"plan"} => v'.st.height >= v'.target
  PROVE  ReadyOK'
<1>1. ready' = ready /\ fatal' = fatal /\ queued' = queued /\ blobReady' = blobReady /\ bstate' = bstate
  BY DEF restVars
<1>2. /\ ready' \in BOOLEAN /\ fatal' \in BOOLEAN /\ blobReady' \in BOOLEAN
      /\ queued' \in 0..MaxQueued
  BY <1>1, Zenon DEF ReadyOK
<1>3. blobReady' => /\ pc' \notin Scanning \cup {"publish"}
                    /\ pc' \in Retaining \cup {"plan"} => v'.st.height >= v'.target
  <2>1. SUFFICES ASSUME blobReady'
                 PROVE  /\ pc' \notin Scanning \cup {"publish"}
                        /\ pc' \in Retaining \cup {"plan"} => v'.st.height >= v'.target
    OBVIOUS
  <2>2. blobReady
    BY <1>1, <2>1, Zenon
  <2> QED
    BY <2>2, Zenon
<1> QED
  BY <1>2, <1>3, Zenon DEF ReadyOK

(* Readiness is published anew by a step that knows where the worker is.          *)
LEMMA ReadySet ==
  ASSUME ReadyOK, NEW r, SetBlobReady(r), UNCHANGED <<restVars, bstate>>,
         pc' \notin Scanning \cup {"publish"},
         r /\ pc' \in Retaining \cup {"plan"} => v'.st.height >= v'.target
  PROVE  ReadyOK'
<1>1. /\ ready' = ready /\ fatal' = fatal /\ queued' = queued /\ bstate' = bstate
      /\ blobReady' = (r /\ ~fatal)
  BY DEF restVars, SetBlobReady
<1>2. blobReady' \in BOOLEAN /\ (blobReady' => r)
  BY <1>1, Zenon
<1>3. /\ ready' \in BOOLEAN /\ fatal' \in BOOLEAN /\ blobReady' \in BOOLEAN
      /\ queued' \in 0..MaxQueued
  BY <1>1, <1>2, Zenon DEF ReadyOK
<1>4. blobReady' => /\ pc' \notin Scanning \cup {"publish"}
                    /\ pc' \in Retaining \cup {"plan"} => v'.st.height >= v'.target
  BY <1>1, <1>2, Zenon
<1> QED
  BY <1>3, <1>4, Zenon DEF ReadyOK

(* The next check of checkpoint.                                                  *)
LEMMA AfterHeadIs ==
  ASSUME NEW l \in DOMAIN AfterHead
  PROVE  \/ l = "head1" /\ AfterHead[l] = "height1"
         \/ l = "head2" /\ AfterHead[l] = "height2"
         \/ l = "head3" /\ AfterHead[l] = "height3"
BY DEF AfterHead

(* Where the check of the checkpoint leads.                                       *)
LEMMA AfterHeightIs ==
  ASSUME NEW l \in DOMAIN AfterHeight
  PROVE  \/ l = "height1" /\ AfterHeight[l] = "tip"
         \/ l = "height2" /\ AfterHeight[l] = "retain"
         \/ l = "height3" /\ AfterHeight[l] = "commit"
BY DEF AfterHeight

(* The remembered blocks of an unchanged chain.                                   *)
LEMMA AnchorKept ==
  ASSUME BaseInv, UNCHANGED chainVars, v'.anchor = v.anchor, v'.end = v.end,
         v'.st = v.st, pc \in Reading, pc' \in Reading, pc' # "commit"
  PROVE  AnchorOK'
<1>1. Tracked(v.anchor, v.end) /\
      (Extends(v.anchor, v.st) \/ (v.st.height # Nil /\ Dead(v.st.hash, v.st.height)))
  BY DEF BaseInv, AnchorOK
<1>2. Tracked(v.anchor, v.end)'
  BY <1>1, SameChain
<1>3. Extends(v.anchor, v.st)' <=> Extends(v.anchor, v.st)
  BY DEF Extends
<1>4. Dead(v.st.hash, v.st.height) => Dead(v.st.hash, v.st.height)'
  BY SameChain
<1> QED
  BY <1>1, <1>2, <1>3, <1>4 DEF AnchorOK

(* checkpoint: the retention head.                                                *)
LEMMA CheckHeadOK == BaseInv /\ CheckHead => BaseInv'
<1> SUFFICES ASSUME BaseInv, CheckHead PROVE BaseInv'
  OBVIOUS
<1>1. ChainOK' /\ CheckpointOK' /\ StoreInv' /\ bstate' = bstate
  BY QuietOK DEF CheckHead
<1>2. /\ v' = v /\ pc' = AfterHead[pc] /\ pc \in DOMAIN AfterHead
      /\ UNCHANGED <<chainVars, restVars, blobReady>>
  BY DEF CheckHead, Goto
<1>3. \/ pc = "head1" /\ pc' = "height1"
      \/ pc = "head2" /\ pc' = "height2"
      \/ pc = "head3" /\ pc' = "height3"
  BY <1>2, AfterHeadIs
<1>4. StepOK' /\ FoundOK'
  BY <1>1, <1>2, <1>3 DEF BaseInv, StepOK, FoundOK, Idle, Preparing, Retaining, Scanning, Reading
<1>5. AnchorOK'
  <2>1. CASE pc' = "height3"
    BY <1>2, <1>3, <2>1, AnchorKept DEF Reading
  <2>2. CASE pc' # "height3"
    BY <1>3, <2>2 DEF AnchorOK, Reading
  <2> QED
    BY <2>1, <2>2
<1>6. ReadyOK'
  <2>1. blobReady => /\ pc' \notin Scanning \cup {"publish"}
                     /\ pc' \in Retaining \cup {"plan"} => v'.st.height >= v'.target
    BY <1>2, <1>3 DEF BaseInv, ReadyOK, Retaining, Scanning, Reading
  <2> QED
    BY <1>1, <1>2, <2>1, ReadyKept DEF BaseInv
<1> QED
  BY <1>1, <1>4, <1>5, <1>6 DEF BaseInv

(* checkpoint: the scanned block.  The last check finds it on the chain, so the   *)
(* window's last block descends from it.                                          *)
LEMMA CheckHeightOK == BaseInv /\ CheckHeight => BaseInv'
<1> SUFFICES ASSUME BaseInv, CheckHeight PROVE BaseInv'
  OBVIOUS
<1>1. ChainOK' /\ CheckpointOK' /\ StoreInv' /\ bstate' = bstate
  BY QuietOK DEF CheckHeight
<1>2. /\ v' = v /\ pc' = AfterHeight[pc] /\ pc \in DOMAIN AfterHeight
      /\ UNCHANGED <<chainVars, restVars, blobReady>>
  BY DEF CheckHeight, Goto
<1>3. \/ pc = "height1" /\ pc' = "tip"
      \/ pc = "height2" /\ pc' = "retain"
      \/ pc = "height3" /\ pc' = "commit"
  BY <1>2, AfterHeightIs
<1>4. StepOK' /\ FoundOK'
  BY <1>1, <1>2, <1>3 DEF BaseInv, StepOK, FoundOK, Idle, Preparing, Retaining, Scanning, Reading
<1>5. AnchorOK'
  <2>1. CASE pc' = "commit"
    <3>1. Tracked(v.anchor, v.end) /\ v.st = bstate /\
          (Extends(v.anchor, v.st) \/ (v.st.height # Nil /\ Dead(v.st.hash, v.st.height)))
      BY <1>3, <2>1 DEF BaseInv, AnchorOK, StepOK, Reading, Idle
    <3>2. v.st.height # Nil => ~Dead(v.st.hash, v.st.height)
      <4>1. SUFFICES ASSUME v.st.height # Nil PROVE ~Dead(v.st.hash, v.st.height)
        OBVIOUS
      <4>2. Live(v.st.hash, v.st.height)
        BY <4>1 DEF CheckHeight, Confirms, AnchorHolds, Live
      <4>3. WellFormed(v.st.hash, v.st.height) /\ ChainOK
        BY <3>1, <4>1 DEF BaseInv, CheckpointOK, Tracked
      <4> QED
        BY <4>2, <4>3, LiveNotDead
    <3>3. Tracked(v.anchor, v.end)'
      BY <1>2, <3>1, SameChain
    <3>4. Extends(v.anchor, v.st)'
      BY <1>2, <3>1, <3>2 DEF Extends
    <3> QED
      BY <3>3, <3>4 DEF AnchorOK
  <2>2. CASE pc' # "commit"
    BY <1>3, <2>2 DEF AnchorOK, Reading
  <2> QED
    BY <2>1, <2>2
<1>6. ReadyOK'
  <2>1. blobReady => /\ pc' \notin Scanning \cup {"publish"}
                     /\ pc' \in Retaining \cup {"plan"} => v'.st.height >= v'.target
    BY <1>2, <1>3 DEF BaseInv, ReadyOK, Retaining, Scanning, Reading
  <2> QED
    BY <1>1, <1>2, <2>1, ReadyKept DEF BaseInv
<1> QED
  BY <1>1, <1>4, <1>5, <1>6 DEF BaseInv

(* A Step that gives up.                                                          *)
LEMMA GivesUpOK ==
  ASSUME BaseInv, NEW l \in Idle, Return(l), UNCHANGED <<chainVars, storeVars, restVars, blobReady>>
  PROVE  BaseInv'
<1>1. ChainOK' /\ CheckpointOK' /\ StoreInv' /\ bstate' = bstate
  BY QuietOK
<1>2. StepOK' /\ FoundOK' /\ AnchorOK'
  BY ReturnOK
<1>3. pc' = l /\ l \notin Scanning \cup {"publish"} /\ l \notin Retaining \cup {"plan"}
  BY DEF Return, Goto, Idle, Scanning, Reading, Retaining
<1>4. ReadyOK'
  BY <1>1, <1>3, ReadyKept DEF BaseInv
<1> QED
  BY <1>1, <1>2, <1>4 DEF BaseInv

(* The beginning of a Step.                                                       *)
LEMMA StartStepOK == BaseInv /\ StartStep => BaseInv'
<1> SUFFICES ASSUME BaseInv, StartStep PROVE BaseInv'
  OBVIOUS
<1>0. UNCHANGED <<chainVars, storeVars, restVars, blobReady>>
  BY DEF StartStep
<1>1. CASE \E l \in {"stopped", "halt"} : Return(l)
  BY <1>0, <1>1, GivesUpOK DEF Idle
<1>2. CASE Goto("head1") /\ v' = [Fresh EXCEPT !.st = bstate]
  <2>1. ChainOK' /\ CheckpointOK' /\ StoreInv' /\ bstate' = bstate
    BY <1>0, QuietOK
  <2>2. pc' = "head1" /\ DOMAIN v' = DOMAIN Fresh /\ v'.st = bstate
        /\ v'.target = 0 /\ v'.end = 0 /\ v'.from = 0 /\ v'.txs = {} /\ v'.channels = {}
    BY <1>2, FreshFields DEF Goto
  <2>3. StepOK' /\ FoundOK' /\ AnchorOK'
    BY <2>1, <2>2, InboxAssumption
    DEF StepOK, FoundOK, AnchorOK, Idle, Preparing, Retaining, Scanning, Reading
  <2>4. pc' \notin Scanning \cup {"publish"} /\ pc' \notin Retaining \cup {"plan"}
    BY <2>2 DEF Scanning, Reading, Retaining
  <2>5. ReadyOK'
    BY <1>0, <2>1, <2>4, ReadyKept DEF BaseInv
  <2> QED
    BY <2>1, <2>3, <2>5 DEF BaseInv
<1> QED
  BY <1>1, <1>2 DEF StartStep

(* The confirmed block lies on the chain.                                         *)
LEMMA ConfirmedIn == ChainOK => Confirmed(tip) \in 0..MaxHeight /\ Confirmed(tip) <= tip
BY InboxAssumption, BlobConfigAssumption DEF ChainOK, WellFormed, Confirmed

(* The tip is read.                                                               *)
LEMMA ReadTipOK == BaseInv /\ ReadTip => BaseInv'
<1> SUFFICES ASSUME BaseInv, ReadTip PROVE BaseInv'
  OBVIOUS
<1>1. ChainOK' /\ CheckpointOK' /\ StoreInv' /\ bstate' = bstate
  BY QuietOK DEF ReadTip
<1>2. /\ pc = "tip" /\ pc' = "confirmed" /\ DOMAIN v' = DOMAIN v /\ v'.target = Confirmed(tip)
      /\ v'.st = v.st /\ v'.end = v.end /\ v'.from = v.from /\ v'.txs = v.txs
      /\ v'.channels = v.channels
  BY FreshFields DEF ReadTip, Goto, BaseInv, StepOK
<1>3. StepOK' /\ FoundOK' /\ AnchorOK'
  BY <1>1, <1>2, ConfirmedIn
  DEF BaseInv, StepOK, FoundOK, AnchorOK, Idle, Preparing, Retaining, Scanning, Reading
<1>4. pc' \notin Scanning \cup {"publish"} /\ pc' \notin Retaining \cup {"plan"}
  BY <1>2 DEF Scanning, Reading, Retaining
<1>5. ReadyOK'
  BY <1>1, <1>4, ReadyKept DEF BaseInv, ReadTip
<1> QED
  BY <1>1, <1>3, <1>5 DEF BaseInv

(* Readiness is published from the confirmed block, and a moved window starts the *)
(* retention commit.                                                              *)
LEMMA ReadConfirmedOK == BaseInv /\ ReadConfirmed => BaseInv'
<1> SUFFICES ASSUME BaseInv, ReadConfirmed PROVE BaseInv'
  OBVIOUS
<1>1. ChainOK' /\ CheckpointOK' /\ StoreInv' /\ bstate' = bstate
  BY QuietOK DEF ReadConfirmed
<1>2. /\ pc = "confirmed" /\ pc' = (IF Expiring THEN "target" ELSE "plan")
      /\ DOMAIN v' = DOMAIN v /\ v'.target = v.target
      /\ v'.st = v.st /\ v'.end = v.end /\ v'.from = v.from /\ v'.txs = v.txs
      /\ v'.channels = v.channels
  BY FreshFields DEF ReadConfirmed, Goto, BaseInv, StepOK
<1>3. v.st = bstate
  BY <1>2 DEF BaseInv, StepOK, Idle
<1>4. StepOK' /\ FoundOK' /\ AnchorOK'
  BY <1>1, <1>2, <1>3
  DEF BaseInv, StepOK, FoundOK, AnchorOK, Idle, Preparing, Retaining, Scanning, Reading, Expiring
<1>5. pc' \notin Scanning \cup {"publish"}
  BY <1>2 DEF Scanning, Reading
<1>6. Caught => v'.st.height >= v'.target
  BY <1>2 DEF Caught
<1>7. ReadyOK'
  BY <1>1, <1>5, <1>6, ReadySet DEF BaseInv, ReadConfirmed
<1> QED
  BY <1>1, <1>4, <1>7 DEF BaseInv

(* The confirmed block is checked before the retention commit.                    *)
LEMMA CheckTargetOK == BaseInv /\ CheckTarget => BaseInv'
<1> SUFFICES ASSUME BaseInv, CheckTarget PROVE BaseInv'
  OBVIOUS
<1>1. ChainOK' /\ CheckpointOK' /\ StoreInv' /\ bstate' = bstate
  BY QuietOK DEF CheckTarget
<1>2. pc = "target" /\ pc' = "head2" /\ v' = v
  BY DEF CheckTarget, Goto
<1>3. StepOK' /\ FoundOK' /\ AnchorOK'
  BY <1>1, <1>2
  DEF BaseInv, StepOK, FoundOK, AnchorOK, Idle, Preparing, Retaining, Scanning, Reading
<1>4. blobReady => /\ pc' \notin Scanning \cup {"publish"}
                   /\ pc' \in Retaining \cup {"plan"} => v'.st.height >= v'.target
  BY <1>2 DEF BaseInv, ReadyOK, Scanning, Reading, Retaining
<1>5. ReadyOK'
  BY <1>1, <1>4, ReadyKept DEF BaseInv, CheckTarget
<1> QED
  BY <1>1, <1>3, <1>5 DEF BaseInv

(* Nothing to scan.                                                               *)
LEMMA CaughtUpOK == BaseInv /\ CaughtUp => BaseInv'
<1> SUFFICES ASSUME BaseInv, CaughtUp PROVE BaseInv'
  OBVIOUS
<1>1. ChainOK' /\ CheckpointOK' /\ StoreInv' /\ bstate' = bstate
  BY QuietOK DEF CaughtUp
<1>2. StepOK' /\ FoundOK' /\ AnchorOK' /\ pc' = "wait"
  BY ReturnOK DEF CaughtUp, Idle, Return, Goto
<1>3. pc' \notin Scanning \cup {"publish"} /\ pc' \notin Retaining \cup {"plan"}
  BY <1>2 DEF Scanning, Reading, Retaining
<1>4. ReadyOK'
  BY <1>1, <1>3, ReadySet DEF BaseInv, CaughtUp
<1> QED
  BY <1>1, <1>2, <1>4 DEF BaseInv

(* The window starts after the scanned block and ends at the confirmed one or     *)
(* before it.                                                                     *)
LEMMA WindowIn ==
  ASSUME NEW f \in 0..MaxHeight, NEW t \in f..MaxHeight
  PROVE  WindowEnd(f, t) \in f..t
BY InboxAssumption, BlobConfigAssumption DEF WindowEnd

(* A window is opened after the checkpoint.                                       *)
LEMMA OpenWindowOK == BaseInv /\ OpenWindow => BaseInv'
<1> SUFFICES ASSUME BaseInv, OpenWindow PROVE BaseInv'
  OBVIOUS
<1>1. ChainOK' /\ CheckpointOK' /\ StoreInv' /\ bstate' = bstate
  BY QuietOK DEF OpenWindow
<1>2. /\ pc = "plan" /\ pc' = "anchor"
      /\ DOMAIN v' = DOMAIN v /\ v'.target = v.target /\ v'.st = v.st
      /\ v'.from = From(v.st) /\ v'.end = WindowEnd(From(v.st), v.target)
      /\ v'.txs = v.txs /\ v'.channels = v.channels
  BY FreshFields DEF OpenWindow, Goto, BaseInv, StepOK
<1>3. /\ v.st = bstate /\ ~Caught /\ Start <= v.target
      /\ v.target \in 0..MaxHeight /\ v.st.height \in Nil..MaxHeight
  BY <1>2 DEF BaseInv, StepOK, CheckpointOK, OpenWindow, Idle
<1>4. From(v.st) \in 0..MaxHeight /\ v.target \in From(v.st)..MaxHeight
  BY <1>3, InboxAssumption, BlobConfigAssumption DEF From, Caught, Nil
<1>5. v'.end \in From(v.st)..v.target
  BY <1>2, <1>4, WindowIn
<1>6. v'.end \in 0..MaxHeight /\ v'.from \in 0..MaxHeight + 1 /\ v'.from <= v'.end
  BY <1>2, <1>3, <1>4, <1>5, InboxAssumption
<1>7. StepOK'
  <2>1. From(v'.st) = From(v.st)
    BY <1>2
  <2> QED
    BY <1>1, <1>2, <1>3, <1>6, <2>1
    DEF StepOK, BaseInv, Idle, Preparing, Retaining, Scanning, Reading, From
<1>8. FoundOK' /\ AnchorOK'
  BY <1>2 DEF BaseInv, FoundOK, AnchorOK, Reading
<1>9. ~blobReady
  BY <1>2, <1>3 DEF BaseInv, ReadyOK, Caught
<1>10. ReadyOK'
  BY <1>1, <1>9, ReadyKept DEF BaseInv, OpenWindow
<1> QED
  BY <1>1, <1>7, <1>8, <1>10 DEF BaseInv

(* The window's last block: it descends from the scanned block, unless that one   *)
(* has left the chain.                                                            *)
LEMMA AnchorWindowOK == BaseInv /\ AnchorWindow => BaseInv'
<1> SUFFICES ASSUME BaseInv, AnchorWindow PROVE BaseInv'
  OBVIOUS
<1>1. ChainOK' /\ CheckpointOK' /\ StoreInv' /\ bstate' = bstate /\ UNCHANGED chainVars
  BY QuietOK DEF AnchorWindow
<1>2. /\ pc = "anchor" /\ pc' = "block" /\ v.end <= tip
      /\ DOMAIN v' = DOMAIN v /\ v'.target = v.target /\ v'.st = v.st
      /\ v'.from = v.from /\ v'.end = v.end /\ v'.anchor = HashAt(v.end)
      /\ v'.txs = v.txs /\ v'.channels = v.channels
  BY FreshFields DEF AnchorWindow, Goto, BaseInv, StepOK
<1>3. StepOK' /\ FoundOK'
  BY <1>1, <1>2
  DEF BaseInv, StepOK, FoundOK, Idle, Preparing, Retaining, Scanning, Reading, From
<1>4. v.st = bstate /\ v.from = From(v.st) /\ v.from <= v.end /\ v.end \in 0..MaxHeight
      /\ v.from \in 0..MaxHeight + 1 /\ v.st.height \in Nil..MaxHeight
  BY <1>2 DEF BaseInv, StepOK, CheckpointOK, Scanning, Idle
<1>5. v.end \in 0..tip /\ tip \in Nat
  BY <1>2, <1>4, InboxAssumption DEF BaseInv, ChainOK, WellFormed
<1>6. Tracked(HashAt(v.end), v.end)
  BY <1>5, LiveTracked DEF BaseInv
<1>7. Extends(HashAt(v.end), v.st) \/ (v.st.height # Nil /\ Dead(v.st.hash, v.st.height))
  <2>1. SUFFICES ASSUME v.st.height # Nil, ~Dead(v.st.hash, v.st.height)
                 PROVE  Extends(HashAt(v.end), v.st)
    BY DEF Extends
  <2>2. Live(v.st.hash, v.st.height)
    BY <1>4, <2>1 DEF BaseInv, CheckpointOK, Tracked
  <2>3. v.st.height \in Nat /\ v.st.height < v.end
    BY <1>4, <2>1, InboxAssumption DEF From, Nil
  <2>4. \A k \in 0..v.st.height : v.st.hash[k] = chain[k] /\ HashAt(v.end)[k] = chain[k]
    BY <1>5, <2>2, <2>3 DEF Live, HashAt
  <2> QED
    BY <2>4 DEF Extends
<1>8. AnchorOK'
  <2>1. Tracked(v.anchor, v.end)'
    BY <1>1, <1>2, <1>6, SameChain
  <2>2. Extends(v.anchor, v.st)' <=> Extends(HashAt(v.end), v.st)
    BY <1>2 DEF Extends
  <2>3. Dead(v.st.hash, v.st.height) => Dead(v.st.hash, v.st.height)'
    BY <1>1, <1>2, SameChain
  <2> QED
    BY <1>2, <1>7, <2>1, <2>2, <2>3 DEF AnchorOK
<1>9. ~blobReady
  BY <1>2 DEF BaseInv, ReadyOK, Scanning
<1>10. ReadyOK'
  BY <1>1, <1>9, ReadyKept DEF BaseInv, AnchorWindow
<1> QED
  BY <1>1, <1>3, <1>8, <1>10 DEF BaseInv

(* A step within the scan that keeps to its window.                               *)
LEMMA ReadingOK ==
  ASSUME BaseInv, UNCHANGED <<chainVars, storeVars, restVars, blobReady>>,
         pc \in Reading, pc' \in Reading \ {"commit"}, FoundOK',
         DOMAIN v' = DOMAIN v, v'.target = v.target, v'.st = v.st, v'.from = v.from,
         v'.end = v.end, v'.anchor = v.anchor
  PROVE  BaseInv'
<1>1. ChainOK' /\ CheckpointOK' /\ StoreInv' /\ bstate' = bstate /\ UNCHANGED chainVars
  BY QuietOK
<1>2. StepOK'
  <2>1. pc \notin Idle \cup {"publish"} /\ pc' \notin Idle \cup {"publish"}
        /\ pc \in Scanning /\ pc' \in Scanning /\ pc' \notin Retaining
    BY DEF Idle, Reading, Scanning, Retaining
  <2>2. From(v'.st) = From(v.st)
    OBVIOUS
  <2> QED
    BY <1>1, <2>1, <2>2 DEF BaseInv, StepOK, From
<1>3. AnchorOK'
  BY <1>1, AnchorKept
<1>4. ~blobReady
  BY DEF BaseInv, ReadyOK, Scanning
<1>5. ReadyOK'
  BY <1>1, <1>4, ReadyKept DEF BaseInv
<1> QED
  BY <1>1, <1>2, <1>3, <1>5 DEF BaseInv

(* scan reads a block and its receipts, and moves on.                             *)
LEMMA ReadBlockOK ==
  BaseInv /\ (ReadBlock \/ ReadReceipt \/ SkipFailed \/ NextBlock \/ CheckEnd) => BaseInv'
<1> SUFFICES ASSUME BaseInv, ReadBlock \/ ReadReceipt \/ SkipFailed \/ NextBlock \/ CheckEnd
             PROVE  BaseInv'
  OBVIOUS
<1>1. /\ UNCHANGED <<chainVars, storeVars, restVars, blobReady>>
      /\ pc \in Reading /\ pc' \in Reading \ {"commit"}
      /\ DOMAIN v' = DOMAIN v /\ v'.target = v.target /\ v'.st = v.st /\ v'.from = v.from
      /\ v'.end = v.end /\ v'.anchor = v.anchor /\ v'.txs = v.txs /\ v'.channels = v.channels
  <2>0. DOMAIN v = DOMAIN Fresh
    BY DEF BaseInv, StepOK
  <2>1. CASE ReadBlock
    BY <2>0, <2>1, FreshFields DEF ReadBlock, Goto, Reading
  <2>2. CASE ReadReceipt
    BY <2>0, <2>2, FreshFields DEF ReadReceipt, Goto, Reading
  <2>3. CASE NextBlock
    BY <2>0, <2>3, FreshFields DEF NextBlock, Goto, Reading
  <2>4. CASE CheckEnd
    BY <2>0, <2>4, FreshFields DEF CheckEnd, Goto, Reading
  <2>5. CASE SkipFailed
    BY <2>0, <2>5, FreshFields DEF SkipFailed, Reading
  <2> QED
    BY <2>1, <2>2, <2>3, <2>4, <2>5
<1>2. FoundOK'
  BY <1>1 DEF BaseInv, FoundOK
<1> QED
  BY <1>1, <1>2, ReadingOK

(* A transaction that is found is in a block of the chain.                        *)
LEMMA LocationIn ==
  ASSUME NEW t, Located(t)
  PROVE  Location(t) \in 0..tip /\ t \in chain[Location(t)].txs
BY DEF Located, Location

(* A source of a submission is found or fetched.                                  *)
LEMMA ResolveSourceOK == BaseInv /\ ResolveSource => BaseInv'
<1> SUFFICES ASSUME BaseInv, ResolveSource PROVE BaseInv'
  OBVIOUS
<1>0. DOMAIN v = DOMAIN Fresh
  BY DEF BaseInv, StepOK
<1>1. PICK x, isNew : Use(x, isNew) /\ (isNew => x.time \in Nat)
  <2>1. PICK t \in v.refs : ReuseSource(t) \/ \E missing \in BOOLEAN : FetchSource(t, missing)
    BY DEF ResolveSource
  <2>2. CASE ReuseSource(t)
    <3>1. PICK x \in Known(t) : Use(x, FALSE)
      BY <2>2 DEF ReuseSource
    <3> QED
      BY <3>1, Zenon
  <2>3. ASSUME NEW missing \in BOOLEAN, FetchSource(t, missing)
        PROVE  \E x, isNew : Use(x, isNew) /\ (isNew => x.time \in Nat)
    <3>1. Located(t) /\ Use(Fetched(t, missing), TRUE)
      BY <2>3 DEF FetchSource
    <3>2. Fetched(t, missing).time = Location(t)
      BY DEF Fetched, Time
    <3>3. Fetched(t, missing).time \in Nat
      BY <3>1, <3>2, LocationIn, InboxAssumption DEF BaseInv, ChainOK, WellFormed
    <3> QED
      BY <3>1, <3>3, Zenon
  <2> QED
    BY <2>1, <2>2, <2>3
<1>2. /\ UNCHANGED <<chainVars, storeVars, restVars, blobReady>>
      /\ pc = "refs" /\ pc' = "refs"
  BY DEF ResolveSource
<1>3. /\ DOMAIN v' = DOMAIN v /\ v'.target = v.target /\ v'.st = v.st /\ v'.from = v.from
      /\ v'.end = v.end /\ v'.anchor = v.anchor /\ v'.channels = v.channels
      /\ v'.txs = IF isNew /\ x.time >= v.st.cutoff THEN v.txs \cup {x} ELSE v.txs
  BY <1>0, <1>1, FreshFields DEF Use
<1>4. FoundOK'
  BY <1>1, <1>3 DEF BaseInv, FoundOK
<1> QED
  BY <1>2, <1>3, <1>4, ReadingOK DEF Reading

(* A decoded channel has the blocks of its payload.                               *)
LEMMA ChannelBlocks ==
  ASSUME NEW c, NEW S, NEW sub
  PROVE  /\ DOMAIN Channel(c, S, sub).blocks = DOMAIN Payload[c]
         /\ \A i \in DOMAIN Payload[c] :
              Channel(c, S, sub).blocks[i] =
                [index |-> Payload[c][i].index, batch |-> sub.batch, queue |-> Payload[c][i].queue]
         /\ Channel(c, S, sub).batch = sub.batch
         /\ Channel(c, S, sub).id = <<sub.tx, c>>
BY DEF Channel

(* The channels of a submission are made of its own sources.                      *)
LEMMA DecodedWellMade ==
  ASSUME NEW S, NEW sub, NEW d \in Decoded(S, sub)
  PROVE  WellMade(d)
<1>1. PICK c \in DOMAIN EndOf : d = Channel(c, S, sub)
  BY DEF Decoded
<1>2. Payload[c] \in Seq([index : Nat, queue : Seq(Nat)]) /\ c \in DOMAIN Payload
  BY InboxAssumption
<1>3. \A i \in DOMAIN Payload[c] : Payload[c][i].queue \in Seq(Nat)
  <2> DEFINE B == [index : Nat, queue : Seq(Nat)]
  <2>1. \A b \in B : b.queue \in Seq(Nat)
    OBVIOUS
  <2>2. Payload[c] \in Seq(B)
    BY <1>2
  <2> HIDE DEF B
  <2>3. \A i \in DOMAIN Payload[c] : Payload[c][i] \in B
    BY <2>2
  <2> QED
    BY <2>1, <2>3
<1>4. \A b \in Elems(d.blocks) : b.batch = d.batch /\ b.queue \in Seq(Nat)
  <2>1. ASSUME NEW i \in DOMAIN d.blocks
        PROVE  d.blocks[i].batch = d.batch /\ d.blocks[i].queue \in Seq(Nat)
    <3>1. d.blocks[i] = [index |-> Payload[c][i].index, batch |-> sub.batch,
                         queue |-> Payload[c][i].queue] /\ i \in DOMAIN Payload[c]
      BY <1>1, ChannelBlocks
    <3> QED
      BY <1>1, <1>3, <3>1, ChannelBlocks
  <2> QED
    BY <2>1 DEF Elems
<1>5. ASSUME DistinctBlocks PROVE Injective(Record(d).numbers)
  <2>1. /\ DOMAIN Record(d).numbers = DOMAIN d.blocks
        /\ \A i \in DOMAIN d.blocks : Record(d).numbers[i] = d.blocks[i].index
    BY DEF Record
  <2>2. \A i \in DOMAIN d.blocks : i \in DOMAIN Payload[c] /\ d.blocks[i].index = Payload[c][i].index
    <3>1. ASSUME NEW i \in DOMAIN d.blocks
          PROVE  /\ i \in DOMAIN Payload[c]
                 /\ d.blocks[i] = [index |-> Payload[c][i].index, batch |-> sub.batch,
                                   queue |-> Payload[c][i].queue]
      BY <1>1, ChannelBlocks
    <3>2. ASSUME NEW i \in DOMAIN d.blocks
          PROVE  d.blocks[i].index = Payload[c][i].index
      <4>1. d.blocks[i] = [index |-> Payload[c][i].index, batch |-> sub.batch,
                           queue |-> Payload[c][i].queue]
        BY <3>1
      <4> QED
        BY <4>1
    <3> QED
      BY <3>1, <3>2
  <2>3. \A i, j \in DOMAIN Payload[c] : Payload[c][i].index = Payload[c][j].index => i = j
    BY <1>2, <1>5 DEF DistinctBlocks
  <2>4. SUFFICES ASSUME NEW i \in DOMAIN d.blocks, NEW j \in DOMAIN d.blocks,
                        Record(d).numbers[i] = Record(d).numbers[j]
                 PROVE  i = j
    BY <2>1, Zenon DEF Injective
  <2> QED
    BY <2>1, <2>2, <2>3, <2>4
<1> QED
  BY <1>4, <1>5 DEF WellMade

(* The channels of a submission are decoded.                                      *)
LEMMA DecodeChannelsOK == BaseInv /\ DecodeChannels => BaseInv'
<1> SUFFICES ASSUME BaseInv, DecodeChannels PROVE BaseInv'
  OBVIOUS
<1>1. /\ UNCHANGED <<chainVars, storeVars, restVars, blobReady>>
      /\ pc = "refs" /\ pc' = "subs"
  BY DEF DecodeChannels, Goto
<1>2. /\ DOMAIN v' = DOMAIN v /\ v'.target = v.target /\ v'.st = v.st /\ v'.from = v.from
      /\ v'.end = v.end /\ v'.anchor = v.anchor /\ v'.txs = v.txs
      /\ v'.channels = v.channels \cup Decoded(v.sources, v.sub)
  BY FreshFields DEF DecodeChannels, BaseInv, StepOK
<1>3. FoundOK'
  BY <1>2, DecodedWellMade DEF BaseInv, FoundOK
<1> QED
  BY <1>1, <1>2, <1>3, ReadingOK DEF Reading

(* The end of a Step that scanned a window.                                       *)
LEMMA PublishOK == BaseInv /\ Publish => BaseInv'
<1> SUFFICES ASSUME BaseInv, Publish PROVE BaseInv'
  OBVIOUS
<1>1. ChainOK' /\ CheckpointOK' /\ StoreInv' /\ bstate' = bstate
  BY QuietOK DEF Publish
<1>2. StepOK' /\ FoundOK' /\ AnchorOK' /\ pc' \in {"wait", "idle"}
  BY ReturnOK DEF Publish, Idle, Return, Goto
<1>3. pc' \notin Scanning \cup {"publish"} /\ pc' \notin Retaining \cup {"plan"}
  BY <1>2 DEF Scanning, Reading, Retaining
<1>4. ReadyOK'
  BY <1>1, <1>3, ReadySet DEF BaseInv, Publish
<1> QED
  BY <1>1, <1>2, <1>4 DEF BaseInv

(* The ways in which a Step gives up.                                             *)
LEMMA FailureOK ==
  BaseInv /\ (ScanInvalid \/ AnchorChanged \/ CommitRejected \/ CommitRefused
              \/ CallFails \/ BeaconFails \/ BadAnswer) => BaseInv'
<1> SUFFICES ASSUME BaseInv, ScanInvalid \/ AnchorChanged \/ CommitRejected \/ CommitRefused
                             \/ CallFails \/ BeaconFails \/ BadAnswer
             PROVE  BaseInv'
  OBVIOUS
<1>1. /\ Return("halt") \/ Return("retry")
      /\ UNCHANGED <<chainVars, storeVars, restVars, blobReady>>
  BY DEF ScanInvalid, AnchorChanged, CommitRejected, CommitRefused, CallFails, BeaconFails, BadAnswer
<1> QED
  BY <1>1, GivesUpOK DEF Idle

(* Between Steps the worker is at one of a few places.                            *)
LEMMA IdleOK ==
  ASSUME BaseInv, pc \in Idle, pc' \in Idle, v' = v, UNCHANGED <<chainVars, storeVars>>
  PROVE  StepOK' /\ FoundOK' /\ AnchorOK'
<1>1. pc' \notin Preparing \cup Retaining \cup Scanning \cup {"plan", "publish"}
  BY DEF Idle, Preparing, Retaining, Scanning, Reading
<1> QED
  BY <1>1 DEF BaseInv, StepOK, FoundOK, AnchorOK, Scanning

(* Run waits and starts the next Step.                                            *)
LEMMA RetryOK == BaseInv /\ (Retry \/ Poll) => BaseInv'
<1> SUFFICES ASSUME BaseInv, Retry \/ Poll PROVE BaseInv'
  OBVIOUS
<1>1. ChainOK' /\ CheckpointOK' /\ StoreInv' /\ bstate' = bstate
      /\ UNCHANGED <<chainVars, storeVars, restVars>>
  BY QuietOK DEF Retry, Poll
<1>2. pc \in Idle /\ pc' \in Idle /\ v' = v
  BY DEF Retry, Poll, Goto, Idle
<1>3. StepOK' /\ FoundOK' /\ AnchorOK'
  BY <1>1, <1>2, IdleOK
<1>4. pc' \notin Scanning \cup {"publish"} /\ pc' \notin Retaining \cup {"plan"}
  BY <1>2 DEF Scanning, Reading, Retaining, Idle
<1>5. ReadyOK'
  <2>1. CASE Retry
    <3>1. SetBlobReady(FALSE) /\ ReadyOK /\ UNCHANGED <<restVars, bstate>>
      BY <1>1, <2>1 DEF BaseInv, Retry
    <3> QED
      BY <1>4, <3>1, ReadySet, Zenon
  <2>2. CASE Poll
    BY <1>1, <1>4, <2>2, ReadyKept DEF BaseInv, Poll
  <2> QED
    BY <2>1, <2>2
<1> QED
  BY <1>1, <1>3, <1>5 DEF BaseInv

(* A fatal error, published by this worker or another part.                       *)
LEMMA FatalOK == BaseInv /\ (Halt \/ FatalElsewhere) => BaseInv'
<1> SUFFICES ASSUME BaseInv, Halt \/ FatalElsewhere PROVE BaseInv'
  OBVIOUS
<1>1. ChainOK' /\ CheckpointOK' /\ StoreInv' /\ bstate' = bstate
      /\ UNCHANGED <<chainVars, storeVars>> /\ queued' = queued /\ v' = v
  BY QuietOK DEF Halt, FatalElsewhere
<1>2. ready' \in BOOLEAN /\ fatal' \in BOOLEAN
  <2>1. fatal' = (fatal \/ TRUE) /\ ready' = (FALSE /\ ~fatal')
    BY Zenon DEF Halt, FatalElsewhere, Set
  <2> QED
    BY <2>1, Zenon
<1>3. CASE Halt
  <2>1. pc \in Idle /\ pc' \in Idle
    BY <1>3 DEF Halt, Goto, Idle
  <2>2. StepOK' /\ FoundOK' /\ AnchorOK'
    BY <1>1, <2>1, IdleOK
  <2>3. blobReady' \in BOOLEAN /\ ~blobReady'
    BY <1>3 DEF Halt, SetBlobReady
  <2>4. ReadyOK'
    <3>1. queued' \in 0..MaxQueued
      BY <1>1 DEF BaseInv, ReadyOK
    <3> QED
      BY <1>2, <2>3, <3>1, Zenon DEF ReadyOK
  <2> QED
    BY <1>1, <2>2, <2>4 DEF BaseInv
<1>4. CASE FatalElsewhere
  <2>1. pc' = pc /\ blobReady' = blobReady
    BY <1>4 DEF FatalElsewhere
  <2>2. StepOK' /\ FoundOK'
    BY <1>1, <2>1 DEF BaseInv, StepOK, FoundOK, From
  <2>3. AnchorOK'
    <3>1. /\ Tracked(v.anchor, v.end) => Tracked(v.anchor, v.end)'
          /\ Dead(v.st.hash, v.st.height) => Dead(v.st.hash, v.st.height)'
      BY <1>1, SameChain
    <3>2. Extends(v.anchor, v.st)' <=> Extends(v.anchor, v.st)
      BY <1>1 DEF Extends
    <3> QED
      BY <1>1, <2>1, <3>1, <3>2 DEF BaseInv, AnchorOK
  <2>4. ReadyOK'
    <3>1. queued' \in 0..MaxQueued /\ blobReady' \in BOOLEAN
      BY <1>1, <2>1 DEF BaseInv, ReadyOK
    <3>2. SUFFICES ASSUME blobReady'
                   PROVE  /\ pc' \notin Scanning \cup {"publish"}
                          /\ pc' \in Retaining \cup {"plan"} => v'.st.height >= v'.target
      BY <1>2, <3>1, Zenon DEF ReadyOK
    <3>3. blobReady
      BY <2>1, <3>2, Zenon
    <3> QED
      BY <1>1, <2>1, <3>3 DEF BaseInv, ReadyOK
  <2> QED
    BY <1>1, <2>2, <2>3, <2>4 DEF BaseInv
<1> QED
  BY <1>3, <1>4

(* Nothing changes.                                                               *)
LEMMA StutterOK == BaseInv /\ UNCHANGED vars => BaseInv'
<1> SUFFICES ASSUME BaseInv, UNCHANGED vars PROVE BaseInv'
  OBVIOUS
<1>0. UNCHANGED <<chainVars, storeVars, restVars, blobReady>> /\ v' = v /\ pc' = pc /\ bstate' = bstate
  BY DEF vars, chainVars, storeVars, dataVars, restVars
<1>1. ChainOK' /\ CheckpointOK' /\ StoreInv'
  BY <1>0, QuietOK
<1>2. StepOK' /\ FoundOK'
  BY <1>0 DEF BaseInv, StepOK, FoundOK, From
<1>3. AnchorOK'
  <2>1. /\ Tracked(v.anchor, v.end) => Tracked(v.anchor, v.end)'
        /\ Dead(v.st.hash, v.st.height) => Dead(v.st.hash, v.st.height)'
    BY <1>0, SameChain
  <2>2. Extends(v.anchor, v.st)' <=> Extends(v.anchor, v.st)
    BY <1>0 DEF Extends
  <2> QED
    BY <1>0, <2>1, <2>2 DEF BaseInv, AnchorOK
<1>4. blobReady => /\ pc' \notin Scanning \cup {"publish"}
                   /\ pc' \in Retaining \cup {"plan"} => v'.st.height >= v'.target
  BY <1>0 DEF BaseInv, ReadyOK
<1>5. ReadyOK'
  BY <1>0, <1>4, ReadyKept DEF BaseInv
<1> QED
  BY <1>1, <1>2, <1>3, <1>5 DEF BaseInv

(* The deposit worker stores a deposit.                                           *)
LEMMA DepositStoredOK == BaseInv /\ DepositStored => BaseInv'
<1> SUFFICES ASSUME BaseInv, DepositStored PROVE BaseInv'
  OBVIOUS
<1>0. /\ UNCHANGED <<chainVars, storeVars>> /\ v' = v /\ pc' = pc /\ blobReady' = blobReady
      /\ ready' = ready /\ fatal' = fatal /\ queued' \in 0..MaxQueued
  BY BlobConfigAssumption DEF DepositStored, BaseInv, ReadyOK
<1>1. ChainOK' /\ CheckpointOK' /\ StoreInv' /\ bstate' = bstate
  BY <1>0, QuietOK
<1>2. StepOK' /\ FoundOK'
  BY <1>0, <1>1 DEF BaseInv, StepOK, FoundOK, From
<1>3. AnchorOK'
  <2>1. /\ Tracked(v.anchor, v.end) => Tracked(v.anchor, v.end)'
        /\ Dead(v.st.hash, v.st.height) => Dead(v.st.hash, v.st.height)'
    BY <1>0, SameChain
  <2>2. Extends(v.anchor, v.st)' <=> Extends(v.anchor, v.st)
    BY <1>0 DEF Extends
  <2> QED
    BY <1>0, <2>1, <2>2 DEF BaseInv, AnchorOK
<1>4. ReadyOK'
  <2>1. ready' \in BOOLEAN /\ fatal' \in BOOLEAN /\ blobReady' \in BOOLEAN
    BY <1>0, Zenon DEF BaseInv, ReadyOK
  <2>2. SUFFICES ASSUME blobReady'
                 PROVE  /\ pc' \notin Scanning \cup {"publish"}
                        /\ pc' \in Retaining \cup {"plan"} => v'.st.height >= v'.target
    BY <1>0, <2>1, Zenon DEF ReadyOK
  <2>3. blobReady
    BY <1>0, <2>2, Zenon
  <2> QED
    BY <1>0, <1>1, <2>3 DEF BaseInv, ReadyOK
<1> QED
  BY <1>1, <1>2, <1>3, <1>4 DEF BaseInv

(* The process is started again.                                                  *)
LEMMA RestartOK == BaseInv /\ Restart => BaseInv'
<1> SUFFICES ASSUME BaseInv, Restart PROVE BaseInv'
  OBVIOUS
<1>1. ChainOK' /\ CheckpointOK' /\ StoreInv' /\ bstate' = bstate
  BY QuietOK DEF Restart
<1>2. StepOK' /\ FoundOK' /\ AnchorOK'
  BY ReturnOK DEF Restart, Idle
<1>3. queued' \in 0..MaxQueued
  BY DEF Restart, BaseInv, ReadyOK
<1>4. ready' = FALSE /\ fatal' = FALSE /\ blobReady' = FALSE
  BY DEF Restart
<1>5. ReadyOK'
  BY <1>3, <1>4, Zenon DEF ReadyOK
<1> QED
  BY <1>1, <1>2, <1>5 DEF BaseInv

(* The chain grows or is reorganised.                                             *)
LEMMA ChainStepOK == BaseInv /\ Chain => BaseInv'
<1> SUFFICES ASSUME BaseInv, Chain PROVE BaseInv'
  OBVIOUS
<1>0. ChainNext /\ UNCHANGED <<storeVars, restVars, blobReady>> /\ v' = v /\ pc' = pc /\ ChainOK
  BY DEF Chain, BaseInv
<1>1. ChainOK'
  BY <1>0, MineWellFormed, ReorgWellFormed DEF ChainNext
<1>2. StoreInv' /\ bstate' = bstate
  BY <1>0, SameStore DEF BaseInv, storeVars
<1>3. ASSUME NEW c, NEW h, Tracked(c, h)
      PROVE  WellFormed(c, h) /\ (Live(c, h)' \/ Dead(c, h)')
  BY <1>0, <1>3, TrackedStep DEF Tracked
<1>4. \A c, h : WellFormed(c, h)' <=> WellFormed(c, h)
  BY DEF WellFormed, TxsUpto
<1>5. \A c, h : Tracked(c, h) => Tracked(c, h)'
  BY <1>3, <1>4 DEF Tracked
<1>6. CheckpointOK'
  <2>1. Tracked(bstate.hash, bstate.height) => Tracked(bstate.hash, bstate.height)'
    BY <1>2, <1>5
  <2> QED
    BY <1>2, <2>1 DEF BaseInv, CheckpointOK
<1>7. StepOK' /\ FoundOK'
  BY <1>0, <1>2 DEF BaseInv, StepOK, FoundOK, From
<1>8. AnchorOK'
  <2>1. Tracked(v.anchor, v.end) => Tracked(v.anchor, v.end)'
    BY <1>0, <1>5
  <2>2. SUFFICES ASSUME pc \in Reading PROVE AnchorOK'
    BY <1>0 DEF AnchorOK
  <2>3. v.st.height # Nil /\ Dead(v.st.hash, v.st.height) => Dead(v.st.hash, v.st.height)'
    <3>1. v.st = bstate
      BY <2>2 DEF BaseInv, StepOK, Reading, Idle
    <3>2. v.st.height # Nil => WellFormed(v.st.hash, v.st.height)
      BY <3>1 DEF BaseInv, CheckpointOK, Tracked
    <3> QED
      BY <1>0, <3>2, TrackedStep
  <2>4. Extends(v.anchor, v.st)' <=> Extends(v.anchor, v.st)
    BY <1>0 DEF Extends
  <2> QED
    BY <1>0, <2>1, <2>2, <2>3, <2>4 DEF BaseInv, AnchorOK
<1>9. blobReady => /\ pc' \notin Scanning \cup {"publish"}
                   /\ pc' \in Retaining \cup {"plan"} => v'.st.height >= v'.target
  BY <1>0 DEF BaseInv, ReadyOK
<1>10. ReadyOK'
  BY <1>0, <1>2, <1>9, ReadyKept DEF BaseInv
<1> QED
  BY <1>1, <1>2, <1>6, <1>7, <1>8, <1>10 DEF BaseInv

(* A commit of well-made data leaves a sound store.                               *)
LEMMA CommitStore ==
  ASSUME StoreInv, NEW before, NEW after, NEW T, NEW C, CommitBlob(before, after, T, C),
         DOMAIN after = DOMAIN NoBlobState, after.cutoff \in Nat,
         \A t \in T : t.time \in Nat, \A c \in C : WellMade(c)
  PROVE  StoreInv'
<1> DEFINE N == NewTxs(T, after.cutoff)
           K == NewChannels(C, after.cutoff)
<1>1. /\ StoreOK'
      /\ \A r : r \in channels' <=> r \in ChannelsWith(K) /\ after.cutoff <= r.expires
  BY CommitLeaves DEF StoreInv
<1>2. NumbersOK'
  <2>1. SUFFICES ASSUME DistinctBlocks, NEW r \in channels' PROVE Injective(r.numbers)
    BY DEF NumbersOK
  <2>2. r \in channels \/ \E c \in C : r = Record(c)
    BY <1>1 DEF ChannelsWith, NewChannels
  <2> QED
    BY <2>1, <2>2 DEF StoreInv, NumbersOK, WellMade
<1> QED
  BY <1>1, <1>2 DEF StoreInv

(* The checkpoint that a commit writes.                                           *)
LEMMA StateFields ==
  DOMAIN NoBlobState = {"revision", "height", "hash", "cutoff", "retHeight", "retHash", "latest"}
BY DEF NoBlobState

(* The cutoff lies at or below the block it is taken from.                        *)
LEMMA CutoffIn ==
  ASSUME NEW h \in 0..MaxHeight
  PROVE  Cutoff(h) \in 0..MaxHeight
BY InboxAssumption, BlobConfigAssumption DEF Cutoff, Time

(* The retention commit.                                                          *)
LEMMA RetentionCommit ==
  ASSUME BaseInv, pc = "retain", CommitBlob(v.st, Retained, {}, {}), UNCHANGED chainVars
  PROVE  /\ ChainOK' /\ StoreInv' /\ CheckpointOK'
         /\ bstate'.height = bstate.height /\ bstate'.hash = bstate.hash
         /\ bstate'.cutoff = Cutoff(v.target)
<1>1. v.st = bstate /\ v.target \in 0..MaxHeight /\ Cutoff(v.target) > v.st.cutoff
  BY DEF BaseInv, StepOK, Retaining, Idle
<1>2. DOMAIN bstate = DOMAIN NoBlobState
  BY DEF BaseInv, CheckpointOK
<1>3. /\ DOMAIN Retained = DOMAIN NoBlobState
      /\ Retained.cutoff = Cutoff(v.target) /\ Retained.height = bstate.height
      /\ Retained.hash = bstate.hash /\ Retained.retHeight = v.target
  BY <1>1, <1>2, StateFields DEF Retained
<1>4. Cutoff(v.target) \in 0..MaxHeight
  BY <1>1, CutoffIn
<1>5. StoreInv'
  <2>1. Retained.cutoff \in Nat
    BY <1>3, <1>4, InboxAssumption
  <2> QED
    BY <1>3, <2>1, CommitStore DEF BaseInv
<1>6. /\ DOMAIN bstate' = DOMAIN NoBlobState /\ bstate'.height = bstate.height
      /\ bstate'.hash = bstate.hash /\ bstate'.cutoff = Cutoff(v.target)
      /\ bstate'.retHeight = v.target /\ bstate'.revision = bstate.revision + 1
  BY <1>1, <1>3, StateFields DEF CommitBlob
<1>7. CheckpointOK'
  <2>1. Tracked(bstate.hash, bstate.height) => Tracked(bstate.hash, bstate.height)'
    BY <1>6, SameChain
  <2>2. CheckpointOK
    BY DEF BaseInv
  <2>3. v.target \in Nil..MaxHeight
    BY <1>1, InboxAssumption DEF Nil
  <2>4. /\ bstate'.revision \in Nat
        /\ bstate'.revision <= bstate'.height + 1 + bstate'.cutoff
    <3>1. /\ bstate.revision \in Nat /\ bstate.height \in Int /\ bstate.cutoff \in Nat
          /\ bstate.revision <= bstate.height + 1 + bstate.cutoff
      BY <2>2, InboxAssumption DEF CheckpointOK, Nil
    <3>2. Cutoff(v.target) \in Nat /\ bstate.cutoff + 1 <= Cutoff(v.target)
      BY <1>1, <1>4, <3>1, InboxAssumption
    <3> QED
      BY <1>6, <3>1, <3>2
  <2> QED
    BY <1>4, <1>6, <2>1, <2>2, <2>3, <2>4 DEF CheckpointOK
<1> QED
  BY <1>5, <1>6, <1>7, SameChain DEF BaseInv

(* The commit of a scan.                                                          *)
LEMMA ScanCommit ==
  ASSUME BaseInv, pc = "commit", CommitBlob(v.st, Scanned, v.txs, v.channels),
         UNCHANGED chainVars
  PROVE  /\ ChainOK' /\ StoreInv' /\ CheckpointOK'
         /\ bstate'.height = v.end /\ bstate'.hash = v.anchor
         /\ bstate'.cutoff = bstate.cutoff /\ bstate.height < v.end
<1>1. /\ v.st = bstate /\ v.end \in 0..MaxHeight /\ v.from = From(v.st) /\ v.from <= v.end
      /\ bstate.height \in Nil..MaxHeight /\ bstate.cutoff \in 0..MaxHeight
  BY DEF BaseInv, StepOK, Scanning, Reading, Idle, CheckpointOK
<1>2. DOMAIN bstate = DOMAIN NoBlobState
  BY DEF BaseInv, CheckpointOK
<1>3. /\ DOMAIN Scanned = DOMAIN NoBlobState
      /\ Scanned.cutoff = bstate.cutoff /\ Scanned.height = v.end
      /\ Scanned.hash = v.anchor /\ Scanned.retHeight = bstate.retHeight
  BY <1>1, <1>2, StateFields DEF Scanned
<1>4. StoreInv'
  <2>1. Scanned.cutoff \in Nat
    BY <1>1, <1>3, InboxAssumption
  <2> QED
    BY <1>3, <2>1, CommitStore DEF BaseInv, FoundOK
<1>5. /\ DOMAIN bstate' = DOMAIN NoBlobState /\ bstate'.height = v.end
      /\ bstate'.hash = v.anchor /\ bstate'.cutoff = bstate.cutoff
      /\ bstate'.retHeight = bstate.retHeight /\ bstate'.revision = bstate.revision + 1
  BY <1>1, <1>3, StateFields DEF CommitBlob
<1>6. bstate.height < v.end /\ Start <= v.end
  BY <1>1, InboxAssumption, BlobConfigAssumption DEF BaseInv, CheckpointOK, From, Nil
<1>7. CheckpointOK'
  <2>1. Tracked(bstate.hash, bstate.height)'
    <3>1. Tracked(v.anchor, v.end)
      BY DEF BaseInv, AnchorOK, Reading
    <3> QED
      BY <1>5, <3>1, SameChain
  <2>2. bstate.revision \in Nat /\ bstate.revision <= bstate.height + 1 + bstate.cutoff
        /\ bstate.retHeight \in Nil..MaxHeight
    BY DEF BaseInv, CheckpointOK
  <2>3. bstate.revision + 1 <= v.end + 1 + bstate.cutoff /\ v.end \in Nil..MaxHeight
        /\ bstate.revision + 1 \in Nat /\ v.end # Nil
    <3>1. \A r \in Nat, h, e, u \in Int : r <= h + 1 + u /\ h < e => r + 1 <= e + 1 + u
      OBVIOUS
    <3>2. bstate.height \in Int /\ v.end \in Int /\ bstate.cutoff \in Int
      BY <1>1, InboxAssumption DEF Nil
    <3>3. bstate.revision + 1 <= v.end + 1 + bstate.cutoff
      BY <1>6, <2>2, <3>1, <3>2
    <3>4. v.end \in Nil..MaxHeight /\ v.end # Nil
      BY <1>1, InboxAssumption DEF Nil
    <3> QED
      BY <2>2, <3>3, <3>4
  <2> QED
    BY <1>1, <1>5, <1>6, <2>1, <2>2, <2>3 DEF CheckpointOK
<1> QED
  BY <1>4, <1>5, <1>6, <1>7, SameChain DEF BaseInv

(* The retention commit of prepare.                                               *)
LEMMA RetainOK == BaseInv /\ Retain => BaseInv'
<1> SUFFICES ASSUME BaseInv, Retain PROVE BaseInv'
  OBVIOUS
<1>0. pc = "retain" /\ pc' = "plan" /\ UNCHANGED <<chainVars, restVars, blobReady>>
      /\ CommitBlob(v.st, Retained, {}, {})
  BY DEF Retain, Goto
<1>1. /\ ChainOK' /\ StoreInv' /\ CheckpointOK'
      /\ bstate'.height = bstate.height
  BY <1>0, RetentionCommit
<1>2. /\ DOMAIN v' = DOMAIN v /\ v'.target = v.target /\ v'.st = bstate' /\ v'.from = v.from
      /\ v'.end = v.end /\ v'.txs = v.txs /\ v'.channels = v.channels
  BY FreshFields DEF Retain, BaseInv, StepOK
<1>3. StepOK' /\ FoundOK' /\ AnchorOK'
  BY <1>0, <1>2
  DEF BaseInv, StepOK, FoundOK, AnchorOK, Idle, Preparing, Retaining, Scanning, Reading
<1>4. ReadyOK'
  <2>1. ready' = ready /\ fatal' = fatal /\ queued' = queued /\ blobReady' = blobReady
    BY <1>0 DEF restVars
  <2>2. ready' \in BOOLEAN /\ fatal' \in BOOLEAN /\ blobReady' \in BOOLEAN /\ queued' \in 0..MaxQueued
    BY <2>1, Zenon DEF BaseInv, ReadyOK
  <2>3. SUFFICES ASSUME blobReady'
                 PROVE  /\ pc' \notin Scanning \cup {"publish"}
                        /\ pc' \in Retaining \cup {"plan"} => v'.st.height >= v'.target
    BY <2>2, Zenon DEF ReadyOK
  <2>4. blobReady
    BY <2>1, <2>3, Zenon
  <2>5. v.st = bstate
    BY <1>0 DEF BaseInv, StepOK, Idle
  <2> QED
    BY <1>0, <1>1, <1>2, <2>4, <2>5 DEF BaseInv, ReadyOK, Retaining, Scanning, Reading
<1> QED
  BY <1>1, <1>3, <1>4 DEF BaseInv

(* The commit of a window.                                                        *)
LEMMA CommitScanOK == BaseInv /\ CommitScan => BaseInv'
<1> SUFFICES ASSUME BaseInv, CommitScan PROVE BaseInv'
  OBVIOUS
<1>0. pc = "commit" /\ pc' = "publish" /\ UNCHANGED <<chainVars, restVars, v, blobReady>>
      /\ CommitBlob(v.st, Scanned, v.txs, v.channels)
  BY DEF CommitScan, Goto
<1>1. /\ ChainOK' /\ StoreInv' /\ CheckpointOK' /\ bstate'.height = v.end
  BY <1>0, ScanCommit
<1>2. StepOK' /\ FoundOK' /\ AnchorOK'
  BY <1>0, <1>1
  DEF BaseInv, StepOK, FoundOK, AnchorOK, Idle, Preparing, Retaining, Scanning, Reading
<1>3. ReadyOK'
  <2>1. ready' = ready /\ fatal' = fatal /\ queued' = queued /\ blobReady' = blobReady
    BY <1>0 DEF restVars
  <2>2. ready' \in BOOLEAN /\ fatal' \in BOOLEAN /\ blobReady' \in BOOLEAN /\ queued' \in 0..MaxQueued
    BY <2>1, Zenon DEF BaseInv, ReadyOK
  <2>3. ~blobReady
    BY <1>0 DEF BaseInv, ReadyOK, Scanning, Reading
  <2>4. ~blobReady'
    BY <2>1, <2>3, Zenon
  <2> QED
    BY <2>2, <2>4, Zenon DEF ReadyOK
<1> QED
  BY <1>1, <1>2, <1>3 DEF BaseInv

(* A failed commit, whether or not it reached the disk.                           *)
LEMMA CommitFailsOK == BaseInv /\ CommitFails => BaseInv'
<1> SUFFICES ASSUME BaseInv, CommitFails PROVE BaseInv'
  OBVIOUS
<1>0. Return("halt") /\ UNCHANGED <<chainVars, restVars, blobReady>>
  BY DEF CommitFails
<1>1. ChainOK' /\ StoreInv' /\ CheckpointOK'
  <2>1. CASE pc = "retain" /\ CommitBlob(v.st, Retained, {}, {})
    BY <1>0, <2>1, RetentionCommit
  <2>2. CASE pc = "commit" /\ CommitBlob(v.st, Scanned, v.txs, v.channels)
    BY <1>0, <2>2, ScanCommit
  <2>3. CASE UNCHANGED storeVars
    BY <1>0, <2>3, QuietOK
  <2> QED
    BY <2>1, <2>2, <2>3 DEF CommitFails
<1>2. StepOK' /\ FoundOK' /\ AnchorOK' /\ pc' = "halt"
  BY <1>0, ReturnOK DEF Idle, Return, Goto
<1>3. ReadyOK'
  <2>1. ready' = ready /\ fatal' = fatal /\ queued' = queued /\ blobReady' = blobReady
    BY <1>0 DEF restVars
  <2>2. ready' \in BOOLEAN /\ fatal' \in BOOLEAN /\ blobReady' \in BOOLEAN /\ queued' \in 0..MaxQueued
    BY <2>1, Zenon DEF BaseInv, ReadyOK
  <2>3. SUFFICES ASSUME blobReady'
                 PROVE  /\ pc' \notin Scanning \cup {"publish"}
                        /\ pc' \in Retaining \cup {"plan"} => v'.st.height >= v'.target
    BY <2>2, Zenon DEF ReadyOK
  <2>4. blobReady
    BY <2>1, <2>3, Zenon
  <2> QED
    BY <1>1, <1>2, <2>4 DEF BaseInv, ReadyOK, Retaining, Scanning, Reading
<1> QED
  BY <1>1, <1>2, <1>3 DEF BaseInv

(* Every step keeps the invariant.                                                *)
LEMMA BaseStep == BaseInv /\ [Next]_vars => BaseInv'
<1> SUFFICES ASSUME BaseInv, [Next]_vars PROVE BaseInv'
  OBVIOUS
<1>1. CASE Chain
  BY <1>1, ChainStepOK
<1>2. CASE Prepare
  BY <1>2, CheckHeadOK, CheckHeightOK, StartStepOK, ReadTipOK, ReadConfirmedOK,
     CheckTargetOK, RetainOK, CaughtUpOK, OpenWindowOK DEF Prepare
<1>3. CASE Scan
  BY <1>3, AnchorWindowOK, ReadBlockOK, ResolveSourceOK, DecodeChannelsOK, FailureOK,
     CommitScanOK, PublishOK DEF Scan
<1>4. CASE AnchorChanged \/ CommitRejected \/ Retry \/ Halt \/ Poll
  BY <1>4, FailureOK, RetryOK, FatalOK
<1>5. CASE Faults
  BY <1>5, CommitFailsOK, FailureOK, RestartOK DEF Faults
<1>6. CASE Others
  BY <1>6, FatalOK, DepositStoredOK DEF Others
<1>7. CASE Stopped \/ UNCHANGED vars
  BY <1>7, StutterOK DEF Stopped
<1> QED
  BY <1>1, <1>2, <1>3, <1>4, <1>5, <1>6, <1>7 DEF Next, Worker

(* The invariant holds in every reachable state.                                  *)
LEMMA BaseInvariance == Spec => []BaseInv
BY InitBase, BaseStep, PTL DEF Spec

-------------------------------------------------------------------------------
(* What a step does to the database: nothing, or one of the two commits.          *)
LEMMA StoreSteps ==
  ASSUME [Next]_vars
  PROVE  \/ UNCHANGED storeVars
         \/ pc = "retain" /\ CommitBlob(v.st, Retained, {}, {}) /\ UNCHANGED <<chainVars, queued>>
         \/ /\ pc = "commit" /\ CommitBlob(v.st, Scanned, v.txs, v.channels)
            /\ UNCHANGED <<chainVars, queued>>
<1>1. CASE Chain \/ Others
  BY <1>1 DEF Chain, Others, FatalElsewhere, DepositStored
<1>2. CASE Prepare
  BY <1>2 DEF Prepare, CheckHead, CheckHeight, StartStep, ReadTip, ReadConfirmed,
     CheckTarget, Retain, CaughtUp, OpenWindow, restVars
<1>3. CASE Scan
  BY <1>3 DEF Scan, AnchorWindow, ReadBlock, ReadReceipt, SkipFailed, NextBlock, ResolveSource,
     DecodeChannels, ScanInvalid, CheckEnd, CommitScan, Publish, restVars
<1>4. CASE AnchorChanged \/ CommitRejected \/ Retry \/ Halt \/ Poll
  BY <1>4 DEF AnchorChanged, CommitRejected, Retry, Halt, Poll
<1>5. CASE Faults
  BY <1>5 DEF Faults, CommitFails, CommitRefused, CallFails, BeaconFails, BadAnswer, Restart,
     restVars
<1>6. CASE Stopped \/ UNCHANGED vars
  BY <1>6 DEF Stopped, vars, storeVars, dataVars
<1> QED
  BY <1>1, <1>2, <1>3, <1>4, <1>5, <1>6 DEF Next, Worker

(* Every reachable state of the Blob worker is well typed, and its revision stays *)
(* below the largest.                                                             *)
THEOREM TypeCorrect == Spec => []TypeOK
<1>1. BaseInv => TypeOK
  <2> SUFFICES ASSUME BaseInv PROVE TypeOK
    OBVIOUS
  <2>1. tip \in 0..MaxHeight /\ DOMAIN chain = 0..tip /\ epoch \in 0..MaxReorgs
    BY DEF BaseInv, ChainOK, WellFormed
  <2>2. /\ {bstate.height, bstate.retHeight} \subseteq Nil..MaxHeight
        /\ bstate.revision \in 0..MaxU64
        /\ bstate.cutoff \in Nat
    BY InboxAssumption, BlobConfigAssumption, BlobStoreAssumption DEF BaseInv, CheckpointOK, Nil
  <2>3. {ready, fatal, blobReady} \subseteq BOOLEAN
    BY Zenon DEF BaseInv, ReadyOK
  <2>4. DOMAIN v = DOMAIN Fresh /\ v.from \in 0..MaxHeight + 1 /\ v.end \in 0..MaxHeight
        /\ v.target \in 0..MaxHeight
    BY DEF BaseInv, StepOK
  <2>5. queued \in 0..MaxQueued
    BY DEF BaseInv, ReadyOK
  <2> QED
    BY <2>1, <2>2, <2>3, <2>4, <2>5 DEF TypeOK
<1> QED
  BY <1>1, BaseInvariance, PTL

(* Who publishes readiness: prepare, and Step before and after a scan.            *)
LEMMA ReadySteps ==
  ASSUME [Next]_vars, ~blobReady, blobReady'
  PROVE  (ReadConfirmed /\ Caught) \/ CaughtUp \/ (Publish /\ v.end = v.target)
<1> SUFFICES ASSUME ~ReadConfirmed, ~CaughtUp, ~Publish PROVE FALSE
  <2>1. ReadConfirmed => Caught
    BY Zenon DEF ReadConfirmed, SetBlobReady
  <2>2. Publish => v.end = v.target
    BY Zenon DEF Publish, SetBlobReady
  <2> QED
    BY <2>1, <2>2
<1>1. blobReady' = blobReady \/ blobReady' = FALSE \/ SetBlobReady(FALSE)
  <2>1. CASE Chain \/ Others
    BY <2>1 DEF Chain, Others, FatalElsewhere, DepositStored
  <2>2. CASE Prepare
    BY <2>2 DEF Prepare, CheckHead, CheckHeight, StartStep, ReadTip, CheckTarget, Retain,
       OpenWindow
  <2>3. CASE Scan
    BY <2>3 DEF Scan, AnchorWindow, ReadBlock, ReadReceipt, SkipFailed, NextBlock,
       ResolveSource, DecodeChannels, ScanInvalid, CheckEnd, CommitScan
  <2>4. CASE AnchorChanged \/ CommitRejected \/ Retry \/ Halt \/ Poll
    BY <2>4 DEF AnchorChanged, CommitRejected, Retry, Halt, Poll
  <2>5. CASE Faults
    BY <2>5 DEF Faults, CommitFails, CommitRefused, CallFails, BeaconFails, BadAnswer, Restart
  <2>6. CASE Stopped \/ UNCHANGED vars
    BY <2>6 DEF Stopped, vars
  <2> QED
    BY <2>1, <2>2, <2>3, <2>4, <2>5, <2>6 DEF Next, Worker
<1> QED
  BY <1>1, Zenon DEF SetBlobReady

(* The Blob worker becomes ready only when everything from Start to the confirmed *)
(* block is committed, or Start lies above that block, and it never is ready      *)
(* while it scans (prepare, Step, SetBlobReady).                                  *)
THEOREM HonestBlobReadiness == Spec => BlobReadyIsHonest
<1> DEFINE Honest ==
      /\ ~blobReady /\ blobReady' => bstate'.height >= v.target \/ Start > v.target
      /\ blobReady' => pc' \notin {"anchor", "block", "subs", "refs", "end", "head3",
                                   "height3", "commit", "publish"}
<1>1. ASSUME BaseInv, BaseInv', [Next]_vars PROVE Honest
  <2>1. ASSUME ~blobReady, blobReady'
        PROVE  bstate'.height >= v.target \/ Start > v.target
    <3>1. CASE ReadConfirmed /\ Caught
      <4>1. pc = "confirmed" /\ bstate' = bstate
        BY <3>1 DEF ReadConfirmed, storeVars
      <4>2. v.st = bstate
        BY <1>1, <4>1 DEF BaseInv, StepOK, Idle
      <4> QED
        BY <3>1, <4>1, <4>2 DEF Caught
    <3>2. CASE CaughtUp
      <4>1. pc = "plan" /\ bstate' = bstate /\ (Caught \/ Start > v.target)
        BY <3>2 DEF CaughtUp, storeVars
      <4>2. v.st = bstate
        BY <1>1, <4>1 DEF BaseInv, StepOK, Idle
      <4> QED
        BY <4>1, <4>2 DEF Caught
    <3>3. CASE Publish /\ v.end = v.target
      <4>1. pc = "publish" /\ bstate' = bstate
        BY <3>3 DEF Publish, storeVars
      <4>2. bstate.height = v.end /\ v.target \in 0..MaxHeight
        BY <1>1, <4>1 DEF BaseInv, StepOK
      <4> QED
        BY <3>3, <4>1, <4>2, InboxAssumption
    <3> QED
      BY <1>1, <2>1, <3>1, <3>2, <3>3, ReadySteps
  <2>2. blobReady' => pc' \notin Scanning \cup {"publish"}
    BY <1>1 DEF BaseInv, ReadyOK
  <2> QED
    BY <2>1, <2>2, Zenon DEF Scanning, Reading
<1>2. BaseInv /\ BaseInv' /\ [Next]_vars => [Honest]_vars
  BY <1>1
<1> QED
  BY <1>2, BaseInvariance, PTL DEF Spec, BlobReadyIsHonest

(* GetBlock finds no inconsistency, whatever was committed and expired, except in *)
(* a block that was published with the queue index no deposit can have.           *)
THEOREM Reads == Spec => []ReadsSucceed
<1>1. BaseInv => ReadsSucceed
  <2> SUFFICES ASSUME BaseInv PROVE ReadsSucceed
    OBVIOUS
  <2>1. StoreOK /\ Coherent(txs, channels, index, blocks)
    BY DEF BaseInv, StoreInv, StoreOK
  <2>2. ASSUME NEW p \in index
        PROVE  \E b \in blocks :
                 /\ b.index = p.number /\ Intact(b)
                 /\ Readable(b, queued) \/ MaxU64 \in Elems(b.queue)
    <3>1. PICK r \in channels : \E n \in Elems(r.numbers) : p = [number |-> n, id |-> r.id]
      BY <2>1 DEF Coherent, IndexOf
    <3>2. PICK n \in Elems(r.numbers) : p = [number |-> n, id |-> r.id]
      BY <3>1
    <3>3. p.number = n /\ p.id = r.id
      BY <3>2
    <3>4. PICK b \in blocks : b.index = n /\ b.batch = r.batch
      BY <2>1 DEF Coherent, BlocksOf
    <3>5. bstate.cutoff <= r.expires /\ bstate.cutoff \in Nat /\ r.expires \in Nat
      BY <2>1 DEF StoreOK, Coherent, ChannelsKeyed
    <3>6. r.sources # {} /\ \A h \in r.sources :
             \E t \in txs : t.hash = h /\ ~t.missing /\ t.time >= bstate.cutoff
      <4>1. \A t \in txs : t.time \in Nat /\ bstate.cutoff <= t.time
        BY <2>1 DEF StoreOK, Coherent, TxsKeyed
      <4> QED
        BY <2>1, <3>5, <4>1 DEF Coherent, SourcesIn
    <3>7. Refused(b, queued) => MaxU64 \in Elems(b.queue)
      BY DEF Refused, Elems
    <3>8. Intact(b)
      BY <3>3, <3>4, <3>5, <3>6 DEF Intact
    <3> QED
      BY <3>3, <3>4, <3>7, <3>8 DEF Readable
  <2> QED
    BY <2>1, <2>2 DEF ReadsSucceed, StoreOK
<1> QED
  BY <1>1, BaseInvariance, PTL

(* If no channel names an L2 block twice, the store accepts every retention       *)
(* commit (CommitBlob, pruneBlob, expireRecord): what it has accepted can expire. *)
THEOREM RetentionAccepted == ASSUME DistinctBlocks PROVE Spec => []RetentionNeverRefused
<1>1. BaseInv => RetentionNeverRefused
  <2> SUFFICES ASSUME BaseInv, pc = "retain" PROVE Acceptable(v.st, Retained, {}, {})
    BY DEF RetentionNeverRefused
  <2>1. StoreOK /\ Coherent(txs, channels, index, blocks)
        /\ \A r \in channels : Injective(r.numbers)
    BY DEF BaseInv, StoreInv, StoreOK, NumbersOK
  <2>2. /\ v.st = bstate /\ v.target \in 0..MaxHeight /\ Cutoff(v.target) > bstate.cutoff
        /\ DOMAIN bstate = DOMAIN NoBlobState
        /\ bstate.height \in Nil..MaxHeight /\ bstate.cutoff \in 0..MaxHeight
        /\ bstate.revision \in Nat /\ bstate.revision <= bstate.height + 1 + bstate.cutoff
    BY DEF BaseInv, StepOK, Retaining, Idle, CheckpointOK
  <2>3. Retained.cutoff = Cutoff(v.target) /\ Cutoff(v.target) \in 0..MaxHeight
    BY <2>2, StateFields, CutoffIn DEF Retained
  <2>4. bstate.revision # MaxU64
    BY <2>2, <2>3, InboxAssumption, BlobConfigAssumption, BlobStoreAssumption DEF Nil
  <2> DEFINE N == NewTxs({}, Retained.cutoff)
             K == NewChannels({}, Retained.cutoff)
  <2>5. N = {} /\ K = {}
    BY DEF NewTxs, NewChannels
  <2> HIDE DEF N, K
  <2>6. /\ TxsWith(N) = txs /\ ChannelsWith(K) = channels /\ IndexWith(K) = index
        /\ BlocksWith(K) = blocks /\ TxKeys(N) = txExpiry /\ ChannelKeys(K) = chExpiry
    BY <2>5 DEF TxsWith, ChannelsWith, IndexWith, BlocksWith, TxKeys, ChannelKeys,
       NewIndex, NewBlocks
  <2>7. TxsAgree(N) /\ ChannelsAgree(K)
    BY <2>5 DEF TxsAgree, ChannelsAgree, NewIndex, NewBlocks
  <2>8. ASSUME NEW x \in Due(chExpiry, Retained.cutoff)
        PROVE  ChannelExpires(x, channels, index, blocks)
    <3>1. PICK r \in channels : x = ChannelKey(r)
      BY <2>1 DEF Due, StoreOK
    <3>2. r.id = x.id /\ r.expires = x.time
      BY <3>1 DEF ChannelKey
    <3>3. Expirable(r, index, blocks)
      BY <2>1 DEF Expirable, Injective, Coherent, IndexOf, BlocksOf
    <3> QED
      BY <3>2, <3>3 DEF ChannelExpires
  <2>9. ASSUME NEW x \in Due(txExpiry, Retained.cutoff)
        PROVE  TxExpires(x, txs)
    <3>1. PICK t \in txs : x = TxKey(t)
      BY <2>1 DEF Due, StoreOK
    <3> QED
      BY <3>1 DEF TxKey, TxExpires
  <2>10. PruneSucceeds(Retained.cutoff, N, K)
    BY <2>6, <2>8, <2>9 DEF PruneSucceeds
  <2> QED
    BY <2>2, <2>3, <2>4, <2>7, <2>10 DEF Acceptable, N, K
<1> QED
  BY <1>1, BaseInvariance, PTL

(* A retention commit keeps exactly the channels that have not expired.           *)
LEMMA RetentionKeeps ==
  ASSUME BaseInv, pc = "retain", CommitBlob(v.st, Retained, {}, {})
  PROVE  /\ channels' = {r \in channels : r.expires >= bstate'.cutoff}
         /\ bstate'.cutoff = Retained.cutoff
         /\ \A b \in blocks : b \in blocks' \/ \E r \in channels :
               b.index \in Elems(r.numbers) /\ r.expires < bstate'.cutoff
         /\ \A b \in blocks' : b \in blocks
<1> DEFINE N == NewTxs({}, Retained.cutoff)
           K == NewChannels({}, Retained.cutoff)
<1>1. N = {} /\ K = {}
  BY DEF NewTxs, NewChannels
<1>2. v.st = bstate /\ DOMAIN bstate = DOMAIN NoBlobState /\ v.target \in 0..MaxHeight
  BY DEF BaseInv, StepOK, Idle, CheckpointOK
<1>3. Retained.cutoff \in Nat /\ DOMAIN Retained = DOMAIN NoBlobState
  <2>1. Retained.cutoff = Cutoff(v.target) /\ Cutoff(v.target) \in 0..MaxHeight
    BY <1>2, StateFields, CutoffIn DEF Retained
  <2> QED
    BY <1>2, <2>1, InboxAssumption DEF Retained
<1>4. /\ \A r : r \in channels' <=> r \in ChannelsWith(K) /\ Retained.cutoff <= r.expires
      /\ \A b : b \in BlocksWith(K) => (b \in blocks' <=>
            \A r \in ChannelsWith(K) : r \in channels' \/ b.index \notin Elems(r.numbers))
      /\ bstate'.cutoff = Retained.cutoff
  BY <1>3, CommitLeaves DEF BaseInv, StoreInv
<1>5. \A b \in blocks' : b \in BlocksWith(K)
  BY DEF CommitBlob, Write
<1> HIDE DEF N, K
<1>6. ChannelsWith(K) = channels /\ BlocksWith(K) = blocks
  BY <1>1 DEF ChannelsWith, BlocksWith, NewBlocks
<1>7. \A r \in channels : r.expires \in Nat
  BY DEF BaseInv, StoreInv, StoreOK, Coherent, ChannelsKeyed
<1>8. channels' = {r \in channels : r.expires >= bstate'.cutoff}
  BY <1>3, <1>4, <1>6, <1>7
<1>9. ASSUME NEW b \in blocks, b \notin blocks'
      PROVE  \E r \in channels : b.index \in Elems(r.numbers) /\ r.expires < bstate'.cutoff
  <2>1. PICK r \in channels : r \notin channels' /\ b.index \in Elems(r.numbers)
    BY <1>4, <1>6, <1>9
  <2>2. r.expires < bstate'.cutoff
    BY <1>3, <1>4, <1>6, <1>7, <2>1
  <2> QED
    BY <2>1, <2>2
<1> QED
  BY <1>4, <1>5, <1>6, <1>8, <1>9

(* The commit of a scan loses nothing: nothing that is stored has expired.        *)
LEMMA ScanKeeps ==
  ASSUME BaseInv, pc = "commit", CommitBlob(v.st, Scanned, v.txs, v.channels)
  PROVE  /\ txs \subseteq txs' /\ channels \subseteq channels' /\ blocks \subseteq blocks'
         /\ \A r \in channels' : r.expires >= bstate.cutoff
         /\ bstate'.cutoff = bstate.cutoff
<1> DEFINE N == NewTxs(v.txs, Scanned.cutoff)
           K == NewChannels(v.channels, Scanned.cutoff)
<1>1. v.st = bstate /\ DOMAIN bstate = DOMAIN NoBlobState /\ bstate.cutoff \in Nat
  BY DEF BaseInv, StepOK, Idle, CheckpointOK, StoreInv, StoreOK
<1>2. Scanned.cutoff = bstate.cutoff /\ DOMAIN Scanned = DOMAIN NoBlobState
  BY <1>1, StateFields DEF Scanned
<1>3. /\ \A t : t \in txs' <=> t \in TxsWith(N) /\ Scanned.cutoff <= t.time
      /\ \A r : r \in channels' <=> r \in ChannelsWith(K) /\ Scanned.cutoff <= r.expires
      /\ \A b : b \in BlocksWith(K) => (b \in blocks' <=>
            \A r \in ChannelsWith(K) : r \in channels' \/ b.index \notin Elems(r.numbers))
      /\ bstate'.cutoff = Scanned.cutoff
      /\ Coherent(TxsWith(N), ChannelsWith(K), IndexWith(K), BlocksWith(K))
  BY <1>1, <1>2, CommitLeaves DEF BaseInv, StoreInv, FoundOK
<1>4. \A c \in K : Scanned.cutoff <= c.expires
  <2>1. \A c \in K : c.expires >= Scanned.cutoff
    BY DEF NewChannels
  <2>2. \A c \in K : Record(c) \in ChannelsWith(K) /\ Record(c).expires = c.expires
    BY RecordNumbers DEF ChannelsWith
  <2>3. \A c \in K : c.expires \in Nat
    BY <1>3, <2>2 DEF Coherent, ChannelsKeyed
  <2> QED
    BY <1>1, <1>2, <2>1, <2>3
<1> HIDE DEF N, K
<1>5. \A r \in ChannelsWith(K) : r \in channels'
  <2>1. ASSUME NEW r \in ChannelsWith(K) PROVE Scanned.cutoff <= r.expires
    <3>1. CASE r \in channels
      BY <1>2, <3>1 DEF BaseInv, StoreInv, StoreOK
    <3>2. CASE \E c \in K : r = Record(c)
      BY <1>4, <3>2, RecordNumbers
    <3> QED
      BY <3>1, <3>2 DEF ChannelsWith
  <2> QED
    BY <1>3, <2>1
<1>6. \A b \in BlocksWith(K) : b \in blocks'
  BY <1>3, <1>5
<1>7. \A t \in txs : t \in txs'
  BY <1>2, <1>3 DEF TxsWith, BaseInv, StoreInv, StoreOK
<1>8. \A r \in channels' : r.expires >= bstate.cutoff
  BY <1>1, <1>2, <1>3 DEF Coherent, ChannelsKeyed
<1> QED
  BY <1>2, <1>3, <1>5, <1>6, <1>7, <1>8 DEF ChannelsWith, BlocksWith

(* BlobSync implements BlobWindow: the retained channels move along one chain and *)
(* one clock.                                                                     *)
THEOREM Windowed == Spec => KeepsWindow
<1>1. Init => Window!Init
  BY DEF Init, InitBlob, NoBlobState, NoHash, Nil, Window!Init
<1>2. BaseInv /\ [Next]_vars => [Window!Next]_(Window!vars)
  <2> SUFFICES ASSUME BaseInv, [Next]_vars PROVE [Window!Next]_(Window!vars)
    OBVIOUS
  <2>1. CASE UNCHANGED storeVars
    BY <2>1 DEF storeVars, dataVars, Window!vars
  <2>2. CASE /\ pc = "retain" /\ CommitBlob(v.st, Retained, {}, {})
             /\ UNCHANGED <<chainVars, queued>>
    <3>1. /\ bstate'.height = bstate.height /\ bstate'.hash = bstate.hash
          /\ bstate'.cutoff = Cutoff(v.target)
      BY <2>2, RetentionCommit
    <3>2. Cutoff(v.target) > bstate.cutoff
      BY <2>2 DEF BaseInv, StepOK, Retaining, Idle
    <3>3. channels' = {r \in channels : r.expires >= bstate'.cutoff}
      BY <2>2, RetentionKeeps
    <3> QED
      BY <3>1, <3>2, <3>3 DEF Window!Next, Window!Expire
  <2>3. CASE /\ pc = "commit" /\ CommitBlob(v.st, Scanned, v.txs, v.channels)
             /\ UNCHANGED <<chainVars, queued>>
    <3>1. /\ bstate'.height = v.end /\ bstate'.hash = v.anchor
          /\ bstate'.cutoff = bstate.cutoff /\ bstate.height < v.end
      BY <2>3, ScanCommit
    <3>2. channels \subseteq channels' /\ \A r \in channels' : r.expires >= bstate.cutoff
      BY <2>3, ScanKeeps
    <3>3. DOMAIN v.anchor = 0..v.end /\ v.st = bstate /\ v.end \in 0..MaxHeight
          /\ bstate.height \in Nil..MaxHeight /\ Extends(v.anchor, v.st)
      BY <2>3 DEF BaseInv, AnchorOK, Tracked, WellFormed, Reading, StepOK, Idle, CheckpointOK
    <3>4. \A k \in 0..bstate.height : v.anchor[k] = bstate.hash[k]
      <4>1. CASE bstate.height = Nil
        <5>1. 0..bstate.height = {}
          BY <4>1 DEF Nil
        <5> QED
          BY <5>1
      <4>2. CASE bstate.height # Nil
        BY <3>3, <4>2 DEF Extends
      <4> QED
        BY <4>1, <4>2
    <3>5. v.end > bstate.height
      BY <3>1, <3>3, InboxAssumption DEF Nil
    <3> QED
      BY <3>1, <3>2, <3>3, <3>4, <3>5 DEF Window!Next, Window!Extend
  <2> QED
    BY <2>1, <2>2, <2>3, StoreSteps
<1> QED
  BY <1>1, <1>2, BaseInvariance, PTL DEF Spec, KeepsWindow, Window!Spec

(* What GetBlock answers for a block that is stored: it, when its deposits are.   *)
LEMMA AnswerIs ==
  ASSUME NEW B, NEW q, NEW b \in B, \A d \in B : d.index = b.index => d = b
  PROVE  LET A == {d \in B : d.index = b.index /\ Filled(d, q)}
         IN  /\ A # {} => Filled(b, q)
             /\ Filled(b, q) => A = {b}
OBVIOUS

(* The number of deposits never shrinks.                                          *)
LEMMA QueuedGrows ==
  ASSUME BaseInv, [Next]_vars
  PROVE  queued \in Nat /\ queued' \in Nat /\ queued <= queued'
<1>1. queued \in Nat
  BY BlobConfigAssumption DEF BaseInv, ReadyOK
<1>2. queued' = queued \/ queued' = queued + 1
  <2>1. CASE Chain \/ Others
    BY <2>1 DEF Chain, Others, FatalElsewhere, DepositStored, restVars
  <2>2. CASE Prepare
    BY <2>2 DEF Prepare, CheckHead, CheckHeight, StartStep, ReadTip, ReadConfirmed,
       CheckTarget, Retain, CaughtUp, OpenWindow, restVars
  <2>3. CASE Scan
    BY <2>3 DEF Scan, AnchorWindow, ReadBlock, ReadReceipt, SkipFailed, NextBlock, ResolveSource,
       DecodeChannels, ScanInvalid, CheckEnd, CommitScan, Publish, restVars
  <2>4. CASE AnchorChanged \/ CommitRejected \/ Retry \/ Halt \/ Poll
    BY <2>4 DEF AnchorChanged, CommitRejected, Retry, Halt, Poll, restVars
  <2>5. CASE Faults
    BY <2>5 DEF Faults, CommitFails, CommitRefused, CallFails, BeaconFails, BadAnswer, Restart,
       restVars
  <2>6. CASE Stopped \/ UNCHANGED vars
    BY <2>6 DEF Stopped, vars
  <2> QED
    BY <2>1, <2>2, <2>3, <2>4, <2>5, <2>6 DEF Next, Worker
<1> QED
  BY <1>1, <1>2

(* A stored block stays as it is unless a retention commit removes it with a      *)
(* channel that has expired.                                                      *)
LEMMA BlockKept ==
  ASSUME BaseInv, [Next]_vars, NEW b \in blocks
  PROVE  \/ b \in blocks'
         \/ /\ \A d \in blocks' : d \in blocks
            /\ \E r \in channels : b.index \in Elems(r.numbers) /\ r.expires < bstate'.cutoff
<1>1. CASE UNCHANGED storeVars
  BY <1>1 DEF storeVars, dataVars
<1>2. CASE pc = "retain" /\ CommitBlob(v.st, Retained, {}, {})
  BY <1>2, RetentionKeeps
<1>3. CASE pc = "commit" /\ CommitBlob(v.st, Scanned, v.txs, v.channels)
  BY <1>3, ScanKeeps
<1> QED
  BY <1>1, <1>2, <1>3, StoreSteps

(* A block that has been served is served unchanged until one of the Blob         *)
(* transactions it came from expires, and then it is gone (GetBlock, CommitBlob). *)
THEOREM Stable == Spec => StableAnswers
<1> DEFINE Lost(b) == \E r \in channels : \E t \in txs :
             /\ b.index \in Elems(r.numbers) /\ t.hash \in r.sources
             /\ t.time < bstate'.cutoff
<1>1. ASSUME BaseInv, BaseInv', [Next]_vars, NEW b \in blocks,
             Answer(b.index, queued) # {}, Answer(b.index, queued)' # {b}
      PROVE  Answer(b.index, queued)' = {} /\ Lost(b)
  <2>1. Coherent(txs, channels, index, blocks)
        /\ Coherent(txs, channels, index, blocks)'
    BY <1>1 DEF BaseInv, StoreInv, StoreOK
  <2>2. /\ b.queue \in Seq(Nat)
        /\ \A d \in blocks : d.index = b.index => d = b
        /\ \A d \in blocks' : b \in blocks' /\ d.index = b.index => d = b
    BY <2>1 DEF Coherent, BlocksOf
  <2>3. Filled(b, queued)
    BY <1>1, <2>2, AnswerIs DEF Answer
  <2>4. Filled(b, queued')
    <3>1. \A k \in Elems(b.queue) : Shift(k) \in Nat
      BY <2>2, BlobStoreAssumption DEF Elems, Shift
    <3> QED
      BY <1>1, <2>3, <3>1, QueuedGrows DEF Filled
  <2>5. b \notin blocks'
    <3>1. SUFFICES ASSUME b \in blocks' PROVE FALSE
      OBVIOUS
    <3>2. Answer(b.index, queued)' = {b}
      BY <2>2, <2>4, <3>1 DEF Answer
    <3> QED
      BY <1>1, <3>2
  <2>6. PICK r \in channels : b.index \in Elems(r.numbers) /\ r.expires < bstate'.cutoff
    BY <1>1, <2>5, BlockKept
  <2>7. Lost(b)
    BY <2>1, <2>6 DEF Coherent, SourcesIn
  <2>8. \A d \in blocks' : d.index # b.index
    BY <1>1, <2>2, <2>5, BlockKept
  <2>9. Answer(b.index, queued)' = {}
    BY <2>8 DEF Answer
  <2> QED
    BY <2>7, <2>9
<1>2. BaseInv /\ BaseInv' /\ [Next]_vars =>
        [\A b \in blocks :
           Answer(b.index, queued) # {} /\ Answer(b.index, queued)' # {b} =>
             /\ Answer(b.index, queued)' = {}
             /\ \E r \in channels : \E t \in txs :
                  /\ b.index \in Elems(r.numbers) /\ t.hash \in r.sources
                  /\ t.time < bstate'.cutoff]_vars
  BY <1>1 DEF Lost
<1> QED
  BY <1>2, BaseInvariance, PTL DEF Spec, StableAnswers

-------------------------------------------------------------------------------
(* What a scan finds.  The database is compared with the chain it was scanned     *)
(* from, the locals of a scan with the chain of its anchor.                       *)

(* The submissions in force of the blocks from..end of a chain.                   *)
OkSubs(c, from, end) == {s \in UNION {c[k].subs : k \in from..end} : InForce(s)}

(* The sources of a submission among T.                                           *)
Src(T, s) == {t \in T : t.hash \in s.refs}

(* No frame comes twice.                                                          *)
Apart(S) == \A x, y \in Present(S) : x # y => x.frames \cap y.frames = {}

(* Each of T is a transaction of the chain c up to height h, as it was mined.     *)
Genuine(T, c, h) ==
  \A t \in T : /\ t.at \in 0..h /\ t.hash \in c[t.at].txs
               /\ t.e = c[t.at].e /\ t.time = Time(t.at)

(* Those of the transactions R of the chain that are not older than cut are in T. *)
Covered(R, T, c, h, cut) ==
  \A t \in R : \A k \in 0..h : t \in c[k].txs /\ cut <= k => \E x \in T : x.hash = t

(* T, R and B are the sources, channels and blocks of the submissions from Start  *)
(* to height h of the chain c, as far as they are not older than cut.             *)
Faithful(T, R, B, c, h, cut) ==
  /\ Genuine(T, c, h)
  /\ \A t \in T : \E s \in OkSubs(c, Start, h) : t.hash \in s.refs
  /\ \A s \in OkSubs(c, Start, h) :
       /\ Covered(s.refs, T, c, h, cut)
       /\ Apart(Src(T, s))
       /\ \A x \in Decoded(Src(T, s), s) : Record(x) \in R /\ Elems(x.blocks) \subseteq B
  /\ \A r \in R : \E s \in OkSubs(c, Start, h) : \E x \in Decoded(Src(T, s), s) : r = Record(x)

(* The first block to scan above height h.                                        *)
After(h) == IF h = Nil THEN Start ELSE h + 1

(* The database is that of the scanned chain.                                     *)
StoreFaithful ==
  Faithful(txs, channels, blocks, bstate.hash, bstate.height, bstate.cutoff)

(* W are the sources a scan has met, of which T were stored before and N are new. *)
Collected(W, T, N, cut, c, h) ==
  /\ Genuine(W, c, h)
  /\ N \subseteq W
  /\ \A x \in N : cut <= x.time
  /\ \A x \in W : cut <= x.time => x \in T \cup N
  /\ \A x, y \in W \cup T : x.hash = y.hash => x = y

(* C are the channels of the submissions Q; R are sources met for another one.    *)
Handled(Q, R, W, T, C) ==
  /\ \A s \in Q : /\ \A t \in s.refs : \E x \in W : x.hash = t
                  /\ Apart(Src(T, s))
                  /\ Decoded(Src(T, s), s) \subseteq C
  /\ \A t \in R : \E x \in W : x.hash = t
  /\ \A x \in W : x.hash \in R \/ \E s \in Q : x.hash \in s.refs
  /\ \A x \in C : \E s \in Q : x \in Decoded(Src(T, s), s)

(* Both, of what a scan has met and found.                                        *)
Gathered(Q, R, W, T, N, C, cut, c, h) ==
  Collected(W, T, N, cut, c, h) /\ Handled(Q, R, W, T \cup N, C)

(* What the present scan knows once it has handled Q and the sources R.           *)
ScanData(Q, R) ==
  Gathered(Q, R, v.cache, txs, v.txs, v.channels, v.st.cutoff, v.anchor, v.end)

(* The submissions of the blocks before this one, of this one, of the window.     *)
Past == OkSubs(v.anchor, v.from, v.block.at - 1)
Here == OkSubs(v.anchor, v.block.at, v.block.at)
All == OkSubs(v.anchor, v.from, v.end)

(* Of the submissions whose receipts are still to be read those that succeeded    *)
(* are in force.                                                                  *)
Pending == \A s \in v.subs : s.ok => s \in Here

(* A scan has handled the submissions before its position, if the window's last   *)
(* block still stands, and all of the window's once that was checked at its end.  *)
ScanOK ==
  /\ pc \notin Reading \cup {"publish"} => v.cache = {} /\ v.txs = {} /\ v.channels = {}
  /\ DOMAIN v.block = DOMAIN NoBlock
  /\ pc \in {"block", "subs", "refs"} => v.block.at \in v.from..v.end
  /\ pc \in {"head3", "height3", "commit"} => ScanData(All, {})
  /\ pc \in Reading /\ Live(v.anchor, v.end) =>
       /\ pc = "block" => ScanData(Past, {})
       /\ pc = "subs" => Pending /\ ScanData(Past \cup (Here \ v.subs), {})
       /\ pc = "refs" =>
            /\ Pending /\ v.sub \in Here \ v.subs /\ v.refs \subseteq v.sub.refs
            /\ v.sources = {x \in txs \cup v.txs : x.hash \in v.sub.refs \ v.refs}
            /\ ScanData(Past \cup (Here \ (v.subs \cup {v.sub})), v.sub.refs \ v.refs)
       /\ pc = "end" => ScanData(All, {})

-------------------------------------------------------------------------------
(* Channels of a set of sources. *)

(* What DecodeChannels returns.                                                   *)
LEMMA DecodedIs ==
  ASSUME NEW S, NEW s, NEW x
  PROVE  x \in Decoded(S, s) <=>
           \E d \in DOMAIN EndOf : Complete(d, S) /\ x = Channel(d, S, s)
BY DEF Decoded

(* A channel expires with the oldest transaction that holds a frame of it.        *)
LEMMA ChannelExpiry ==
  ASSUME NEW S, \A x \in S : x.time \in Nat, NEW s,
         NEW d \in DOMAIN EndOf, Complete(d, S)
  PROVE  /\ Channel(d, S, s).expires \in Nat
         /\ \E x \in S : x.time = Channel(d, S, s).expires
         /\ \A x \in Present(S) : HoldsFrame(x, d) => Channel(d, S, s).expires <= x.time
<1> DEFINE P == {x \in Present(S) : HoldsFrame(x, d)}
           D == {x.time : x \in P}
<1>1. Channel(d, S, s).expires = MinOf(D)
  BY DEF Channel
<1>2. P \subseteq S
  BY DEF Present
<1>3. D \in SUBSET Nat
  BY <1>2
<1>4. D # {}
  <2>1. 0 \in 0..EndOf[d]
    BY InboxAssumption
  <2>2. PICK x \in Present(S) : [ch |-> d, n |-> 0] \in x.frames
    BY <2>1 DEF Complete
  <2>3. x \in P
    BY <2>1, <2>2 DEF HoldsFrame
  <2> QED
    BY <2>3
<1> HIDE DEF D
<1>5. MinOf(D) \in D /\ \A t \in D : MinOf(D) <= t
  BY <1>3, <1>4, MinOfLeast
<1> QED
  BY <1>1, <1>2, <1>3, <1>5 DEF D

(* Expiry of sources: the channels that are left complete are the ones none of    *)
(* whose sources has expired, and they are what they were, since no other source  *)
(* has any of their frames.                                                       *)
LEMMA ExpiryExact ==
  ASSUME NEW S, \A x \in S : x.time \in Nat, Apart(S), NEW cut \in Nat,
         NEW S2, \A x : x \in S2 <=> x \in S /\ cut <= x.time, NEW s
  PROVE  \A c : c \in Decoded(S2, s) <=> c \in Decoded(S, s) /\ cut <= c.expires
<1>1. \A x : x \in Present(S2) <=> x \in Present(S) /\ cut <= x.time
  BY DEF Present
<1>2. ASSUME NEW d \in DOMAIN EndOf, Complete(d, S2)
      PROVE  Complete(d, S) /\ Channel(d, S2, s) = Channel(d, S, s)
             /\ cut <= Channel(d, S, s).expires
  <2>1. Complete(d, S)
    BY <1>1, <1>2 DEF Complete
  <2>2. ASSUME NEW x \in Present(S), HoldsFrame(x, d) PROVE x \in Present(S2)
    <3>1. PICK n \in 0..EndOf[d] : [ch |-> d, n |-> n] \in x.frames
      BY <2>2 DEF HoldsFrame
    <3>2. PICK y \in Present(S2) : [ch |-> d, n |-> n] \in y.frames
      BY <1>2 DEF Complete
    <3>3. y \in Present(S) /\ x.frames \cap y.frames # {}
      BY <1>1, <3>1, <3>2
    <3>4. x = y
      BY <3>3 DEF Apart
    <3> QED
      BY <3>2, <3>4
  <2>3. {x \in Present(S2) : HoldsFrame(x, d)} = {x \in Present(S) : HoldsFrame(x, d)}
    BY <1>1, <2>2
  <2>4. Channel(d, S2, s) = Channel(d, S, s)
    BY <2>3, Zenon DEF Channel
  <2>5. PICK x \in S2 : x.time = Channel(d, S2, s).expires
    BY <1>2, ChannelExpiry
  <2> QED
    BY <2>1, <2>4, <2>5
<1>3. ASSUME NEW d \in DOMAIN EndOf, Complete(d, S), cut <= Channel(d, S, s).expires
      PROVE  Complete(d, S2)
  <2>1. Channel(d, S, s).expires \in Nat
        /\ \A x \in Present(S) : HoldsFrame(x, d) => Channel(d, S, s).expires <= x.time
    BY <1>3, ChannelExpiry
  <2>2. ASSUME NEW n \in 0..EndOf[d]
        PROVE  \E x \in Present(S2) : [ch |-> d, n |-> n] \in x.frames
    <3>1. PICK x \in Present(S) : [ch |-> d, n |-> n] \in x.frames
      BY <1>3 DEF Complete
    <3>2. HoldsFrame(x, d) /\ x.time \in Nat
      BY <3>1 DEF HoldsFrame, Present
    <3>3. cut <= x.time
      BY <1>3, <2>1, <3>2
    <3> QED
      BY <1>1, <3>1, <3>3
  <2> QED
    BY <2>2 DEF Complete
<1>4. ASSUME NEW c, c \in Decoded(S2, s) PROVE c \in Decoded(S, s) /\ cut <= c.expires
  <2>1. PICK d \in DOMAIN EndOf : Complete(d, S2) /\ c = Channel(d, S2, s)
    BY <1>4, DecodedIs
  <2> QED
    BY <1>2, <2>1, DecodedIs
<1>5. ASSUME NEW c, c \in Decoded(S, s), cut <= c.expires PROVE c \in Decoded(S2, s)
  <2>1. PICK d \in DOMAIN EndOf : Complete(d, S) /\ c = Channel(d, S, s)
    BY <1>5, DecodedIs
  <2>2. Complete(d, S2)
    BY <1>3, <1>5, <2>1
  <2>3. Channel(d, S2, s) = Channel(d, S, s)
    BY <1>2, <2>2
  <2> QED
    BY <2>1, <2>2, <2>3, DecodedIs
<1> QED
  BY <1>4, <1>5

-------------------------------------------------------------------------------
(* The database and the chain it was scanned from. *)

(* The submissions in force of a range of blocks.                                 *)
LEMMA OkSubsIs ==
  ASSUME NEW c, NEW from, NEW end, NEW s
  PROVE  s \in OkSubs(c, from, end) <=> InForce(s) /\ \E k \in from..end : s \in c[k].subs
BY DEF OkSubs

(* Genuine transactions have a natural number for their time.                     *)
LEMMA GenuineTime ==
  ASSUME NEW T, NEW c, NEW h \in Int, Genuine(T, c, h)
  PROVE  \A t \in T : t.time \in Nat /\ t.time = t.at
BY DEF Genuine, Time

(* No transaction of the chain is mined twice.                                    *)
MinedOnce(c, h) == \A j, k \in 0..h : \A t \in c[j].txs : t \in c[k].txs => j = k

(* A retention commit leaves what the scanned chain says under the new cutoff.    *)
LEMMA FaithfulExpiry ==
  ASSUME NEW T, NEW R, NEW B, NEW c, NEW h \in Int, NEW cut \in Nat,
         Faithful(T, R, B, c, h, cut),
         MinedOnce(c, h), NEW T2, NEW R2, NEW B2, NEW low \in Nat, cut <= low,
         \A t : t \in T2 <=> t \in T /\ low <= t.time,
         \A r : r \in R2 <=> r \in R /\ low <= r.expires,
         \A b \in B : (\E r \in R2 : b.index \in Elems(r.numbers)) => b \in B2
  PROVE  Faithful(T2, R2, B2, c, h, low)
<1>0. \A t \in T : t.time \in Nat /\ t.time = t.at
  BY GenuineTime DEF Faithful
<1>1. Genuine(T2, c, h)
  BY DEF Faithful, Genuine
<1>2. \A t \in T2 : \E s \in OkSubs(c, Start, h) : t.hash \in s.refs
  BY DEF Faithful
<1>3. ASSUME NEW s \in OkSubs(c, Start, h)
      PROVE  /\ Covered(s.refs, T2, c, h, low)
             /\ Apart(Src(T2, s))
             /\ \A x : x \in Decoded(Src(T2, s), s) <=>
                         x \in Decoded(Src(T, s), s) /\ low <= x.expires
  <2>1. \A x : x \in Src(T2, s) <=> x \in Src(T, s) /\ low <= x.time
    BY DEF Src
  <2>2. Apart(Src(T, s)) /\ \A x \in Src(T, s) : x.time \in Nat
    BY <1>0 DEF Faithful, Src
  <2>3. Apart(Src(T2, s))
    BY <2>1, <2>2 DEF Apart, Present
  <2>4. Covered(s.refs, T2, c, h, low)
    <3> SUFFICES ASSUME NEW t \in s.refs, NEW k \in 0..h, t \in c[k].txs, low <= k
                 PROVE  \E x \in T2 : x.hash = t
      BY DEF Covered
    <3>1. PICK x \in T : x.hash = t
      BY DEF Faithful, Covered
    <3>2. x.at = k
      BY <3>1 DEF Faithful, Genuine, MinedOnce
    <3> QED
      BY <1>0, <3>1, <3>2
  <2> QED
    BY <2>1, <2>2, <2>3, <2>4, ExpiryExact
<1>4. ASSUME NEW s \in OkSubs(c, Start, h), NEW x \in Decoded(Src(T2, s), s)
      PROVE  Record(x) \in R2 /\ Elems(x.blocks) \subseteq B2
  <2>1. x \in Decoded(Src(T, s), s) /\ low <= x.expires
    BY <1>3
  <2>2. Record(x) \in R2
    BY <2>1, RecordNumbers DEF Faithful
  <2>3. Elems(x.blocks) \subseteq B
    BY <2>1 DEF Faithful
  <2>4. \A b \in Elems(x.blocks) : b.index \in Elems(Record(x).numbers)
    BY RecordNumbers
  <2> QED
    BY <2>2, <2>3, <2>4
<1>5. ASSUME NEW r \in R2
      PROVE  \E s \in OkSubs(c, Start, h) : \E x \in Decoded(Src(T2, s), s) : r = Record(x)
  <2>1. PICK s \in OkSubs(c, Start, h) : \E x \in Decoded(Src(T, s), s) : r = Record(x)
    BY DEF Faithful
  <2>2. PICK x \in Decoded(Src(T, s), s) : r = Record(x)
    BY <2>1
  <2>3. low <= x.expires
    BY <2>2, RecordNumbers
  <2> QED
    BY <1>3, <2>2, <2>3
<1> QED
  BY <1>1, <1>2, <1>3, <1>4, <1>5 DEF Faithful

(* The commit of a scan adds what the scanned blocks say: an old submission gets  *)
(* no new source, since its sources were mined before it and kept unless expired. *)
LEMMA FaithfulScan ==
  ASSUME NEW T, NEW R, NEW B, NEW c, NEW h \in Int, NEW cut \in Nat,
         Faithful(T, R, B, c, h, cut), h = Nil \/ WellFormed(c, h),
         h = Nil \/ Start <= h,
         NEW d, NEW e \in Int, WellFormed(d, e), h < e, \A k \in 0..h : d[k] = c[k],
         NEW W, NEW N, Collected(W, T, N, cut, d, e),
         NEW C, Handled(OkSubs(d, After(h), e), {}, W, T \cup N, C),
         NEW R2, \A r : r \in R2 <=> r \in R \/ \E x \in C : r = Record(x),
         NEW B2, B \subseteq B2, \A x \in C : Elems(x.blocks) \subseteq B2
  PROVE  Faithful(T \cup N, R2, B2, d, e, cut)
<1> DEFINE Q == OkSubs(d, After(h), e)
           O == OkSubs(c, Start, h)
           A == T \cup N
<1>0. -1 <= h /\ e \in Nat /\ DOMAIN d = 0..e
  BY DEF Nil, WellFormed
<1>1. \A k \in 0..h : k \in 0..e
  BY <1>0
<1>2. \A s : s \in OkSubs(d, Start, e) <=> s \in O \/ s \in Q
  <2>1. \A k : k \in Start..e <=> k \in Start..h \/ k \in After(h)..e
    BY <1>0, BlobConfigAssumption DEF After, Nil
  <2>2. \A k \in Start..h : d[k] = c[k]
    BY <1>0, BlobConfigAssumption
  <2> QED
    BY <2>1, <2>2, OkSubsIs
<1>3. MinedOnce(d, e)
  BY DEF WellFormed, MinedOnce
<1>4. ASSUME NEW t \in T PROVE t.at \in 0..e /\ t.hash \in d[t.at].txs /\ t.e = d[t.at].e /\ t.time = Time(t.at)
  BY <1>1 DEF Faithful, Genuine
<1>5. Genuine(A, d, e)
  BY <1>4 DEF Collected, Genuine
<1>6. ASSUME NEW s \in O, NEW t \in s.refs
      PROVE  \E k \in 0..h : t \in c[k].txs
  <2>1. PICK k \in 0..h : s \in c[k].subs
    BY OkSubsIs, BlobConfigAssumption
  <2>2. h # Nil
    BY <2>1, <1>0 DEF Nil
  <2>3. t \in TxsUpto(c, k)
    BY <2>1, <2>2 DEF WellFormed
  <2> QED
    BY <2>1, <2>3, TxsUptoIs
<1>7. ASSUME NEW s \in O, NEW x \in N, x.hash \in s.refs PROVE x \in T
  <2>1. PICK k \in 0..h : x.hash \in c[k].txs
    BY <1>6, <1>7
  <2>2. x.at = k
    BY <1>1, <1>3, <2>1 DEF Collected, Genuine, MinedOnce
  <2>3. cut <= k
    BY <2>2 DEF Collected, Genuine, Time
  <2>4. PICK y \in T : y.hash = x.hash
    BY <1>7, <2>1, <2>3 DEF Faithful, Covered
  <2> QED
    BY <2>4 DEF Collected
<1>8. ASSUME NEW s \in O PROVE Src(A, s) = Src(T, s)
  BY <1>7 DEF Src
<1>9. ASSUME NEW t \in A PROVE \E s \in OkSubs(d, Start, e) : t.hash \in s.refs
  BY <1>2 DEF Faithful, Collected, Handled
<1>10. ASSUME NEW s \in O
       PROVE  /\ Covered(s.refs, A, d, e, cut)
              /\ Apart(Src(A, s))
              /\ \A x \in Decoded(Src(A, s), s) : Record(x) \in R2 /\ Elems(x.blocks) \subseteq B2
  <2>1. /\ Apart(Src(T, s))
        /\ \A x \in Decoded(Src(T, s), s) : Record(x) \in R2 /\ Elems(x.blocks) \subseteq B2
    BY DEF Faithful
  <2>2. ASSUME NEW t \in s.refs, NEW k \in 0..e, t \in d[k].txs, cut <= k
        PROVE  \E x \in A : x.hash = t
    <3>1. PICK j \in 0..h : t \in c[j].txs
      BY <1>6
    <3>2. j = k
      BY <1>1, <1>3, <2>2, <3>1 DEF MinedOnce
    <3> QED
      BY <2>2, <3>1, <3>2 DEF Faithful, Covered
  <2> QED
    BY <1>8, <2>1, <2>2 DEF Covered
<1>11. ASSUME NEW s \in Q
       PROVE  /\ Covered(s.refs, A, d, e, cut)
              /\ Apart(Src(A, s))
              /\ \A x \in Decoded(Src(A, s), s) : Record(x) \in R2 /\ Elems(x.blocks) \subseteq B2
  <2>1. Apart(Src(A, s)) /\ Decoded(Src(A, s), s) \subseteq C
    BY DEF Handled
  <2>2. ASSUME NEW t \in s.refs, NEW k \in 0..e, t \in d[k].txs, cut <= k
        PROVE  \E x \in A : x.hash = t
    <3>1. PICK x \in W : x.hash = t
      BY DEF Handled
    <3>2. x.at = k /\ x.time = k
      BY <1>3, <2>2, <3>1 DEF Collected, Genuine, MinedOnce, Time
    <3> QED
      BY <2>2, <3>1, <3>2 DEF Collected
  <2> QED
    BY <2>1, <2>2 DEF Covered
<1>12. ASSUME NEW r \in R2
       PROVE  \E s \in OkSubs(d, Start, e) : \E x \in Decoded(Src(A, s), s) : r = Record(x)
  <2>1. CASE r \in R
    <3>1. PICK s \in O : \E x \in Decoded(Src(T, s), s) : r = Record(x)
      BY <2>1 DEF Faithful
    <3> QED
      BY <1>2, <1>8, <3>1
  <2>2. CASE \E x \in C : r = Record(x)
    <3>1. PICK x \in C : r = Record(x)
      BY <2>2
    <3>2. PICK s \in Q : x \in Decoded(Src(A, s), s)
      BY DEF Handled
    <3> QED
      BY <1>2, <3>1, <3>2
  <2> QED
    BY <2>1, <2>2
<1> HIDE DEF Q, O, A
<1>13. Faithful(A, R2, B2, d, e, cut)
  BY <1>2, <1>5, <1>9, <1>10, <1>11, <1>12 DEF Faithful
<1> QED
  BY <1>13 DEF A

-------------------------------------------------------------------------------
(* The steps of a scan. *)

(* y, a transaction of the chain, was cached or stored before, or it is a new one  *)
(* and stored unless it has expired.                                              *)
Resolves(y, R, W, T, N, R2, W2, N2, cut, c, h) ==
  /\ cut \in Nat /\ h \in Int /\ \A t \in T : cut <= t.time
  /\ Genuine({y}, c, h)
  /\ R2 = R \cup {y.hash} /\ W2 = W \cup {y}
  /\ \/ y \in W \cup T /\ N2 = N
     \/ /\ \A x \in W \cup T : x.hash # y.hash
        /\ N2 = IF cut <= y.time THEN N \cup {y} ELSE N

(* S are the transactions among those that R refers to.                           *)
Among(S, T, N, R) == \A x : x \in S <=> x \in T \cup N /\ x.hash \in R

(* Those that R2 refers to are those that R does and y, unless it has expired.    *)
Gains(y, T, N, R, N2, R2, cut) ==
  \A S : Among(S, T, N, R) => Among(IF cut <= y.time THEN S \cup {y} ELSE S, T, N2, R2)

(* A source is resolved (resolveSource).                                          *)
LEMMA SourceResolved ==
  ASSUME NEW Q, NEW R, NEW W, NEW T, NEW N, NEW C, NEW cut, NEW c, NEW h,
         Gathered(Q, R, W, T, N, C, cut, c, h),
         NEW y, NEW R2, NEW W2, NEW N2, Resolves(y, R, W, T, N, R2, W2, N2, cut, c, h)
  PROVE  /\ Gathered(Q, R2, W2, T, N2, C, cut, c, h)
         /\ Gains(y, T, N, R, N2, R2, cut)
<1>0. /\ cut \in Nat /\ h \in Int /\ (\A t \in T : cut <= t.time) /\ Genuine({y}, c, h)
      /\ R2 = R \cup {y.hash} /\ W2 = W \cup {y}
      /\ Collected(W, T, N, cut, c, h) /\ Handled(Q, R, W, T \cup N, C)
      /\ \/ y \in W \cup T /\ N2 = N
         \/ /\ \A x \in W \cup T : x.hash # y.hash
            /\ N2 = IF cut <= y.time THEN N \cup {y} ELSE N
  BY DEF Resolves, Gathered
<1>1. \A x \in N2 : x \in N \/ (x = y /\ cut <= y.time)
  BY <1>0
<1>2. N \subseteq N2 /\ (cut <= y.time => y \in T \cup N2)
  BY <1>0 DEF Collected
<1>3. Genuine(W \cup {y}, c, h)
  BY <1>0 DEF Collected, Genuine
<1>4. \A x, z \in (W \cup {y}) \cup T : x.hash = z.hash => x = z
  BY <1>0 DEF Collected
<1>5. Collected(W \cup {y}, T, N2, cut, c, h)
  BY <1>0, <1>1, <1>2, <1>3, <1>4 DEF Collected
<1>6. ASSUME NEW s \in Q PROVE Src(T \cup N2, s) = Src(T \cup N, s)
  <2>1. ASSUME y \notin T \cup N PROVE N2 = N \/ y.hash \notin s.refs
    BY <1>0, <2>1 DEF Handled, Collected
  <2> QED
    BY <1>1, <1>2, <2>1 DEF Src
<1>7. Handled(Q, R \cup {y.hash}, W \cup {y}, T \cup N2, C)
  BY <1>0, <1>6 DEF Handled
<1>8. ASSUME NEW x \in T \cup N2, x.hash = y.hash PROVE x = y /\ cut <= y.time
  BY <1>0, <1>4, <1>5, <1>8 DEF Collected
<1>9. \A x : x \in T \cup N2 /\ x.hash \in R2 <=>
           (x \in T \cup N /\ x.hash \in R) \/ (x = y /\ cut <= y.time)
  BY <1>0, <1>1, <1>2, <1>8
<1>10. ASSUME NEW S, Among(S, T, N, R)
       PROVE  Among(IF cut <= y.time THEN S \cup {y} ELSE S, T, N2, R2)
  BY <1>9, <1>10 DEF Among
<1> QED
  BY <1>0, <1>5, <1>7, <1>10 DEF Gathered, Gains

(* The channels of a submission are decoded once its sources are there.           *)
LEMMA SubmissionDecoded ==
  ASSUME NEW W, NEW T, NEW Q, NEW C, NEW s, Handled(Q, s.refs, W, T, C),
         Apart(Src(T, s))
  PROVE  Handled(Q \cup {s}, {}, W, T, C \cup Decoded(Src(T, s), s))
BY DEF Handled

-------------------------------------------------------------------------------
(* The two commits. *)

(* An L2 block is in one channel only.                                            *)
LEMMA OneChannel ==
  ASSUME NEW T, NEW R, NEW I, NEW B, Coherent(T, R, I, B), NEW r \in R, NEW q \in R,
         NEW n, n \in Elems(r.numbers), n \in Elems(q.numbers)
  PROVE  r = q
<1>1. [number |-> n, id |-> r.id] \in I /\ [number |-> n, id |-> q.id] \in I
  BY DEF Coherent, IndexOf
<1>2. [number |-> n, id |-> r.id] = [number |-> n, id |-> q.id]
  BY <1>1, \A p, o \in I : p.number = o.number => p = o DEF Coherent, IndexOf
<1>3. r.id = q.id
  BY <1>2
<1> QED
  BY <1>3 DEF Coherent, ChannelsKeyed

(* The retention commit.                                                          *)
LEMMA RetainFaithful ==
  ASSUME BaseInv, StoreFaithful, pc = "retain", CommitBlob(v.st, Retained, {}, {})
  PROVE  StoreFaithful'
<1> DEFINE N == NewTxs({}, Retained.cutoff)
           K == NewChannels({}, Retained.cutoff)
<1>1. N = {} /\ K = {}
  BY DEF NewTxs, NewChannels
<1>2. /\ v.st = bstate /\ DOMAIN bstate = DOMAIN NoBlobState /\ v.target \in 0..MaxHeight
      /\ bstate.height \in Int /\ bstate.cutoff \in Nat
      /\ Cutoff(v.target) > bstate.cutoff
  BY InboxAssumption DEF BaseInv, StepOK, Idle, Retaining, CheckpointOK, StoreInv, StoreOK, Nil
<1>3. /\ Retained.cutoff \in Nat /\ DOMAIN Retained = DOMAIN NoBlobState
      /\ bstate.cutoff <= Retained.cutoff
      /\ Retained.hash = bstate.hash /\ Retained.height = bstate.height
  <2>1. Retained.cutoff = Cutoff(v.target) /\ Cutoff(v.target) \in 0..MaxHeight
    BY <1>2, StateFields, CutoffIn DEF Retained
  <2>2. Retained.hash = bstate.hash /\ Retained.height = bstate.height
    BY <1>2, StateFields DEF Retained
  <2> QED
    BY <1>2, <2>1, <2>2, InboxAssumption DEF Retained
<1>4. /\ \A t : t \in txs' <=> t \in TxsWith(N) /\ Retained.cutoff <= t.time
      /\ \A r : r \in channels' <=> r \in ChannelsWith(K) /\ Retained.cutoff <= r.expires
      /\ \A b : b \in BlocksWith(K) => (b \in blocks' <=>
            \A r \in ChannelsWith(K) : r \in channels' \/ b.index \notin Elems(r.numbers))
      /\ bstate'.cutoff = Retained.cutoff
  BY <1>3, CommitLeaves DEF BaseInv, StoreInv
<1>5. bstate'.hash = bstate.hash /\ bstate'.height = bstate.height
  BY <1>3, StateFields DEF CommitBlob
<1> HIDE DEF N, K
<1>6. TxsWith(N) = txs /\ ChannelsWith(K) = channels /\ BlocksWith(K) = blocks
  BY <1>1 DEF TxsWith, ChannelsWith, BlocksWith, NewBlocks
<1>7. ASSUME NEW b \in blocks, \E r \in channels' : b.index \in Elems(r.numbers)
      PROVE  b \in blocks'
  <2>1. PICK r \in channels' : b.index \in Elems(r.numbers)
    BY <1>7
  <2>2. Coherent(txs, channels, index, blocks) /\ r \in channels
    BY <1>4, <1>6 DEF BaseInv, StoreInv, StoreOK
  <2>3. \A q \in channels : b.index \in Elems(q.numbers) => q = r
    BY <2>1, <2>2, OneChannel
  <2> QED
    BY <1>4, <1>6, <2>1, <2>3
<1>8. MinedOnce(bstate.hash, bstate.height)
  <2>1. CASE bstate.height = Nil
    BY <2>1 DEF Nil, MinedOnce
  <2>2. CASE bstate.height # Nil
    BY <2>2 DEF BaseInv, CheckpointOK, Tracked, WellFormed, MinedOnce
  <2> QED
    BY <2>1, <2>2
<1>9. Faithful(txs', channels', blocks', bstate.hash, bstate.height, Retained.cutoff)
  BY <1>2, <1>3, <1>4, <1>6, <1>7, <1>8, FaithfulExpiry DEF StoreFaithful
<1> QED
  BY <1>4, <1>5, <1>9 DEF StoreFaithful

(* The channels a scan has found have not expired.                                *)
LEMMA FoundUnexpired ==
  ASSUME NEW W, NEW T, NEW N, NEW cut \in Nat, NEW c, NEW h \in Int,
         Collected(W, T, N, cut, c, h), \A t \in T : t.time \in Nat /\ cut <= t.time,
         NEW Q, NEW R, NEW C, Handled(Q, R, W, T \cup N, C)
  PROVE  \A x \in C : x.expires \in Nat /\ cut <= x.expires
<1> SUFFICES ASSUME NEW x \in C PROVE x.expires \in Nat /\ cut <= x.expires
  OBVIOUS
<1>1. PICK s \in Q : x \in Decoded(Src(T \cup N, s), s)
  BY DEF Handled
<1> DEFINE S == Src(T \cup N, s)
<1>2. \A t \in N : t.time \in Nat
  BY GenuineTime DEF Collected
<1>3. \A t \in S : t.time \in Nat /\ cut <= t.time
  BY <1>2 DEF Src, Collected
<1> HIDE DEF S
<1>4. PICK d \in DOMAIN EndOf : Complete(d, S) /\ x = Channel(d, S, s)
  BY <1>1, DecodedIs DEF S
<1> QED
  BY <1>3, <1>4, ChannelExpiry

(* The commit of a scan.                                                          *)
LEMMA ScanFaithful ==
  ASSUME BaseInv, StoreFaithful, ScanOK, pc = "commit",
         CommitBlob(v.st, Scanned, v.txs, v.channels)
  PROVE  StoreFaithful'
<1> DEFINE N == NewTxs(v.txs, Scanned.cutoff)
           K == NewChannels(v.channels, Scanned.cutoff)
<1>1. /\ v.st = bstate /\ DOMAIN bstate = DOMAIN NoBlobState /\ bstate.cutoff \in Nat
      /\ bstate.height \in Nil..MaxHeight /\ v.end \in 0..MaxHeight
      /\ v.from = From(bstate) /\ v.from <= v.end
  BY DEF BaseInv, StepOK, Idle, CheckpointOK, StoreInv, StoreOK, Scanning, Reading
<1>2. /\ Scanned.cutoff = bstate.cutoff /\ DOMAIN Scanned = DOMAIN NoBlobState
      /\ Scanned.height = v.end /\ Scanned.hash = v.anchor
  BY <1>1, StateFields DEF Scanned
<1>3. /\ Collected(v.cache, txs, v.txs, bstate.cutoff, v.anchor, v.end)
      /\ Handled(OkSubs(v.anchor, v.from, v.end), {}, v.cache, txs \cup v.txs, v.channels)
  BY <1>1 DEF ScanOK, ScanData, Gathered, All
<1>4. /\ bstate.height \in Int /\ v.end \in Int /\ bstate.height < v.end
      /\ v.from = After(bstate.height)
      /\ bstate.height = Nil \/ Start <= bstate.height
  BY <1>1, InboxAssumption, BlobConfigAssumption DEF BaseInv, CheckpointOK, From, After, Nil
<1>5. /\ \A t \in txs : t.time \in Nat /\ bstate.cutoff <= t.time
      /\ \A t \in v.txs : t.time \in Nat /\ bstate.cutoff <= t.time
      /\ \A r \in channels : bstate.cutoff <= r.expires
  BY <1>3 DEF BaseInv, StoreInv, StoreOK, Coherent, TxsKeyed, FoundOK, Collected
<1>6. \A x \in v.channels : x.expires \in Nat /\ bstate.cutoff <= x.expires
  BY <1>1, <1>3, <1>4, <1>5, FoundUnexpired
<1>7. N = v.txs /\ K = v.channels
  BY <1>1, <1>2, <1>5, <1>6 DEF NewTxs, NewChannels
<1>8. /\ \A t : t \in txs' <=> t \in TxsWith(N) /\ Scanned.cutoff <= t.time
      /\ \A r : r \in channels' <=> r \in ChannelsWith(K) /\ Scanned.cutoff <= r.expires
      /\ \A b : b \in BlocksWith(K) => (b \in blocks' <=>
            \A r \in ChannelsWith(K) : r \in channels' \/ b.index \notin Elems(r.numbers))
      /\ bstate'.cutoff = Scanned.cutoff
  BY <1>1, <1>2, CommitLeaves DEF BaseInv, StoreInv, FoundOK
<1>9. bstate'.hash = v.anchor /\ bstate'.height = v.end
  BY <1>2, StateFields DEF CommitBlob
<1> HIDE DEF N, K
<1>10. txs' = txs \cup v.txs
  BY <1>2, <1>5, <1>7, <1>8 DEF TxsWith
<1>11. \A r : r \in channels' <=> r \in channels \/ \E x \in v.channels : r = Record(x)
  <2>1. \A r : r \in ChannelsWith(K) <=> r \in channels \/ \E x \in v.channels : r = Record(x)
    BY <1>7 DEF ChannelsWith
  <2>2. \A r \in ChannelsWith(K) : Scanned.cutoff <= r.expires
    BY <1>2, <1>5, <1>6, <2>1, RecordNumbers
  <2> QED
    BY <1>8, <2>1, <2>2
<1>12. blocks \subseteq blocks' /\ \A x \in v.channels : Elems(x.blocks) \subseteq blocks'
  <2>1. \A r \in ChannelsWith(K) : r \in channels'
    BY <1>7, <1>11 DEF ChannelsWith
  <2>2. \A b \in BlocksWith(K) : b \in blocks'
    BY <1>8, <2>1
  <2> QED
    BY <1>7, <2>2 DEF BlocksWith, NewBlocks
<1>13. /\ bstate.height = Nil \/ WellFormed(bstate.hash, bstate.height)
       /\ WellFormed(v.anchor, v.end)
       /\ \A k \in 0..bstate.height : v.anchor[k] = bstate.hash[k]
  <2>1. Tracked(v.anchor, v.end) /\ Extends(v.anchor, v.st)
    BY DEF BaseInv, AnchorOK, Reading
  <2>2. bstate.height = Nil => 0..bstate.height = {}
    BY DEF Nil
  <2> QED
    BY <1>1, <2>1, <2>2 DEF Extends, Tracked, BaseInv, CheckpointOK
<1>14. Faithful(txs \cup v.txs, channels', blocks', v.anchor, v.end, bstate.cutoff)
  <2>1. Faithful(txs, channels, blocks, bstate.hash, bstate.height, bstate.cutoff)
    BY DEF StoreFaithful
  <2>2. Handled(OkSubs(v.anchor, After(bstate.height), v.end), {}, v.cache, txs \cup v.txs,
                v.channels)
    BY <1>3, <1>4
  <2> QED
    BY <1>1, <1>3, <1>4, <1>11, <1>12, <1>13, <2>1, <2>2, FaithfulScan
<1> QED
  BY <1>2, <1>8, <1>9, <1>10, <1>14 DEF StoreFaithful

-------------------------------------------------------------------------------
(* What a scan has found. *)

(* Outside a scan nothing is found.                                               *)
LEMMA Aside ==
  ASSUME pc' \notin Reading \cup {"publish"}, v'.cache = {}, v'.txs = {}, v'.channels = {},
         DOMAIN v'.block = DOMAIN NoBlock
  PROVE  ScanOK'
BY DEF ScanOK, Reading

(* A Step that ends.                                                              *)
LEMMA ReturnAside ==
  ASSUME NEW l \in Idle, Return(l)
  PROVE  ScanOK'
BY Aside DEF Return, Goto, Fresh, Idle, Reading

(* The rest of the system, when what was live is live only if it was before.      *)
LEMMA ScanKept ==
  ASSUME ScanOK, pc' = pc, v' = v, txs' = txs,
         pc \in Reading /\ Live(v.anchor, v.end)' => Live(v.anchor, v.end)
  PROVE  ScanOK'
<1>1. \A Q, R : ScanData(Q, R)' <=> ScanData(Q, R)
  BY DEF ScanData
<1>2. Past' = Past /\ Here' = Here /\ All' = All
  BY DEF Past, Here, All
<1>3. Pending' <=> Pending
  BY <1>2 DEF Pending
<1> QED
  BY <1>1, <1>2, <1>3 DEF ScanOK

(* Steps before the scan.                                                         *)
LEMMA BeforeScan ==
  ASSUME BaseInv, ScanOK,
         CheckHead \/ CheckHeight \/ StartStep \/ ReadTip \/ ReadConfirmed \/ CheckTarget
           \/ Retain \/ CaughtUp \/ OpenWindow \/ Retry \/ Halt \/ Poll,
         pc \notin Reading
  PROVE  ScanOK'
<1>0. DOMAIN v = DOMAIN Fresh
  BY DEF BaseInv, StepOK
<1>1. CASE StartStep
  <2>1. CASE v' = Fresh
    BY <1>1, <2>1, Aside DEF StartStep, Return, Goto, Fresh, Reading
  <2>2. CASE v' = [Fresh EXCEPT !.st = bstate] /\ pc' = "head1"
    BY <2>2, Aside DEF Fresh, Reading
  <2> QED
    BY <1>1, <2>1, <2>2, ReturnAside DEF StartStep, Goto, Return
<1>2. CASE CaughtUp
  BY <1>2, ReturnAside DEF CaughtUp, Idle
<1>3. CASE ~StartStep /\ ~CaughtUp
  <2>1. pc # "publish" /\ pc' \notin Reading \cup {"publish"}
    BY <1>3, AfterHeadIs, AfterHeightIs DEF CheckHead, CheckHeight, ReadTip, ReadConfirmed,
       CheckTarget, Retain, OpenWindow, Retry, Halt, Poll, Goto, Reading, AfterHead, AfterHeight
  <2>2. v'.cache = v.cache /\ v'.txs = v.txs /\ v'.channels = v.channels /\ v'.block = v.block
    BY <1>0, <1>3, FreshFields DEF CheckHead, CheckHeight, ReadTip, ReadConfirmed,
       CheckTarget, Retain, OpenWindow, Retry, Halt, Poll
  <2>3. v.cache = {} /\ v.txs = {} /\ v.channels = {} /\ DOMAIN v.block = DOMAIN NoBlock
    BY <2>1 DEF ScanOK
  <2> QED
    BY <2>1, <2>2, <2>3, Aside
<1> QED
  BY <1>1, <1>2, <1>3

(* The checks after the scan.                                                     *)
LEMMA AfterScan ==
  ASSUME BaseInv, ScanOK, CheckHead \/ CheckHeight \/ CheckEnd, pc \in Reading
  PROVE  ScanOK'
<1>1. /\ v' = v /\ txs' = txs
      /\ pc' \in {"height3", "commit", "head3"}
      /\ pc \in {"head3", "height3"} \/ (pc = "end" /\ Confirms(v.end, v.anchor))
  BY AfterHeadIs, AfterHeightIs
  DEF CheckHead, CheckHeight, CheckEnd, Goto, Reading, AfterHead, AfterHeight, storeVars, dataVars
<1>2. ScanData(All, {})
  <2>1. CASE pc \in {"head3", "height3"}
    BY <2>1 DEF ScanOK
  <2>2. CASE pc = "end" /\ Confirms(v.end, v.anchor)
    <3>1. Live(v.anchor, v.end)
      BY <2>2 DEF Confirms, AnchorHolds, Live
    <3> QED
      BY <2>2, <3>1 DEF ScanOK, Reading
  <2> QED
    BY <1>1, <2>1, <2>2
<1>3. ScanData(All, {})'
  BY <1>1, <1>2 DEF ScanData, All
<1> QED
  BY <1>1, <1>3 DEF ScanOK, Reading

(* The submissions of a range of blocks and of the block after it.                *)
LEMMA OkSubsNext ==
  ASSUME NEW c, NEW from \in Int, NEW at \in Int, from <= at
  PROVE  OkSubs(c, from, at) = OkSubs(c, from, at - 1) \cup OkSubs(c, at, at)
<1>1. \A k : k \in from..at <=> k \in from..(at - 1) \/ k \in at..at
  OBVIOUS
<1> QED
  BY <1>1, OkSubsIs

(* The submissions of one block.                                                  *)
LEMMA OkSubsOne ==
  ASSUME NEW c, NEW k \in Int
  PROVE  OkSubs(c, k, k) = {s \in c[k].subs : InForce(s)}
<1>1. k..k = {k}
  OBVIOUS
<1>2. UNION {c[j].subs : j \in k..k} = c[k].subs
  BY <1>1
<1> QED
  BY <1>2, Zenon DEF OkSubs

(* The window is anchored: nothing has been read yet.                             *)
LEMMA AnchorScan ==
  ASSUME BaseInv, ScanOK, AnchorWindow
  PROVE  ScanOK'
<1>0. /\ DOMAIN v = DOMAIN Fresh /\ v.from \in Int /\ v.end \in Int /\ v.from <= v.end
      /\ DOMAIN v.block = {"at", "e"}
  BY InboxAssumption DEF BaseInv, StepOK, ScanOK, AnchorWindow, Scanning, NoBlock
<1>1. /\ pc = "anchor" /\ pc' = "block" /\ txs' = txs
      /\ v' = [v EXCEPT !.anchor = HashAt(v.end), !.block.at = v.from]
  BY DEF AnchorWindow, Goto, storeVars, dataVars
<1>2. /\ v'.from = v.from /\ v'.end = v.end /\ v'.cache = v.cache /\ v'.txs = v.txs
      /\ v'.channels = v.channels /\ v'.block.at = v.from /\ DOMAIN v'.block = {"at", "e"}
  BY <1>0, <1>1, FreshFields
<1>3. v.cache = {} /\ v.txs = {} /\ v.channels = {}
  BY <1>1 DEF ScanOK, Reading
<1>4. Past' = {}
  <2>1. Past' = OkSubs(v'.anchor, v.from, v.from - 1)
    BY <1>2 DEF Past
  <2>2. \A k : k \notin v.from..(v.from - 1)
    BY <1>0
  <2> QED
    BY <2>1, <2>2, OkSubsIs
<1>5. ScanData({}, {})'
  <2>1. \A x, y \in txs : x.hash = y.hash => x = y
    BY DEF BaseInv, StoreInv, StoreOK, Coherent, TxsKeyed
  <2> QED
    BY <1>1, <1>2, <1>3, <2>1 DEF ScanData, Gathered, Collected, Handled, Genuine
<1>6. v'.block.at \in v'.from..v'.end /\ DOMAIN v'.block = DOMAIN NoBlock
  BY <1>0, <1>2 DEF NoBlock
<1> QED
  BY <1>1, <1>4, <1>5, <1>6 DEF ScanOK, Reading

(* Where a scan is.                                                               *)
LEMMA Reader ==
  ASSUME BaseInv, ScanOK, pc \in {"block", "subs", "refs"}
  PROVE  /\ DOMAIN v = DOMAIN Fresh /\ DOMAIN v.block = {"at", "e"} /\ v.st = bstate
         /\ v.from \in Nat /\ v.end \in Nat /\ v.block.at \in Nat
         /\ v.from <= v.block.at /\ v.block.at <= v.end
         /\ Live(v.anchor, v.end) => \A k \in 0..v.end : v.anchor[k] = chain[k]
<1>1. /\ DOMAIN v = DOMAIN Fresh /\ v.from \in 0..MaxHeight + 1 /\ v.end \in 0..MaxHeight
      /\ v.st = bstate
  BY DEF BaseInv, StepOK, Idle
<1>2. v.block.at \in v.from..v.end /\ DOMAIN v.block = {"at", "e"}
  BY DEF ScanOK, NoBlock
<1> QED
  BY <1>1, <1>2, InboxAssumption DEF Live, HashAt

(* A block is read.                                                               *)
LEMMA BlockScan ==
  ASSUME BaseInv, ScanOK, ReadBlock
  PROVE  ScanOK'
<1>1. /\ pc = "block" /\ pc' = "subs" /\ txs' = txs /\ UNCHANGED chainVars
      /\ v' = [v EXCEPT !.block.e = chain[v.block.at].e,
                        !.subs = {s \in chain[v.block.at].subs : s.auth}]
  BY DEF ReadBlock, Goto, storeVars, dataVars
<1>2. /\ v'.from = v.from /\ v'.end = v.end /\ v'.cache = v.cache /\ v'.txs = v.txs
      /\ v'.channels = v.channels /\ v'.anchor = v.anchor /\ v'.st = v.st
      /\ v'.block.at = v.block.at /\ DOMAIN v'.block = {"at", "e"}
      /\ v'.subs = {s \in chain[v.block.at].subs : s.auth}
  BY <1>1, Reader, FreshFields
<1>3. Past' = Past /\ Here' = Here
  BY <1>2 DEF Past, Here
<1>4. ASSUME Live(v.anchor, v.end)'
      PROVE  Pending' /\ ScanData(Past \cup (Here \ v.subs), {})'
  <2>1. Live(v.anchor, v.end)
    BY <1>1, <1>2, <1>4, SameChain
  <2>2. ScanData(Past, {})
    BY <1>1, <2>1 DEF ScanOK, Reading
  <2>3. \A s : s \in Here <=> s \in v'.subs /\ s.ok
    <3>1. v.anchor[v.block.at] = chain[v.block.at] /\ v.block.at \in Int
      BY <1>1, <2>1, Reader
    <3>2. Here = {s \in v.anchor[v.block.at].subs : InForce(s)}
      BY <3>1, OkSubsOne DEF Here
    <3> QED
      BY <1>2, <3>1, <3>2 DEF InForce
  <2>4. (Past \cup (Here \ v.subs))' = Past
    BY <1>3, <2>3
  <2>5. ScanData(Past, {})'
    BY <1>1, <1>2, <1>3, <2>2 DEF ScanData
  <2> QED
    BY <1>3, <2>3, <2>4, <2>5 DEF Pending
<1>5. v'.block.at \in v'.from..v'.end /\ DOMAIN v'.block = DOMAIN NoBlock
  BY <1>1, <1>2, Reader DEF NoBlock
<1> QED
  BY <1>1, <1>4, <1>5 DEF ScanOK, Reading

(* The next submission.                                                           *)
LEMMA ReceiptScan ==
  ASSUME BaseInv, ScanOK, ReadReceipt
  PROVE  ScanOK'
<1>1. PICK s \in v.subs :
        s.ok /\ v' = [v EXCEPT !.sub = s, !.subs = @ \ {s}, !.refs = s.refs, !.sources = {}]
  BY DEF ReadReceipt
<1>2. pc = "subs" /\ pc' = "refs" /\ txs' = txs /\ UNCHANGED chainVars
  BY DEF ReadReceipt, Goto, storeVars, dataVars
<1>3. /\ v'.from = v.from /\ v'.end = v.end /\ v'.cache = v.cache /\ v'.txs = v.txs
      /\ v'.channels = v.channels /\ v'.anchor = v.anchor /\ v'.st = v.st
      /\ v'.block = v.block /\ v'.sub = s /\ v'.subs = v.subs \ {s}
      /\ v'.refs = s.refs /\ v'.sources = {}
  BY <1>1, <1>2, Reader, FreshFields
<1>4. Past' = Past /\ Here' = Here
  BY <1>3 DEF Past, Here
<1>5. ASSUME Live(v.anchor, v.end)'
      PROVE  /\ Pending' /\ v'.sub \in Here' \ v'.subs /\ v'.refs \subseteq v'.sub.refs
             /\ v'.sources = {x \in txs' \cup v'.txs : x.hash \in v'.sub.refs \ v'.refs}
             /\ ScanData(Past \cup (Here \ (v.subs \cup {v.sub})), v.sub.refs \ v.refs)'
  <2>1. Live(v.anchor, v.end)
    BY <1>2, <1>3, <1>5, SameChain
  <2>2. Pending /\ ScanData(Past \cup (Here \ v.subs), {})
    BY <1>2, <2>1 DEF ScanOK, Reading
  <2>3. /\ (Past \cup (Here \ (v.subs \cup {v.sub})))' = Past \cup (Here \ v.subs)
        /\ v'.sub.refs \ v'.refs = {}
    BY <1>3, <1>4
  <2>4. Gathered(Past \cup (Here \ v.subs), {}, v'.cache, txs', v'.txs, v'.channels,
                 v'.st.cutoff, v'.anchor, v'.end)
    BY <1>2, <1>3, <2>2 DEF ScanData
  <2>5. ScanData(Past \cup (Here \ (v.subs \cup {v.sub})), v.sub.refs \ v.refs)'
    BY <2>2, <2>3, <2>4 DEF ScanData
  <2> QED
    BY <1>1, <1>3, <1>4, <2>2, <2>3, <2>5 DEF Pending
<1>6. v'.block.at \in v'.from..v'.end /\ DOMAIN v'.block = DOMAIN NoBlock
  BY <1>2, <1>3, Reader DEF NoBlock
<1> QED
  BY <1>2, <1>5, <1>6 DEF ScanOK, Reading

(* A submission that failed is not in force.                                      *)
LEMMA SkipScan ==
  ASSUME BaseInv, ScanOK, SkipFailed
  PROVE  ScanOK'
<1>1. PICK s \in v.subs : ~s.ok /\ v' = [v EXCEPT !.subs = @ \ {s}]
  BY DEF SkipFailed
<1>2. pc = "subs" /\ pc' = "subs" /\ txs' = txs /\ UNCHANGED chainVars
  BY DEF SkipFailed, storeVars, dataVars
<1>3. /\ v'.from = v.from /\ v'.end = v.end /\ v'.cache = v.cache /\ v'.txs = v.txs
      /\ v'.channels = v.channels /\ v'.anchor = v.anchor /\ v'.st = v.st
      /\ v'.block = v.block /\ v'.subs = v.subs \ {s}
  BY <1>1, <1>2, Reader, FreshFields
<1>4. Past' = Past /\ Here' = Here
  BY <1>3 DEF Past, Here
<1>5. ASSUME Live(v.anchor, v.end)'
      PROVE  Pending' /\ ScanData(Past \cup (Here \ v.subs), {})'
  <2>1. Live(v.anchor, v.end)
    BY <1>2, <1>3, <1>5, SameChain
  <2>2. Pending /\ ScanData(Past \cup (Here \ v.subs), {})
    BY <1>2, <2>1 DEF ScanOK, Reading
  <2>3. s \notin Here
    BY <1>1, OkSubsIs DEF Here, InForce
  <2>4. (Past \cup (Here \ v.subs))' = Past \cup (Here \ v.subs)
    BY <1>3, <1>4, <2>3
  <2>5. Gathered(Past \cup (Here \ v.subs), {}, v'.cache, txs', v'.txs, v'.channels,
                 v'.st.cutoff, v'.anchor, v'.end)
    BY <1>2, <1>3, <2>2 DEF ScanData
  <2>6. ScanData(Past \cup (Here \ v.subs), {})'
    BY <2>4, <2>5 DEF ScanData
  <2>7. Pending'
    BY <1>3, <1>4, <2>2 DEF Pending
  <2> QED
    BY <2>6, <2>7
<1>6. v'.block.at \in v'.from..v'.end /\ DOMAIN v'.block = DOMAIN NoBlock
  BY <1>2, <1>3, Reader DEF NoBlock
<1> QED
  BY <1>2, <1>5, <1>6 DEF ScanOK, Reading

(* The next block, or the end of the window.                                      *)
LEMMA NextScan ==
  ASSUME BaseInv, ScanOK, NextBlock
  PROVE  ScanOK'
<1>1. pc = "subs" /\ v.subs = {} /\ txs' = txs /\ UNCHANGED chainVars
  BY DEF NextBlock, storeVars, dataVars
<1>2. ASSUME Live(v.anchor, v.end)
      PROVE  ScanData(OkSubs(v.anchor, v.from, v.block.at), {})
  <2>1. ScanData(Past \cup (Here \ v.subs), {})
    BY <1>1, <1>2 DEF ScanOK, Reading
  <2>2. Here \ v.subs = Here
    BY <1>1
  <2>3. OkSubs(v.anchor, v.from, v.block.at) = Past \cup Here
    BY <1>1, Reader, OkSubsNext DEF Past, Here
  <2> QED
    BY <2>1, <2>2, <2>3
<1>3. CASE v.block.at = v.end
  <2>1. v' = v /\ pc' = "end"
    BY <1>3 DEF NextBlock, Goto
  <2>2. ASSUME Live(v.anchor, v.end)' PROVE ScanData(All, {})'
    <3>1. Live(v.anchor, v.end)
      BY <1>1, <2>1, <2>2, SameChain
    <3> QED
      BY <1>1, <1>2, <1>3, <2>1, <3>1 DEF ScanData, All
  <2>3. DOMAIN v'.block = DOMAIN NoBlock
    BY <2>1 DEF ScanOK
  <2> QED
    BY <2>1, <2>2, <2>3 DEF ScanOK, Reading
<1>4. CASE v.block.at # v.end
  <2>1. v' = [v EXCEPT !.block.at = @ + 1] /\ pc' = "block"
    BY <1>4 DEF NextBlock, Goto
  <2>2. /\ v'.from = v.from /\ v'.end = v.end /\ v'.cache = v.cache /\ v'.txs = v.txs
        /\ v'.channels = v.channels /\ v'.anchor = v.anchor /\ v'.st = v.st
        /\ v'.block.at = v.block.at + 1 /\ DOMAIN v'.block = {"at", "e"}
    BY <1>1, <2>1, Reader, FreshFields
  <2>3. v'.block.at - 1 = v.block.at /\ v'.block.at \in v'.from..v'.end
    BY <1>1, <1>4, <2>2, Reader
  <2>4. ASSUME Live(v.anchor, v.end)' PROVE ScanData(Past, {})'
    <3>1. Live(v.anchor, v.end)
      BY <1>1, <2>2, <2>4, SameChain
    <3>2. Past' = OkSubs(v.anchor, v.from, v.block.at)
      BY <2>2, <2>3 DEF Past
    <3> QED
      BY <1>1, <1>2, <2>2, <3>1, <3>2 DEF ScanData
  <2> QED
    BY <2>1, <2>2, <2>3, <2>4 DEF ScanOK, Reading, NoBlock
<1> QED
  BY <1>3, <1>4

(* While the window's last block stands, the source that is resolved is one of    *)
(* its chain, as it was mined.                                                    *)
LEMMA SourceGenuine ==
  ASSUME BaseInv, StoreFaithful, ScanOK, ResolveSource, Live(v.anchor, v.end)
  PROVE  \E t \in v.refs : \E y, isNew :
           /\ y.hash = t /\ Genuine({y}, v.anchor, v.end) /\ Use(y, isNew)
           /\ \/ isNew = FALSE /\ y \in v.cache \cup txs
              \/ isNew = TRUE /\ \A x \in v.cache \cup txs : x.hash # t
<1>0. pc = "refs"
  BY DEF ResolveSource
<1>1. PICK t \in v.refs : ReuseSource(t) \/ \E missing \in BOOLEAN : FetchSource(t, missing)
  BY DEF ResolveSource
<1> DEFINE k == Location(t)
<1>2. ASSUME Located(t), Ordered(t)
      PROVE  k \in 0..v.end /\ t \in v.anchor[k].txs /\ chain[k] = v.anchor[k]
  <2>1. k \in 0..tip /\ t \in chain[k].txs /\ tip \in Nat
    BY <1>2, LocationIn, InboxAssumption DEF BaseInv, ChainOK, WellFormed
  <2>2. k <= v.block.at
    BY <1>0, <1>2, <2>1, Reader DEF Ordered
  <2> HIDE DEF k
  <2>3. k \in 0..v.end
    BY <1>0, <2>1, <2>2, Reader
  <2> QED
    BY <1>0, <2>1, <2>3, Reader
<1> HIDE DEF k
<1>3. CASE ReuseSource(t)
  <2>1. PICK y \in Known(t) : Located(t) /\ Ordered(t) /\ Unmoved(y) /\ Use(y, FALSE)
    BY <1>3 DEF ReuseSource
  <2>2. y \in v.cache \cup txs /\ y.hash = t
    BY DEF Known
  <2>3. y.at = k /\ y.e = chain[k].e
    BY <2>1, <2>2 DEF Unmoved, k
  <2>4. y.time = Time(y.at)
    <3>1. Genuine(txs, bstate.hash, bstate.height)
      BY DEF StoreFaithful, Faithful
    <3>2. Genuine(v.cache, v.anchor, v.end)
      BY <1>0 DEF ScanOK, Reading, ScanData, Gathered, Collected
    <3> QED
      BY <2>2, <3>1, <3>2 DEF Genuine
  <2>5. Genuine({y}, v.anchor, v.end)
    BY <1>2, <2>1, <2>2, <2>3, <2>4 DEF Genuine
  <2> QED
    BY <2>1, <2>2, <2>5, Zenon
<1>4. ASSUME NEW missing \in BOOLEAN, FetchSource(t, missing)
      PROVE  \E y, isNew :
               /\ y.hash = t /\ Genuine({y}, v.anchor, v.end) /\ Use(y, isNew)
               /\ isNew = TRUE /\ \A x \in v.cache \cup txs : x.hash # t
  <2>1. Known(t) = {} /\ Located(t) /\ Ordered(t) /\ Use(Fetched(t, missing), TRUE)
    BY <1>4 DEF FetchSource
  <2> DEFINE y == Fetched(t, missing)
  <2>2. y.hash = t /\ y.at = k /\ y.e = chain[k].e /\ y.time = Time(k)
    BY DEF Fetched, k
  <2>3. \A x \in v.cache \cup txs : x.hash # t
    BY <2>1 DEF Known
  <2>4. Genuine({y}, v.anchor, v.end)
    <3> HIDE DEF y
    <3> QED
      BY <1>2, <2>1, <2>2 DEF Genuine
  <2> QED
    BY <2>1, <2>2, <2>3, <2>4, Zenon
<1> QED
  BY <1>1, <1>3, <1>4

(* A source is resolved.                                                          *)
LEMMA ResolveScan ==
  ASSUME BaseInv, StoreFaithful, ScanOK, ResolveSource
  PROVE  ScanOK'
<1>1. pc = "refs" /\ pc' = "refs" /\ txs' = txs /\ UNCHANGED chainVars
  BY DEF ResolveSource, storeVars, dataVars
<1>2. PICK z, b : Use(z, b)
  <2>1. PICK t \in v.refs : ReuseSource(t) \/ \E missing \in BOOLEAN : FetchSource(t, missing)
    BY DEF ResolveSource
  <2> QED
    BY <2>1, Zenon DEF ReuseSource, FetchSource
<1>3. /\ v'.from = v.from /\ v'.end = v.end /\ v'.anchor = v.anchor /\ v'.st = v.st
      /\ v'.block = v.block /\ v'.sub = v.sub /\ v'.subs = v.subs /\ v'.channels = v.channels
  BY <1>1, <1>2, Reader, FreshFields DEF Use
<1>4. Past' = Past /\ Here' = Here
  BY <1>3 DEF Past, Here
<1>5. ASSUME Live(v.anchor, v.end)'
      PROVE  /\ Pending' /\ v'.sub \in Here' \ v'.subs /\ v'.refs \subseteq v'.sub.refs
             /\ v'.sources = {x \in txs' \cup v'.txs : x.hash \in v'.sub.refs \ v'.refs}
             /\ ScanData(Past \cup (Here \ (v.subs \cup {v.sub})), v.sub.refs \ v.refs)'
  <2>1. Live(v.anchor, v.end)
    BY <1>1, <1>3, <1>5, SameChain
  <2> DEFINE Q == Past \cup (Here \ (v.subs \cup {v.sub}))
             R == v.sub.refs \ v.refs
             cut == v.st.cutoff
  <2>2. /\ Pending /\ v.sub \in Here \ v.subs /\ v.refs \subseteq v.sub.refs
        /\ v.sources = {x \in txs \cup v.txs : x.hash \in R}
        /\ Gathered(Q, R, v.cache, txs, v.txs, v.channels, cut, v.anchor, v.end)
    BY <1>1, <2>1 DEF ScanOK, Reading, ScanData
  <2>3. PICK t \in v.refs : \E y, isNew :
           /\ y.hash = t /\ Genuine({y}, v.anchor, v.end) /\ Use(y, isNew)
           /\ \/ isNew = FALSE /\ y \in v.cache \cup txs
              \/ isNew = TRUE /\ \A x \in v.cache \cup txs : x.hash # t
    BY <2>1, SourceGenuine
  <2>4. PICK y, isNew :
           /\ y.hash = t /\ Genuine({y}, v.anchor, v.end) /\ Use(y, isNew)
           /\ \/ isNew = FALSE /\ y \in v.cache \cup txs
              \/ isNew = TRUE /\ \A x \in v.cache \cup txs : x.hash # t
    BY <2>3, Zenon
  <2>5. cut \in Nat /\ y.time \in Nat /\ v.end \in Int /\ \A x \in txs : cut <= x.time
    <3>1. v.st = bstate /\ v.end \in Nat
      BY <1>1, Reader
    <3>2. y.time \in Nat
      BY <2>4, <3>1, GenuineTime
    <3> QED
      BY <3>1, <3>2 DEF BaseInv, StoreInv, StoreOK
  <2>6. y.time >= cut <=> cut <= y.time
    BY <2>5
  <2>7. /\ v'.refs = v.refs \ {t} /\ v'.cache = v.cache \cup {y}
        /\ v'.sources = (IF y.time >= cut THEN v.sources \cup {y} ELSE v.sources)
        /\ v'.txs = (IF isNew /\ y.time >= cut THEN v.txs \cup {y} ELSE v.txs)
    BY <1>1, <2>4, Reader, FreshFields DEF Use
  <2> HIDE DEF Q, R, cut
  <2>8. Resolves(y, R, v.cache, txs, v.txs, R \cup {y.hash}, v'.cache, v'.txs, cut,
                 v.anchor, v.end)
    BY <2>4, <2>5, <2>6, <2>7 DEF Resolves
  <2>9. /\ Gathered(Q, R \cup {y.hash}, v'.cache, txs, v'.txs, v.channels, cut, v.anchor, v.end)
        /\ Gains(y, txs, v.txs, R, v'.txs, R \cup {y.hash}, cut)
    BY <2>2, <2>8, SourceResolved
  <2>10. R \cup {y.hash} = v'.sub.refs \ v'.refs
    BY <1>3, <2>2, <2>3, <2>4, <2>7 DEF R
  <2>11. v'.sources = {x \in txs' \cup v'.txs : x.hash \in v'.sub.refs \ v'.refs}
    <3>1. Among(v.sources, txs, v.txs, R)
      BY <2>2 DEF Among
    <3>2. Among(v'.sources, txs, v'.txs, R \cup {y.hash})
      BY <2>6, <2>7, <2>9, <3>1 DEF Gains
    <3> QED
      BY <1>1, <2>10, <3>2 DEF Among
  <2>12. ScanData(Past \cup (Here \ (v.subs \cup {v.sub})), v.sub.refs \ v.refs)'
    <3>1. (Past \cup (Here \ (v.subs \cup {v.sub})))' = Q /\ v'.st.cutoff = cut
      BY <1>3, <1>4 DEF Q, cut
    <3> QED
      BY <1>1, <1>3, <2>9, <2>10, <3>1 DEF ScanData
  <2> QED
    BY <1>3, <1>4, <2>2, <2>7, <2>11, <2>12 DEF Pending
<1>6. v'.block.at \in v'.from..v'.end /\ DOMAIN v'.block = DOMAIN NoBlock
  BY <1>1, <1>3, Reader DEF NoBlock
<1> QED
  BY <1>1, <1>5, <1>6 DEF ScanOK, Reading

(* The channels of a submission are decoded.                                      *)
LEMMA DecodeScan ==
  ASSUME BaseInv, ScanOK, DecodeChannels
  PROVE  ScanOK'
<1>1. /\ pc = "refs" /\ pc' = "subs" /\ txs' = txs /\ UNCHANGED chainVars
      /\ v.refs = {} /\ Decodable(v.sources, v.sub)
      /\ v' = [v EXCEPT !.channels = @ \cup Decoded(v.sources, v.sub),
                        !.sub = NoSub, !.sources = {}]
  BY DEF DecodeChannels, Goto, storeVars, dataVars
<1>2. /\ v'.from = v.from /\ v'.end = v.end /\ v'.cache = v.cache /\ v'.txs = v.txs
      /\ v'.anchor = v.anchor /\ v'.st = v.st /\ v'.block = v.block /\ v'.subs = v.subs
      /\ v'.channels = v.channels \cup Decoded(v.sources, v.sub)
  BY <1>1, Reader, FreshFields
<1>3. Past' = Past /\ Here' = Here
  BY <1>2 DEF Past, Here
<1>4. ASSUME Live(v.anchor, v.end)'
      PROVE  Pending' /\ ScanData(Past \cup (Here \ v.subs), {})'
  <2>1. Live(v.anchor, v.end)
    BY <1>1, <1>2, <1>4, SameChain
  <2> DEFINE Q == Past \cup (Here \ (v.subs \cup {v.sub}))
             A == txs \cup v.txs
  <2>2. /\ Pending /\ v.sub \in Here \ v.subs
        /\ v.sources = {x \in A : x.hash \in v.sub.refs \ v.refs}
        /\ ScanData(Q, v.sub.refs \ v.refs)
    BY <1>1, <2>1 DEF ScanOK, Reading
  <2>3. v.sub.refs \ v.refs = v.sub.refs
    BY <1>1
  <2>4. v.sources = Src(A, v.sub)
    BY <2>2, <2>3 DEF Src
  <2>5. Apart(Src(A, v.sub))
    BY <1>1, <2>4 DEF Decodable, Apart
  <2>6. /\ Collected(v.cache, txs, v.txs, v.st.cutoff, v.anchor, v.end)
        /\ Handled(Q, v.sub.refs, v.cache, A, v.channels)
    BY <2>2, <2>3 DEF ScanData, Gathered
  <2>7. Past \cup (Here \ v.subs) = Q \cup {v.sub}
    BY <2>2
  <2> HIDE DEF Q, A
  <2>8. Handled(Q \cup {v.sub}, {}, v.cache, A, v.channels \cup Decoded(Src(A, v.sub), v.sub))
    BY <2>5, <2>6, SubmissionDecoded
  <2>9. Gathered(Past \cup (Here \ v.subs), {}, v'.cache, txs', v'.txs, v'.channels,
                 v'.st.cutoff, v'.anchor, v'.end)
    BY <1>1, <1>2, <2>4, <2>6, <2>7, <2>8 DEF Gathered, A
  <2>10. (Past \cup (Here \ v.subs))' = Past \cup (Here \ v.subs)
    BY <1>2, <1>3
  <2>11. ScanData(Past \cup (Here \ v.subs), {})'
    BY <2>9, <2>10 DEF ScanData
  <2> QED
    BY <1>2, <1>3, <2>2, <2>11 DEF Pending
<1>5. v'.block.at \in v'.from..v'.end /\ DOMAIN v'.block = DOMAIN NoBlock
  BY <1>1, <1>2, Reader DEF NoBlock
<1> QED
  BY <1>1, <1>4, <1>5 DEF ScanOK, Reading

(* A step of the chain.                                                           *)
LEMMA ChainScan ==
  ASSUME BaseInv, ScanOK, Chain
  PROVE  ScanOK'
<1>1. pc' = pc /\ v' = v /\ txs' = txs /\ ChainNext
  BY DEF Chain, storeVars, dataVars
<1>2. ASSUME pc \in Reading, Live(v.anchor, v.end)' PROVE Live(v.anchor, v.end)
  <2>1. Tracked(v.anchor, v.end) /\ ChainOK
    BY <1>2 DEF BaseInv, AnchorOK
  <2>2. \A c, h : WellFormed(c, h) /\ (Live(c, h) \/ Dead(c, h)) /\ Live(c, h)' => Live(c, h)
    BY <1>1, <2>1, TrackedStep
  <2> QED
    BY <1>1, <1>2, <2>1, <2>2 DEF Tracked
<1> QED
  BY <1>1, <1>2, ScanKept

(* Every step keeps what is known of a scan.                                      *)
LEMMA ScanStep ==
  ASSUME BaseInv, StoreFaithful, ScanOK, [Next]_vars
  PROVE  ScanOK'
<1>1. CASE Chain
  BY <1>1, ChainScan
<1>2. CASE CheckHead \/ CheckHeight
  BY <1>2, BeforeScan, AfterScan
<1>3. CASE StartStep \/ ReadTip \/ ReadConfirmed \/ CheckTarget \/ Retain \/ CaughtUp \/ OpenWindow
            \/ Retry \/ Halt \/ Poll
  <2>1. pc \notin Reading
    BY <1>3 DEF StartStep, ReadTip, ReadConfirmed, CheckTarget, Retain, CaughtUp, OpenWindow,
       Retry, Halt, Poll, Reading
  <2> QED
    BY <1>3, <2>1, BeforeScan
<1>4. CASE AnchorWindow \/ ReadBlock \/ ReadReceipt \/ SkipFailed \/ NextBlock
            \/ ResolveSource \/ DecodeChannels
  BY <1>4, AnchorScan, BlockScan, ReceiptScan, SkipScan, NextScan, ResolveScan, DecodeScan
<1>5. CASE CheckEnd
  BY <1>5, AfterScan DEF CheckEnd, Reading
<1>6. CASE CommitScan
  <2>1. pc' = "publish" /\ v' = v
    BY <1>6 DEF CommitScan, Goto
  <2> QED
    BY <2>1 DEF ScanOK, Reading
<1>7. CASE ScanInvalid \/ Publish \/ AnchorChanged \/ CommitRejected \/ Faults
  <2>1. PICK l \in Idle : Return(l)
    BY <1>7 DEF ScanInvalid, Publish, AnchorChanged, CommitRejected, Faults, CommitFails,
       CommitRefused, CallFails, BeaconFails, BadAnswer, Restart, Idle
  <2> QED
    BY <2>1, ReturnAside
<1>8. CASE Others \/ Stopped \/ UNCHANGED vars
  <2>1. pc' = pc /\ v' = v /\ txs' = txs /\ UNCHANGED chainVars
    BY <1>8 DEF Others, FatalElsewhere, DepositStored, Stopped, vars, chainVars, storeVars, dataVars
  <2>2. Live(v.anchor, v.end)' => Live(v.anchor, v.end)
    BY <2>1, SameChain
  <2> QED
    BY <2>1, <2>2, ScanKept
<1> QED
  BY <1>1, <1>2, <1>3, <1>4, <1>5, <1>6, <1>7, <1>8 DEF Next, Worker, Prepare, Scan

(* Every step leaves the database that of the scanned chain.                      *)
LEMMA FaithfulStep ==
  ASSUME BaseInv, StoreFaithful, ScanOK, [Next]_vars
  PROVE  StoreFaithful'
<1>1. CASE UNCHANGED storeVars
  <2>1. txs' = txs /\ channels' = channels /\ blocks' = blocks /\ bstate' = bstate
    BY <1>1 DEF storeVars, dataVars
  <2> QED
    BY <2>1 DEF StoreFaithful
<1> QED
  BY <1>1, StoreSteps, RetainFaithful, ScanFaithful

(* In a coherent store whose channels are those of the scanned chain, so are the  *)
(* pointers, blocks and expiry keys.                                              *)
LEMMA StoredIsFound ==
  ASSUME BaseInv, StoreFaithful
  PROVE  RetainedFaithful
<1> DEFINE Own(s) == {t \in txs : t.hash \in s.refs}
           F == UNION {Decoded(Own(s), s) : s \in Committed}
           c == bstate.hash
           h == bstate.height
<1>1. h \in Int /\ -1 <= h /\ (h # Nil => WellFormed(c, h)) /\ bstate.cutoff \in Nat
  BY InboxAssumption DEF BaseInv, CheckpointOK, Tracked, Nil
<1>2. Committed = OkSubs(c, Start, h)
  <2>1. CASE h = Nil
    <3>1. \A k : k \notin Start..h
      BY <2>1, BlobConfigAssumption DEF Nil
    <3> QED
      BY <2>1, <3>1, OkSubsIs DEF Committed
  <2>2. CASE h # Nil
    BY <2>2, Zenon DEF Committed, OkSubs
  <2> QED
    BY <2>1, <2>2
<1>3. Faithful(txs, channels, blocks, c, h, bstate.cutoff)
  BY DEF StoreFaithful
<1>4. Coherent(txs, channels, index, blocks)
      /\ txExpiry = {TxKey(t) : t \in txs} /\ chExpiry = {ChannelKey(r) : r \in channels}
      /\ \A t \in txs : bstate.cutoff <= t.time
  BY DEF BaseInv, StoreInv, StoreOK
<1>5. \A s : Own(s) = Src(txs, s)
  BY DEF Src
<1>6. \A x : x \in F <=> \E s \in Committed : x \in Decoded(Src(txs, s), s)
  BY <1>5
<1> HIDE DEF Own, F
<1>7. /\ \A r : r \in channels <=> \E x \in F : r = Record(x)
      /\ \A x \in F : Elems(x.blocks) \subseteq blocks
  BY <1>2, <1>3, <1>6 DEF Faithful
<1>8. {t.hash : t \in txs} = Retrievable
  <2>1. ASSUME NEW t \in txs PROVE t.hash \in Retrievable
    <3>1. PICK s \in Committed : t.hash \in s.refs
      BY <1>2, <1>3 DEF Faithful
    <3>2. t.at \in 0..h /\ t.hash \in c[t.at].txs /\ Time(t.at) >= bstate.cutoff
      <4>1. t.at \in 0..h /\ t.hash \in c[t.at].txs /\ t.time = Time(t.at) /\ t.at \in Int
        BY <1>1, <1>3 DEF Faithful, Genuine
      <4> QED
        BY <1>1, <1>4, <4>1 DEF Time
    <3> QED
      BY <3>1, <3>2 DEF Retrievable
  <2>2. ASSUME NEW n \in Retrievable PROVE \E t \in txs : t.hash = n
    <3>1. PICK s \in Committed : n \in s.refs
      BY DEF Retrievable
    <3>2. PICK k \in 0..h : n \in c[k].txs /\ Time(k) >= bstate.cutoff
      BY DEF Retrievable
    <3>3. bstate.cutoff <= k
      BY <1>1, <3>2 DEF Time
    <3> QED
      BY <1>2, <1>3, <3>1, <3>2, <3>3 DEF Faithful, Covered
  <2> QED
    BY <2>1, <2>2
<1>9. \A t \in txs : t.hash \in c[t.at].txs /\ t.e = c[t.at].e
  BY <1>3 DEF Faithful, Genuine
<1>10. channels = {Record(x) : x \in F}
  BY <1>7
<1>11. index = NewIndex(F)
  <2>1. ASSUME NEW p \in index PROVE p \in NewIndex(F)
    <3>1. PICK r \in channels : \E n \in Elems(r.numbers) : p = [number |-> n, id |-> r.id]
      BY <1>4 DEF Coherent, IndexOf
    <3>2. PICK n \in Elems(r.numbers) : p = [number |-> n, id |-> r.id]
      BY <3>1
    <3>3. PICK x \in F : r = Record(x)
      BY <1>7
    <3>4. PICK b \in Elems(x.blocks) : n = b.index
      BY <3>2, <3>3, RecordNumbers
    <3>5. p \in Entries(x)
      BY <3>2, <3>3, <3>4, RecordNumbers DEF Entries
    <3> QED
      BY <3>5 DEF NewIndex
  <2>2. ASSUME NEW p \in NewIndex(F) PROVE p \in index
    <3>1. PICK x \in F : p \in Entries(x)
      BY DEF NewIndex
    <3>2. PICK b \in Elems(x.blocks) : p = [number |-> b.index, id |-> x.id]
      BY <3>1 DEF Entries
    <3>3. Record(x) \in channels /\ b.index \in Elems(Record(x).numbers) /\ Record(x).id = x.id
      BY <1>7, RecordNumbers
    <3> QED
      BY <1>4, <3>2, <3>3 DEF Coherent, IndexOf
  <2> QED
    BY <2>1, <2>2
<1>12. blocks = NewBlocks(F)
  <2>1. ASSUME NEW b \in blocks PROVE b \in NewBlocks(F)
    <3>1. PICK r \in channels : b.index \in Elems(r.numbers)
      BY <1>4 DEF Coherent, BlocksOf
    <3>2. PICK x \in F : r = Record(x)
      BY <1>7
    <3>3. PICK d \in Elems(x.blocks) : b.index = d.index
      BY <3>1, <3>2, RecordNumbers
    <3>4. b = d
      BY <1>4, <1>7, <3>3 DEF Coherent, BlocksOf
    <3> QED
      BY <3>3, <3>4 DEF NewBlocks
  <2>2. \A b \in NewBlocks(F) : b \in blocks
    BY <1>7 DEF NewBlocks
  <2> QED
    BY <2>1, <2>2
<1>13. chExpiry = {[time |-> x.expires, id |-> x.id] : x \in F}
  <2>1. \A x : ChannelKey(Record(x)) = [time |-> x.expires, id |-> x.id]
    BY RecordNumbers DEF ChannelKey
  <2> QED
    BY <1>4, <1>7, <2>1
<1>14. txExpiry = {[time |-> t.time, id |-> t.hash] : t \in txs}
  BY <1>4 DEF TxKey
<1> QED
  BY <1>8, <1>9, <1>10, <1>11, <1>12, <1>13, <1>14 DEF RetainedFaithful, F, Own

(* The full invariant of the Blob worker.                                         *)
IInv == BaseInv /\ StoreFaithful /\ ScanOK

(* An empty database is that of an unscanned chain, and nothing is scanned yet.   *)
LEMMA InitScan == Init => StoreFaithful /\ ScanOK
<1> SUFFICES ASSUME Init PROVE StoreFaithful /\ ScanOK
  OBVIOUS
<1>1. /\ bstate = NoBlobState /\ txs = {} /\ channels = {} /\ blocks = {}
      /\ pc = "idle" /\ v = Fresh
  BY DEF Init, InitBlob
<1>2. ScanOK
  BY <1>1 DEF ScanOK, Fresh, Reading
<1>3. \A s, c : s \notin OkSubs(c, Start, bstate.height)
  <2>1. \A k : k \notin Start..bstate.height
    BY <1>1, BlobConfigAssumption DEF NoBlobState, Nil
  <2> QED
    BY <2>1, OkSubsIs
<1> QED
  BY <1>1, <1>2, <1>3 DEF StoreFaithful, Faithful, Genuine

(* The full invariant holds in every reachable state.                             *)
LEMMA ScanInvariance == Spec => []IInv
<1>1. Init => IInv
  BY InitBase, InitScan DEF IInv
<1>2. IInv /\ [Next]_vars => IInv'
  BY BaseStep, ScanStep, FaithfulStep DEF IInv
<1> QED
  BY <1>1, <1>2, PTL DEF Spec

(* Whatever the chain and the Beacon service did during the scans, the database   *)
(* holds exactly the unexpired sources of the scanned chain, as they were mined,  *)
(* and the channels they complete (scan, CommitBlob, pruneBlob).                  *)
THEOREM RetainsExactly == Spec => []RetainedFaithful
<1>1. IInv => RetainedFaithful
  BY StoredIsFound DEF IInv
<1> QED
  BY <1>1, ScanInvariance, PTL
===============================================================================
