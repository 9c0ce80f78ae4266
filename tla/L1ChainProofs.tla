---------------------------- MODULE L1ChainProofs ----------------------------
(***************************************************************************)
(* Facts about address histories and chains: the CTC of a window of blocks *)
(* can be followed block by block, a chain stays well-formed as it grows   *)
(* and is cut, and a block that left the chain does not come back.         *)
(***************************************************************************)
EXTENDS L1Chain, TLAPS

\* Every nonempty part of a set of logs has a last log.
Ordered(logs) == \A S \in SUBSET logs : S # {} =>
                   \E m \in S : \A k \in S : k = m \/ Precedes(k, m)

\* A log that follows every other is the one Last chooses: decodeLogs' sort
\* leaves a single order.
LEMMA LastIs ==
  ASSUME NEW S \in SUBSET Log, NEW m \in S,
         \A k \in S : k = m \/ Precedes(k, m)
  PROVE  Last(S) = m
<1>1. \E l \in S : \A k \in S : k = l \/ Precedes(k, l)
  OBVIOUS
<1>2. Last(S) \in S /\ \A k \in S : k = Last(S) \/ Precedes(k, Last(S))
  BY <1>1 DEF Last
<1>3. m.at \in Int /\ Last(S).at \in Int /\ m.ev.p \in Int /\ Last(S).ev.p \in Int
  BY <1>2, ChainAssumption DEF Log, Event
<1>. QED
  BY <1>2, <1>3 DEF Precedes

\* Only address changes matter for the CTC after a set of logs.
LEMMA CtcAfterSets ==
  ASSUME NEW c, NEW A, NEW B, Sets(A) = Sets(B)
  PROVE  CtcAfter(c, A) = CtcAfter(c, B)
BY DEF CtcAfter

\* Only address changes matter for the CTC at a log.
LEMMA CtcAtSets ==
  ASSUME NEW c, NEW A, NEW B, NEW l, Sets(A) = Sets(B)
  PROVE  CtcAt(c, A, l) = CtcAt(c, B, l)
<1>1. Sets({k \in A : Precedes(k, l)}) = Sets({k \in B : Precedes(k, l)})
  BY DEF Sets
<1>. QED
  BY <1>1, CtcAfterSets DEF CtcAt

\* The CTC after some logs is the one before them or one they set.
LEMMA CtcAfterOrigin ==
  ASSUME NEW c, NEW B \in SUBSET Log, Ordered(B)
  PROVE  CtcAfter(c, B) = c \/ \E k \in Sets(B) : CtcAfter(c, B) = k.ev.addr
<1>1. CASE Sets(B) = {}
  BY <1>1 DEF CtcAfter
<1>2. CASE Sets(B) # {}
  <2>1. Sets(B) \in SUBSET B
    BY DEF Sets
  <2>2. PICK m \in Sets(B) : \A k \in Sets(B) : k = m \/ Precedes(k, m)
    BY <1>2, <2>1 DEF Ordered
  <2>3. Last(Sets(B)) = m
    BY <2>1, <2>2, LastIs
  <2>. QED
    BY <1>2, <2>2, <2>3 DEF CtcAfter
<1>. QED
  BY <1>1, <1>2

\* The logs of a later block are applied after those of the earlier ones.
LEMMA CtcAfterAppend ==
  ASSUME NEW c, NEW A \in SUBSET Log, NEW B \in SUBSET Log, NEW n \in Int,
         \A k \in A : k.at < n, \A k \in B : k.at = n, Ordered(B)
  PROVE  CtcAfter(c, A \cup B) = CtcAfter(CtcAfter(c, A), B)
<1>1. CASE Sets(B) = {}
  <2>1. Sets(A \cup B) = Sets(A)
    BY <1>1 DEF Sets
  <2>. QED
    BY <1>1, <2>1 DEF CtcAfter
<1>2. CASE Sets(B) # {}
  <2>1. Sets(B) \in SUBSET B /\ Sets(A \cup B) \in SUBSET (A \cup B)
    BY DEF Sets
  <2>2. PICK m \in Sets(B) : \A k \in Sets(B) : k = m \/ Precedes(k, m)
    BY <1>2, <2>1 DEF Ordered
  <2>3. m \in Sets(A \cup B)
    BY DEF Sets
  <2>4. \A k \in Sets(A \cup B) : k = m \/ Precedes(k, m)
    BY <2>1, <2>2 DEF Sets, Precedes
  <2>5. Last(Sets(A \cup B)) = m
    <3>1. Sets(A \cup B) \in SUBSET Log
      BY <2>1
    <3>. QED
      BY <3>1, <2>3, <2>4, LastIs
  <2>6. Last(Sets(B)) = m
    <3>1. Sets(B) \in SUBSET Log
      BY <2>1
    <3>. QED
      BY <3>1, <2>2, LastIs
  <2>. QED
    BY <1>2, <2>3, <2>5, <2>6 DEF CtcAfter
<1>. QED
  BY <1>1, <1>2

\* At a log of the later block only its own changes come on top.
LEMMA CtcAtAppend ==
  ASSUME NEW c, NEW A \in SUBSET Log, NEW B \in SUBSET Log, NEW n \in Int,
         \A k \in A : k.at < n, \A k \in B : k.at = n, Ordered(B), NEW l \in B
  PROVE  CtcAt(c, A \cup B, l) = CtcAt(CtcAfter(c, A), B, l)
<1> DEFINE D == {k \in B : Precedes(k, l)}
<1>1. {k \in A \cup B : Precedes(k, l)} = A \cup D
  BY DEF Precedes
<1>2. D \in SUBSET Log /\ (\A k \in D : k.at = n) /\ Ordered(D)
  BY DEF Ordered
<1>. HIDE DEF D
<1>3. CtcAfter(c, A \cup D) = CtcAfter(CtcAfter(c, A), D)
  BY <1>2, CtcAfterAppend
<1>. QED
  BY <1>1, <1>3 DEF CtcAt, D

\* A log of an earlier block does not see the later one.
LEMMA CtcAtPrefix ==
  ASSUME NEW c, NEW A \in SUBSET Log, NEW B \in SUBSET Log, NEW n \in Int,
         \A k \in A : k.at < n, \A k \in B : k.at = n, NEW l \in A
  PROVE  CtcAt(c, A \cup B, l) = CtcAt(c, A, l)
<1>1. l.at \in Int
  BY ChainAssumption DEF Log
<1>2. {k \in A \cup B : Precedes(k, l)} = {k \in A : Precedes(k, l)}
  BY <1>1 DEF Precedes
<1>. QED
  BY <1>2 DEF CtcAt

------------------------------------------------------------------------------
(* Chains. *)

\* A prefix of a chain has the same logs in its blocks.
LEMMA UptoLogs ==
  ASSUME NEW h \in Nat, NEW c, DOMAIN c = 0..h,
         NEW d \in 0..h, NEW i \in Nat, NEW j \in 0..d
  PROVE  LogsIn(Upto(c, d), i, j) = LogsIn(c, i, j)
<1>1. DOMAIN Upto(c, d) = 0..d /\ \A k \in 0..d : Upto(c, d)[k] = c[k]
  BY DEF Upto
<1>2. (i..j) \cap DOMAIN Upto(c, d) = (i..j) \cap DOMAIN c
  BY <1>1
<1>. QED
  BY <1>1, <1>2 DEF LogsIn

\* A prefix of a well-formed chain is well-formed.
LEMMA UptoWellFormed ==
  ASSUME NEW h, NEW c, WellFormed(c, h), NEW d \in 0..h
  PROVE  WellFormed(Upto(c, d), d)
<1>0. h \in Nat /\ d \in 0..MaxHeight /\ DOMAIN c = 0..h
  BY ChainAssumption DEF WellFormed
<1>1. Upto(c, d) \in [0..d -> Block] /\ \A k \in 0..d : Upto(c, d)[k] = c[k]
  BY <1>0 DEF Upto, WellFormed
<1>2. \A i, j \in 0..d : LogsIn(Upto(c, d), i, j) = LogsIn(c, i, j)
  BY <1>0, UptoLogs
<1>3. \A i, j \in 0..d : \A l \in LogsIn(c, i, j) : l.at \in 0..d
  BY <1>0 DEF LogsIn, WellFormed
<1>4. ASSUME NEW i \in 0..d, NEW j \in 0..d, i <= j
      PROVE  LET L == LogsIn(Upto(c, d), i, j)
                 u == Upto(c, d)
             IN  /\ CtcAfter(u[i].in, L) = u[j].out
                 /\ u[j].out = u[i].in \/ \E l \in Sets(L) : u[j].out = l.ev.addr
                 /\ \A l \in L :
                      /\ CtcAt(u[i].in, L, l) = CtcAt(u[l.at].in, u[l.at].logs, l)
                      /\ \/ CtcAt(u[i].in, L, l) = u[i].in
                         \/ \E k \in Sets(L) : CtcAt(u[i].in, L, l) = k.ev.addr
  <2>1. i \in 0..h /\ j \in 0..h
    BY <1>0
  <2>. QED
    BY <1>0, <1>1, <1>2, <1>3, <1>4, <2>1 DEF WellFormed
<1>. QED
  BY <1>0, <1>1, <1>4 DEF WellFormed

\* The logs of a block are in order: no two events share a position.
LEMMA StampOrdered ==
  ASSUME NEW body \in Bodies, NEW n \in 0..MaxHeight, NEW e \in 0..MaxReorgs
  PROVE  /\ Stamp(body, n, e) \in SUBSET Log
         /\ \A l \in Stamp(body, n, e) :
              l.at = n /\ (l.ev.kind = "enq" => l.ev.addr # NoAddr)
         /\ Ordered(Stamp(body, n, e))
<1>1. body \subseteq Event
  BY ChainAssumption
<1>2. Stamp(body, n, e) \in SUBSET Log
  BY <1>1 DEF Stamp, Log
<1>3. \A l \in Stamp(body, n, e) :
         l.at = n /\ (l.ev.kind = "enq" => l.ev.addr # NoAddr)
  BY ChainAssumption DEF Stamp
<1>4. ASSUME NEW S \in SUBSET Stamp(body, n, e), S # {}
      PROVE  \E m \in S : \A k \in S : k = m \/ Precedes(k, m)
  <2> DEFINE T == {l.ev : l \in S}
  <2>1. T \in SUBSET body /\ T # {}
    BY <1>4 DEF Stamp
  <2>2. PICK x \in T : \A y \in T : y.p <= x.p
    BY <2>1, ChainAssumption
  <2>3. PICK m \in S : m.ev = x
    BY <2>2
  <2>4. ASSUME NEW k \in S PROVE k = m \/ Precedes(k, m)
    <3>1. k.at = n /\ m.at = n /\ k.e = e /\ m.e = e
          /\ k = [at |-> n, e |-> e, ev |-> k.ev] /\ m = [at |-> n, e |-> e, ev |-> m.ev]
      BY DEF Stamp
    <3>2. k.ev \in body /\ m.ev \in body /\ k.ev.p <= m.ev.p
      BY <2>1, <2>2, <2>3
    <3>3. k.ev.p = m.ev.p => k.ev = m.ev
      BY <3>2, ChainAssumption
    <3>4. k.ev.p \in Nat /\ m.ev.p \in Nat
      BY <3>2, <1>1 DEF Event
    <3>. QED
      BY <3>1, <3>2, <3>3, <3>4 DEF Precedes
  <2>. QED
    BY <2>4
<1>. QED
  BY <1>2, <1>3, <1>4 DEF Ordered

\* The fields of a block.
LEMMA IsBlock ==
  ASSUME NEW e \in 0..MaxReorgs, NEW x \in Addr, NEW y \in Addr, NEW B \in SUBSET Log
  PROVE  [e |-> e, in |-> x, out |-> y, logs |-> B] \in Block
BY DEF Block

\* A well-formed chain stays well-formed when a block is mined on top of it.
LEMMA MineWellFormed ==
  ASSUME NEW h, NEW c, WellFormed(c, h), h < MaxHeight,
         NEW body \in Bodies, NEW e \in 0..MaxReorgs,
         NEW d, d = [k \in 0..(h + 1) |->
                       IF k = h + 1 THEN NewBlock(c[h].out, body, h + 1, e)
                                    ELSE c[k]]
  PROVE  WellFormed(d, h + 1)
<1> DEFINE n == h + 1
           B == Stamp(body, n, e)
<1>0. h \in Nat /\ n \in 0..MaxHeight /\ MaxHeight \in Nat /\ c \in [0..h -> Block]
      /\ n \in Int /\ n = h + 1
  BY ChainAssumption DEF WellFormed
<1>1. B \in SUBSET Log /\ (\A l \in B : l.at = n) /\ Ordered(B)
      /\ \A l \in B : l.ev.kind = "enq" => l.ev.addr # NoAddr
  BY <1>0, StampOrdered
<1>2. DOMAIN d = 0..n /\ (\A k \in 0..h : d[k] = c[k])
      /\ d[n] = NewBlock(c[h].out, body, n, e)
  BY <1>0
<1>3. d[n].in = c[h].out /\ d[n].out = CtcAfter(c[h].out, B) /\ d[n].logs = B
      /\ d[n].e = e
  BY <1>2 DEF NewBlock
<1>4. c[h].out \in Addr
  BY <1>0 DEF Block
<1>5. CtcAfter(c[h].out, B) = c[h].out
      \/ \E k \in Sets(B) : CtcAfter(c[h].out, B) = k.ev.addr
  BY <1>1, CtcAfterOrigin
<1> HIDE DEF B
<1>6. d[n] \in Block
  <2>1. \A k \in Sets(B) : k.ev.addr \in Addr
    BY <1>1 DEF Sets, Log, Event
  <2>2. CtcAfter(c[h].out, B) \in Addr
    BY <1>4, <1>5, <2>1
  <2>3. d[n] = [e |-> e, in |-> c[h].out, out |-> CtcAfter(c[h].out, B), logs |-> B]
    BY <1>2, <1>3 DEF NewBlock, B
  <2>. QED
    BY <1>1, <1>4, <2>2, <2>3, IsBlock
<1>7. d \in [0..n -> Block]
  BY <1>0, <1>2, <1>6
<1> HIDE DEF n
<1>8. \A i, j \in 0..h : LogsIn(d, i, j) = LogsIn(c, i, j)
  BY <1>0, <1>2 DEF LogsIn
<1>9. ASSUME NEW i \in 0..n
      PROVE  \E A \in SUBSET Log :
               /\ LogsIn(d, i, n) = A \cup B
               /\ \A l \in A : l.at < n /\ l.at \in 0..h
               /\ CtcAfter(d[i].in, A) = c[h].out
               /\ c[h].out = d[i].in \/ \E l \in Sets(A) : c[h].out = l.ev.addr
               /\ \A l \in A :
                    /\ CtcAt(d[i].in, A, l) = CtcAt(d[l.at].in, d[l.at].logs, l)
                    /\ \/ CtcAt(d[i].in, A, l) = d[i].in
                       \/ \E k \in Sets(A) : CtcAt(d[i].in, A, l) = k.ev.addr
  <2>1. CASE i = n
    <3>1. LogsIn(d, i, n) = {} \cup B
      BY <1>0, <1>2, <1>3, <2>1 DEF LogsIn
    <3>2. CtcAfter(d[i].in, {}) = c[h].out
      BY <1>3, <2>1 DEF CtcAfter, Sets
    <3>3. d[i].in = c[h].out
      BY <1>3, <2>1
    <3>4. {} \in SUBSET Log
      OBVIOUS
    <3>. WITNESS {} \in SUBSET Log
    <3>. QED
      BY <3>1, <3>2, <3>3
  <2>2. CASE i # n
    <3> DEFINE A == LogsIn(c, i, h)
    <3>1. i \in 0..h /\ h \in 0..h /\ i <= h
      BY <1>0, <2>2
    <3>2. LogsIn(d, i, n) = A \cup B
      <4>1. (i..n) \cap DOMAIN d = ((i..h) \cap DOMAIN c) \cup {n}
        BY <1>0, <1>2, <3>1
      <4>. QED
        BY <1>0, <1>2, <1>3, <3>1, <4>1 DEF LogsIn
    <3>3. \A l \in A : l \in Log /\ l.at \in 0..h /\ l.at < n
      BY <1>0, <3>1 DEF LogsIn, WellFormed, Block
    <3>4. d[i] = c[i]
      BY <1>2, <3>1
    <3>5. /\ CtcAfter(c[i].in, A) = c[h].out
          /\ c[h].out = c[i].in \/ \E l \in Sets(A) : c[h].out = l.ev.addr
          /\ \A l \in A :
               /\ CtcAt(c[i].in, A, l) = CtcAt(c[l.at].in, c[l.at].logs, l)
               /\ \/ CtcAt(c[i].in, A, l) = c[i].in
                  \/ \E k \in Sets(A) : CtcAt(c[i].in, A, l) = k.ev.addr
      BY <3>1 DEF WellFormed
    <3>6. \A l \in A : d[l.at] = c[l.at]
      BY <1>2, <3>3
    <3> HIDE DEF A
    <3>. QED
      BY <3>2, <3>3, <3>4, <3>5, <3>6
  <2>. QED
    BY <2>1, <2>2
<1>10. ASSUME NEW i \in 0..n, NEW j \in 0..n, i <= j
       PROVE  /\ CtcAfter(d[i].in, LogsIn(d, i, j)) = d[j].out
              /\ d[j].out = d[i].in \/ \E l \in Sets(LogsIn(d, i, j)) : d[j].out = l.ev.addr
              /\ \A l \in LogsIn(d, i, j) :
                   /\ CtcAt(d[i].in, LogsIn(d, i, j), l) = CtcAt(d[l.at].in, d[l.at].logs, l)
                   /\ \/ CtcAt(d[i].in, LogsIn(d, i, j), l) = d[i].in
                      \/ \E k \in Sets(LogsIn(d, i, j)) :
                           CtcAt(d[i].in, LogsIn(d, i, j), l) = k.ev.addr
  <2>1. CASE j # n
    <3>1. i \in 0..h /\ j \in 0..h /\ LogsIn(d, i, j) = LogsIn(c, i, j)
          /\ d[i] = c[i] /\ d[j] = c[j]
      BY <1>0, <1>2, <1>8, <1>10, <2>1
    <3>2. \A l \in LogsIn(c, i, j) : d[l.at] = c[l.at]
      BY <1>0, <1>2 DEF LogsIn, WellFormed
    <3>3. /\ CtcAfter(c[i].in, LogsIn(c, i, j)) = c[j].out
          /\ c[j].out = c[i].in \/ \E l \in Sets(LogsIn(c, i, j)) : c[j].out = l.ev.addr
          /\ \A l \in LogsIn(c, i, j) :
               /\ CtcAt(c[i].in, LogsIn(c, i, j), l) = CtcAt(c[l.at].in, c[l.at].logs, l)
               /\ \/ CtcAt(c[i].in, LogsIn(c, i, j), l) = c[i].in
                  \/ \E k \in Sets(LogsIn(c, i, j)) :
                       CtcAt(c[i].in, LogsIn(c, i, j), l) = k.ev.addr
      BY <1>10, <3>1 DEF WellFormed
    <3>. QED
      BY <3>1, <3>2, <3>3
  <2>2. CASE j = n
    <3>1. PICK A \in SUBSET Log :
               /\ LogsIn(d, i, n) = A \cup B
               /\ \A l \in A : l.at < n /\ l.at \in 0..h
               /\ CtcAfter(d[i].in, A) = c[h].out
               /\ c[h].out = d[i].in \/ \E l \in Sets(A) : c[h].out = l.ev.addr
               /\ \A l \in A :
                    /\ CtcAt(d[i].in, A, l) = CtcAt(d[l.at].in, d[l.at].logs, l)
                    /\ \/ CtcAt(d[i].in, A, l) = d[i].in
                       \/ \E k \in Sets(A) : CtcAt(d[i].in, A, l) = k.ev.addr
      BY <1>9
    <3>2. Sets(A \cup B) = Sets(A) \cup Sets(B)
      BY DEF Sets
    <3>a. \A k \in A : k.at < n
      BY <3>1
    <3>b. n \in Int /\ B \in SUBSET Log /\ (\A k \in B : k.at = n) /\ Ordered(B)
      BY <1>0, <1>1
    <3>3. CtcAfter(d[i].in, A \cup B) = CtcAfter(c[h].out, B)
      BY <3>1, <3>a, <3>b, CtcAfterAppend
    <3>4. \A l \in B : CtcAt(d[i].in, A \cup B, l) = CtcAt(c[h].out, B, l)
      BY <3>1, <3>a, <3>b, CtcAtAppend
    <3>5. \A l \in A : CtcAt(d[i].in, A \cup B, l) = CtcAt(d[i].in, A, l)
      BY <3>a, <3>b, CtcAtPrefix
    <3>6. ASSUME NEW l \in B
          PROVE  CtcAt(c[h].out, B, l) = c[h].out
                 \/ \E k \in Sets(B) : CtcAt(c[h].out, B, l) = k.ev.addr
      <4> DEFINE D == {k \in B : Precedes(k, l)}
      <4>1. D \in SUBSET Log /\ Ordered(D) /\ Sets(D) \subseteq Sets(B)
        BY <1>1 DEF Ordered, Sets
      <4> HIDE DEF D
      <4>2. CtcAfter(c[h].out, D) = c[h].out
            \/ \E k \in Sets(D) : CtcAfter(c[h].out, D) = k.ev.addr
        BY <4>1, CtcAfterOrigin
      <4>. QED
        BY <4>1, <4>2 DEF CtcAt, D
    <3>7. d[n].out = d[i].in \/ \E l \in Sets(A \cup B) : d[n].out = l.ev.addr
      BY <1>3, <1>5, <3>1, <3>2
    <3>8. ASSUME NEW l \in A \cup B
          PROVE  /\ CtcAt(d[i].in, A \cup B, l) = CtcAt(d[l.at].in, d[l.at].logs, l)
                 /\ \/ CtcAt(d[i].in, A \cup B, l) = d[i].in
                    \/ \E k \in Sets(A \cup B) : CtcAt(d[i].in, A \cup B, l) = k.ev.addr
      <4>1. CASE l \in A
        BY <4>1, <3>1, <3>2, <3>5
      <4>2. CASE l \in B
        <5>1. l.at = n /\ d[l.at].in = c[h].out /\ d[l.at].logs = B
          BY <4>2, <3>b, <1>3
        <5>2. CtcAt(d[i].in, A \cup B, l) = CtcAt(c[h].out, B, l)
          BY <4>2, <3>4
        <5>3. CtcAt(c[h].out, B, l) = c[h].out
              \/ \E k \in Sets(B) : CtcAt(c[h].out, B, l) = k.ev.addr
          BY <4>2, <3>6
        <5>4. c[h].out = d[i].in \/ \E k \in Sets(A) : c[h].out = k.ev.addr
          BY <3>1
        <5>. QED
          BY <5>1, <5>2, <5>3, <5>4, <3>2
      <4>. QED
        BY <4>1, <4>2
    <3>9. LogsIn(d, i, j) = A \cup B
      BY <2>2, <3>1
    <3>10. CtcAfter(d[i].in, LogsIn(d, i, j)) = d[j].out
      BY <2>2, <1>3, <3>3, <3>9
    <3>11. d[j].out = d[i].in \/ \E l \in Sets(LogsIn(d, i, j)) : d[j].out = l.ev.addr
      BY <2>2, <3>7, <3>9
    <3>12. ASSUME NEW l \in LogsIn(d, i, j)
           PROVE  /\ CtcAt(d[i].in, LogsIn(d, i, j), l) = CtcAt(d[l.at].in, d[l.at].logs, l)
                  /\ \/ CtcAt(d[i].in, LogsIn(d, i, j), l) = d[i].in
                     \/ \E k \in Sets(LogsIn(d, i, j)) :
                          CtcAt(d[i].in, LogsIn(d, i, j), l) = k.ev.addr
      BY <3>8, <3>9
    <3>. QED
      BY <3>10, <3>11, <3>12
  <2>. QED
    BY <2>1, <2>2
<1>11. d[0].in = NoAddr
  BY <1>0, <1>2 DEF WellFormed
<1>12. \A k \in 0..n : k > 0 => d[k].in = d[k - 1].out
  BY <1>0, <1>2, <1>3 DEF WellFormed
<1>13. \A k \in 0..n : \A l \in d[k].logs :
          l.at = k /\ (l.ev.kind = "enq" => l.ev.addr # NoAddr)
  BY <1>0, <1>1, <1>2, <1>3 DEF WellFormed
<1>. QED
  BY <1>0, <1>7, <1>10, <1>11, <1>12, <1>13 DEF WellFormed, n

\* The chain is well-formed from its first block on.
LEMMA ChainInitOK ==
  ASSUME ChainInit
  PROVE  ChainTypeOK /\ ChainOK
<1>1. PICK body \in Bodies : chain = [k \in 0..0 |-> NewBlock(NoAddr, body, 0, 0)]
  BY DEF ChainInit
<1> DEFINE B == Stamp(body, 0, 0)
<1>2. tip = 0 /\ epoch = 0 /\ 0 \in 0..MaxHeight /\ 0 \in 0..MaxReorgs /\ 0..0 = {0}
  BY ChainAssumption DEF ChainInit
<1>3. B \in SUBSET Log /\ (\A l \in B : l.at = 0) /\ Ordered(B)
      /\ \A l \in B : l.ev.kind = "enq" => l.ev.addr # NoAddr
  BY <1>2, StampOrdered
<1>4. chain[0] = NewBlock(NoAddr, body, 0, 0) /\ DOMAIN chain = {0}
  BY <1>1, <1>2
<1>5. chain[0].in = NoAddr /\ chain[0].out = CtcAfter(NoAddr, B) /\ chain[0].logs = B
      /\ chain[0].e = 0
      /\ chain[0] = [e |-> 0, in |-> NoAddr, out |-> CtcAfter(NoAddr, B), logs |-> B]
  BY <1>4 DEF NewBlock
<1> HIDE DEF B
<1>6. CtcAfter(NoAddr, B) = NoAddr
      \/ \E k \in Sets(B) : CtcAfter(NoAddr, B) = k.ev.addr
  BY <1>3, CtcAfterOrigin
<1>7. CtcAfter(NoAddr, B) \in Addr
  <2>1. \A k \in Sets(B) : k.ev.addr \in Addr
    BY <1>3 DEF Sets, Log, Event
  <2>. QED
    BY <1>6, <2>1, ChainAssumption
<1>8. chain[0] \in Block
  <2>1. NoAddr \in Addr
    BY ChainAssumption
  <2>. QED
    BY <1>2, <1>3, <1>5, <1>7, <2>1, IsBlock
<1>9. chain \in [0..0 -> Block]
  BY <1>1, <1>2, <1>4, <1>8
<1>10. LogsIn(chain, 0, 0) = B
  BY <1>2, <1>4, <1>5 DEF LogsIn
<1>11. ASSUME NEW l \in B
       PROVE  CtcAt(NoAddr, B, l) = NoAddr
              \/ \E k \in Sets(B) : CtcAt(NoAddr, B, l) = k.ev.addr
  <2> DEFINE D == {k \in B : Precedes(k, l)}
  <2>1. D \in SUBSET Log /\ Ordered(D) /\ Sets(D) \subseteq Sets(B)
    BY <1>3 DEF Ordered, Sets
  <2> HIDE DEF D
  <2>2. CtcAfter(NoAddr, D) = NoAddr
        \/ \E k \in Sets(D) : CtcAfter(NoAddr, D) = k.ev.addr
    BY <2>1, CtcAfterOrigin
  <2>. QED
    BY <2>1, <2>2 DEF CtcAt, D
<1>12. WellFormed(chain, 0)
  <2>1. \A k \in 0..0 : k = 0
    OBVIOUS
  <2>2. ASSUME NEW i \in 0..0, NEW j \in 0..0
        PROVE  /\ CtcAfter(chain[i].in, LogsIn(chain, i, j)) = chain[j].out
               /\ \/ chain[j].out = chain[i].in
                  \/ \E l \in Sets(LogsIn(chain, i, j)) : chain[j].out = l.ev.addr
               /\ \A l \in LogsIn(chain, i, j) :
                    /\ CtcAt(chain[i].in, LogsIn(chain, i, j), l)
                         = CtcAt(chain[l.at].in, chain[l.at].logs, l)
                    /\ \/ CtcAt(chain[i].in, LogsIn(chain, i, j), l) = chain[i].in
                       \/ \E k \in Sets(LogsIn(chain, i, j)) :
                            CtcAt(chain[i].in, LogsIn(chain, i, j), l) = k.ev.addr
    <3>1. i = 0 /\ j = 0
      BY <2>1
    <3>. QED
      BY <3>1, <1>3, <1>5, <1>6, <1>10, <1>11
  <2>. QED
    BY <1>2, <1>3, <1>5, <1>9, <2>1, <2>2 DEF WellFormed
<1>. QED
  BY <1>2, <1>5, <1>9, <1>12 DEF ChainTypeOK, ChainOK

\* Mining and reorganisations keep the chain well-formed.
LEMMA ChainStepOK ==
  ASSUME ChainTypeOK, ChainOK, ChainNext
  PROVE  ChainTypeOK' /\ ChainOK'
<1>1. ASSUME NEW body \in Bodies, Mine(body)
      PROVE  ChainTypeOK' /\ ChainOK'
  <2>1. WellFormed(chain', tip + 1)
    BY <1>1, MineWellFormed DEF ChainOK, Mine, ChainTypeOK
  <2>2. tip' = tip + 1 /\ epoch' = epoch /\ tip \in Nat /\ epoch \in Nat
    BY <1>1 DEF Mine, ChainTypeOK
  <2>3. chain' \in [0..tip' -> Block] /\ tip' \in 0..MaxHeight
    BY <2>1, <2>2 DEF WellFormed
  <2>4. \A k \in 0..tip' : chain'[k].e <= epoch'
    <3>1. chain'[tip + 1].e = epoch /\ \A k \in 0..tip : chain'[k] = chain[k]
      BY <1>1, <2>2 DEF Mine, NewBlock
    <3>2. \A k \in 0..tip : chain[k].e <= epoch
      BY DEF ChainOK
    <3>3. \A k \in 0..tip' : k = tip + 1 \/ k \in 0..tip
      BY <2>2
    <3>. QED
      BY <2>2, <3>1, <3>2, <3>3
  <2>. QED
    BY <2>1, <2>2, <2>3, <2>4 DEF ChainTypeOK, ChainOK
<1>2. ASSUME NEW d \in 0..MaxHeight, Reorg(d)
      PROVE  ChainTypeOK' /\ ChainOK'
  <2>1. d \in 0..tip /\ tip' = d /\ epoch' = epoch + 1 /\ chain' = Upto(chain, d)
        /\ epoch' \in 0..MaxReorgs /\ epoch \in Nat
    BY <1>2, ChainAssumption DEF Reorg, ChainTypeOK
  <2>2. WellFormed(chain', tip')
    BY <2>1, UptoWellFormed DEF ChainOK
  <2>3. \A k \in 0..d : chain'[k] = chain[k] /\ k \in 0..tip
    BY <2>1 DEF Upto, ChainTypeOK
  <2>4. \A k \in 0..tip : chain[k].e \in Nat /\ chain[k].e <= epoch
    BY ChainAssumption DEF ChainOK, ChainTypeOK, Block
  <2>5. \A k \in 0..tip' : chain'[k].e <= epoch'
    BY <2>1, <2>3, <2>4
  <2>. QED
    BY <2>1, <2>2, <2>5 DEF ChainTypeOK, ChainOK, WellFormed
<1>. QED
  BY <1>1, <1>2 DEF ChainNext

\* A block that was seen stays accounted for, and one that left the chain does
\* not return to it.
LEMMA TrackedStep ==
  ASSUME ChainTypeOK, ChainOK, ChainNext, NEW c, NEW h, Tracked(c, h)
  PROVE  Tracked(c, h)' /\ (Live(c, h)' => Live(c, h))
<1>0. /\ h \in 0..MaxHeight /\ h \in Nat /\ c \in [0..h -> Block]
      /\ c[h].e \in Nat /\ tip \in Nat /\ epoch \in Nat
      /\ DOMAIN chain = 0..tip /\ \A k \in 0..tip : chain[k].e \in Nat /\ chain[k].e <= epoch
  BY ChainAssumption DEF Tracked, WellFormed, Block, ChainTypeOK, ChainOK
<1>1. ASSUME NEW body \in Bodies, Mine(body)
      PROVE  (Live(c, h) \/ Dead(c, h))' /\ (Live(c, h)' => Live(c, h))
  <2>1. tip' = tip + 1 /\ epoch' = epoch /\ chain'[tip + 1].e = epoch
        /\ \A k \in 0..tip : chain'[k] = chain[k]
    BY <1>0, <1>1 DEF Mine, NewBlock
  <2>2. h <= tip => Upto(chain', h) = Upto(chain, h)
    BY <1>0, <2>1 DEF Upto
  <2>3. h = tip + 1 => Upto(chain', h)[h].e = epoch
    BY <1>0, <2>1 DEF Upto
  <2>4. CASE Live(c, h)
    BY <1>0, <2>1, <2>2, <2>4 DEF Live, HashAt
  <2>5. CASE ~Live(c, h)
    <3>1. Dead(c, h)
      BY <2>5 DEF Tracked
    <3>2. Dead(c, h)'
      BY <1>0, <2>1, <3>1 DEF Dead
    <3>3. ~Live(c, h)'
      BY <1>0, <2>1, <2>2, <2>3, <2>5, <3>1 DEF Live, HashAt, Dead
    <3>. QED
      BY <3>2, <3>3
  <2>. QED
    BY <2>4, <2>5
<1>2. ASSUME NEW d \in 0..MaxHeight, Reorg(d)
      PROVE  (Live(c, h) \/ Dead(c, h))' /\ (Live(c, h)' => Live(c, h))
  <2>1. d \in Nat /\ d < tip /\ tip' = d /\ epoch' = epoch + 1
        /\ \A k \in 0..d : chain'[k] = chain[k]
    BY <1>0, <1>2 DEF Reorg, Upto
  <2>2. h <= d => Upto(chain', h) = Upto(chain, h)
    BY <1>0, <2>1 DEF Upto
  <2>3. CASE Live(c, h)
    <3>1. c[h].e <= epoch
      BY <1>0, <2>3 DEF Live, HashAt, Upto
    <3>. QED
      BY <1>0, <2>1, <2>2, <2>3, <3>1 DEF Live, HashAt, Dead
  <2>4. CASE ~Live(c, h)
    <3>1. Dead(c, h)
      BY <2>4 DEF Tracked
    <3>2. Dead(c, h)'
      BY <1>0, <2>1, <3>1 DEF Dead
    <3>3. ~Live(c, h)'
      BY <1>0, <2>1, <2>2, <2>4 DEF Live, HashAt
    <3>. QED
      BY <3>2, <3>3
  <2>. QED
    BY <2>3, <2>4
<1>. QED
  BY <1>1, <1>2 DEF ChainNext, Tracked
==============================================================================
