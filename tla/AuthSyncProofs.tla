---------------------------- MODULE AuthSyncProofs ----------------------------
(***************************************************************************)
(* What the worker learns of the Inbox senders in pages, at different      *)
(* moments and from managers named later than they spoke, is what the      *)
(* whole history of the committed block says.                              *)
(***************************************************************************)
EXTENDS AuthSync, FiniteSetTheorems, WellFoundedInduction, TLAPS

-------------------------------------------------------------------------------
(* Logs and their order. *)

(* A finite set of logs, each with a position of its own.                         *)
Proper(S) ==
  /\ IsFiniteSet(S)
  /\ \A l \in S : l.at \in Nat /\ l.tx \in Nat /\ l.idx \in Nat /\ l.from \in Nat
  /\ \A k, l \in S : k.at = l.at /\ k.tx = l.tx /\ k.idx = l.idx => k = l

(* Every log of A comes before every log of B.                                    *)
Earlier(A, B) == \A a \in A, b \in B : Precedes(a, b)

(* No later log of G takes the place of g.                                        *)
Latest(g, G) == \A k \in G : SameSlot(k, g) => k = g \/ Precedes(k, g)

(* A finite set has a maximal element for every strict order on it.               *)
LEMMA FiniteMaximal ==
  ASSUME NEW S, IsFiniteSet(S), S # {}, NEW R,
         \A x \in S : <<x, x>> \notin R,
         \A x, y, z \in S : <<x, y>> \in R /\ <<y, z>> \in R => <<x, z>> \in R
  PROVE  \E x \in S : \A y \in S : <<x, y>> \notin R
<1> DEFINE Above(x) == {y \in S : <<x, y>> \in R}
           T == {Above(x) : x \in S}
<1>1. IsWellFoundedOn(StrictSubsetOrdering(S), SUBSET S)
  BY FS_StrictSubsetOrderingWellFounded, FS_FiniteSubsetsOfFinite
<1>2. T \subseteq SUBSET S /\ T # {}
  <2>1. \A x \in S : Above(x) \in T /\ Above(x) \subseteq S
    OBVIOUS
  <2>2. \A U \in T : U \subseteq S
    OBVIOUS
  <2> HIDE DEF T
  <2> QED
    BY <2>1, <2>2
<1> HIDE DEF T
<1>3. PICK U \in T : \A W \in T : ~(<<W, U>> \in StrictSubsetOrdering(S))
  BY <1>1, <1>2, WFMin
<1>4. PICK x \in S : U = Above(x)
  BY <1>3 DEF T
<1>5. ASSUME NEW y \in S, <<x, y>> \in R PROVE FALSE
  <2>1. Above(y) \subseteq Above(x)
    BY <1>5
  <2>2. y \in Above(x) /\ y \notin Above(y)
    BY <1>5
  <2>3. <<Above(y), Above(x)>> \in StrictSubsetOrdering(S)
    BY <2>1, <2>2 DEF StrictSubsetOrdering
  <2> QED
    BY <1>3, <1>4, <2>3 DEF T
<1> QED
  BY <1>5

(* Parts of a proper set are proper.                                              *)
LEMMA ProperPart ==
  ASSUME NEW S, Proper(S), NEW T, T \subseteq S
  PROVE  Proper(T)
BY FS_Subset DEF Proper

(* Positions order a proper set.                                                  *)
LEMMA PrecedesOrder ==
  ASSUME NEW S, Proper(S)
  PROVE  /\ \A x \in S : ~Precedes(x, x)
         /\ \A x, y, z \in S : Precedes(x, y) /\ Precedes(y, z) => Precedes(x, z)
         /\ \A x, y \in S : x = y \/ Precedes(x, y) \/ Precedes(y, x)
         /\ \A x, y \in S : Precedes(x, y) => ~Precedes(y, x)
BY DEF Proper, Precedes

(* A set of logs has a newest one, and only one.                                  *)
LEMMA NewestIs ==
  ASSUME NEW S, Proper(S), S # {}
  PROVE  /\ Newest(S) \in S
         /\ \A k \in S : k = Newest(S) \/ Precedes(k, Newest(S))
         /\ \A l \in S : (\A k \in S : k = l \/ Precedes(k, l)) => l = Newest(S)
<1> DEFINE R == {p \in S \X S : Precedes(p[1], p[2])}
<1>1. \A x, y \in S : <<x, y>> \in R <=> Precedes(x, y)
  OBVIOUS
<1> HIDE DEF R
<1>2. PICK x \in S : \A y \in S : <<x, y>> \notin R
  <2>1. IsFiniteSet(S)
    BY DEF Proper
  <2>2. \A a \in S : <<a, a>> \notin R
    BY <1>1, PrecedesOrder
  <2>3. \A a, b, c \in S : <<a, b>> \in R /\ <<b, c>> \in R => <<a, c>> \in R
    BY <1>1, PrecedesOrder
  <2> QED
    BY <2>1, <2>2, <2>3, FiniteMaximal
<1>3. \A k \in S : k = x \/ Precedes(k, x)
  BY <1>1, <1>2, PrecedesOrder
<1>4. Newest(S) \in S /\ \A k \in S : k = Newest(S) \/ Precedes(k, Newest(S))
  BY <1>3, Zenon DEF Newest
<1>5. \A l \in S : (\A k \in S : k = l \/ Precedes(k, l)) => l = Newest(S)
  BY <1>4, PrecedesOrder
<1> QED
  BY <1>4, <1>5

(* What a table holds after grants: old entries none of them replaces, and the    *)
(* latest of each slot.                                                           *)
LEMMA OverwriteIs ==
  ASSUME NEW T, NEW G, Proper(G), NEW x
  PROVE  x \in Overwrite(T, G) <=>
           \/ x \in T /\ \A g \in G : ~SameSlot(x, g)
           \/ \E g \in G : Latest(g, G) /\ x = Entry(g)
<1>1. ASSUME NEW g \in G
      PROVE  g = Newest({k \in G : SameSlot(k, g)}) <=> Latest(g, G)
  <2> DEFINE S == {k \in G : SameSlot(k, g)}
  <2>1. g \in S /\ Proper(S)
    BY ProperPart DEF SameSlot
  <2>2. \A k : k \in S <=> k \in G /\ SameSlot(k, g)
    OBVIOUS
  <2> HIDE DEF S
  <2>3. g = Newest(S) <=> Latest(g, G)
    BY <2>1, <2>2, NewestIs DEF Latest
  <2> QED
    BY <2>3 DEF S
<1> QED
  BY <1>1 DEF Overwrite

(* Grants applied in two parts, the earlier first, are the grants applied at once. *)
LEMMA OverwriteChain ==
  ASSUME NEW A, NEW B, Proper(A \cup B), Earlier(A, B)
  PROVE  Overwrite(Overwrite({}, A), B) = Overwrite({}, A \cup B)
<1> DEFINE C == A \cup B
<1>1. Proper(A) /\ Proper(B) /\ Proper(C)
  BY ProperPart
<1>2. \A k : k \in C <=> k \in A \/ k \in B
  OBVIOUS
<1> HIDE DEF C
<1>3. ASSUME NEW b \in B PROVE Latest(b, B) <=> Latest(b, C)
  BY <1>2 DEF Latest, Earlier
<1>4. ASSUME NEW a \in A
      PROVE  Latest(a, C) <=> Latest(a, A) /\ \A b \in B : ~SameSlot(Entry(a), b)
  <2>1. \A b \in B : SameSlot(Entry(a), b) <=> SameSlot(b, a)
    BY DEF SameSlot, Entry
  <2>2. \A b \in B : b # a /\ ~Precedes(b, a)
    BY <1>1, <1>2, PrecedesOrder DEF Earlier
  <2> QED
    BY <1>2, <2>1, <2>2 DEF Latest
<1>5. ASSUME NEW x
      PROVE  x \in Overwrite(Overwrite({}, A), B) <=> x \in Overwrite({}, C)
  <2>1. x \in Overwrite({}, C) <=> \E g \in C : Latest(g, C) /\ x = Entry(g)
    BY <1>1, OverwriteIs
  <2>2. x \in Overwrite({}, A) <=> \E g \in A : Latest(g, A) /\ x = Entry(g)
    BY <1>1, OverwriteIs
  <2>3. x \in Overwrite(Overwrite({}, A), B) <=>
          \/ x \in Overwrite({}, A) /\ \A g \in B : ~SameSlot(x, g)
          \/ \E g \in B : Latest(g, B) /\ x = Entry(g)
    BY <1>1, OverwriteIs
  <2> QED
    BY <1>2, <1>3, <1>4, <2>1, <2>2, <2>3
<1> QED
  BY <1>5 DEF C

(* The schedules of different managers do not disturb each other.                 *)
LEMMA OverwriteMerge ==
  ASSUME NEW L, Proper(L), NEW J, NEW K
  PROVE  Overwrite({}, Grants(L, J)) \cup Overwrite({}, Grants(L, K))
           = Overwrite({}, Grants(L, J \cup K))
<1> DEFINE GJ == Grants(L, J)
           GK == Grants(L, K)
           G == Grants(L, J \cup K)
<1>1. Proper(GJ) /\ Proper(GK) /\ Proper(G)
  BY ProperPart DEF Grants
<1>2. /\ \A g : g \in GJ <=> g \in L /\ g.kind = "grant" /\ g.manager \in J
      /\ \A g : g \in GK <=> g \in L /\ g.kind = "grant" /\ g.manager \in K
      /\ \A g : g \in G <=> g \in L /\ g.kind = "grant" /\ g.manager \in J \cup K
  BY DEF Grants
<1> HIDE DEF GJ, GK, G
<1>3. \A g \in GJ : Latest(g, GJ) <=> Latest(g, G)
  BY <1>2 DEF Latest, SameSlot
<1>4. \A g \in GK : Latest(g, GK) <=> Latest(g, G)
  BY <1>2 DEF Latest, SameSlot
<1>5. ASSUME NEW x
      PROVE  x \in Overwrite({}, GJ) \cup Overwrite({}, GK) <=> x \in Overwrite({}, G)
  <2>1. x \in Overwrite({}, GJ) <=> \E g \in GJ : Latest(g, GJ) /\ x = Entry(g)
    BY <1>1, OverwriteIs
  <2>2. x \in Overwrite({}, GK) <=> \E g \in GK : Latest(g, GK) /\ x = Entry(g)
    BY <1>1, OverwriteIs
  <2>3. x \in Overwrite({}, G) <=> \E g \in G : Latest(g, G) /\ x = Entry(g)
    BY <1>1, OverwriteIs
  <2>4. \A g \in G : g \in GJ \/ g \in GK
    BY <1>2
  <2>5. \A g \in GJ \cup GK : g \in G
    BY <1>2
  <2> QED
    BY <1>3, <1>4, <2>1, <2>2, <2>3, <2>4, <2>5
<1> QED
  BY <1>5 DEF GJ, GK, G

(* The manager depends on the changes of the manager only.                        *)
LEMMA ManagerNames ==
  ASSUME NEW L, NEW M, Names(L) = Names(M), NEW m
  PROVE  ManagerAfter(m, L) = ManagerAfter(m, M)
BY DEF ManagerAfter

(* The manager after two parts of a history is that after both.                   *)
LEMMA ManagerChain ==
  ASSUME NEW A, NEW B, Proper(A \cup B), Earlier(A, B), NEW m
  PROVE  ManagerAfter(ManagerAfter(m, A), B) = ManagerAfter(m, A \cup B)
<1> DEFINE NA == Names(A)
           NB == Names(B)
           NC == Names(A \cup B)
<1>1. /\ Proper(NA) /\ Proper(NB) /\ Proper(NC)
      /\ \A l : l \in NC <=> l \in NA \/ l \in NB
      /\ \A a \in NA, b \in NB : Precedes(a, b)
  BY ProperPart DEF Names, Earlier
<1>2. /\ ManagerAfter(m, A) = IF NA = {} THEN m ELSE Newest(NA).manager
      /\ ManagerAfter(m, A \cup B) = IF NC = {} THEN m ELSE Newest(NC).manager
      /\ ManagerAfter(ManagerAfter(m, A), B)
           = IF NB = {} THEN ManagerAfter(m, A) ELSE Newest(NB).manager
  BY DEF ManagerAfter
<1> HIDE DEF NA, NB, NC
<1>3. CASE NB = {}
  <2>1. NA = NC
    BY <1>1, <1>3
  <2> QED
    BY <1>2, <1>3, <2>1
<1>4. CASE NB # {}
  <2>1. NC # {} /\ Newest(NB) \in NC
    BY <1>1, <1>4, NewestIs
  <2>2. \A k \in NC : k = Newest(NB) \/ Precedes(k, Newest(NB))
    BY <1>1, <1>4, NewestIs
  <2>3. Newest(NB) = Newest(NC)
    BY <1>1, <2>1, <2>2, NewestIs
  <2> QED
    BY <1>2, <1>4, <2>1, <2>3
<1> QED
  BY <1>3, <1>4

(* The manager is the one that was there or one that was named.                   *)
LEMMA ManagerNamed ==
  ASSUME NEW L, Proper(L), NEW m
  PROVE  ManagerAfter(m, L) = m \/ ManagerAfter(m, L) \in {l.manager : l \in Names(L)}
<1>1. Proper(Names(L))
  BY ProperPart DEF Names
<1> QED
  BY <1>1, NewestIs DEF ManagerAfter

(* A history that is linked can be applied in two parts.                          *)
LEMMA LinkedChain ==
  ASSUME NEW A, NEW B, Proper(A \cup B), Earlier(A, B), NEW m
  PROVE  Linked(m, A \cup B) <=> Linked(m, A) /\ Linked(ManagerAfter(m, A), B)
<1> DEFINE C == A \cup B
           Pre(S, l) == {k \in S : Precedes(k, l)}
<1>1. Proper(A) /\ Proper(B) /\ Proper(C)
  BY ProperPart
<1>2. \A k : k \in C <=> k \in A \/ k \in B
  OBVIOUS
<1>3. \A a \in A, b \in B : Precedes(a, b) /\ ~Precedes(b, a)
  BY <1>1, <1>2, PrecedesOrder DEF Earlier
<1>4. \A l \in A : Pre(C, l) = Pre(A, l)
  BY <1>2, <1>3
<1>5. ASSUME NEW l \in B
      PROVE  ManagerAfter(m, Pre(C, l)) = ManagerAfter(ManagerAfter(m, A), Pre(B, l))
  <2> DEFINE D == Pre(B, l)
  <2>1. Pre(C, l) = A \cup D
    BY <1>2, <1>3
  <2>2. A \cup D \subseteq C /\ Earlier(A, D)
    BY <1>2, <1>3 DEF Earlier
  <2>3. Proper(A \cup D)
    BY <1>1, <2>2, ProperPart
  <2> HIDE DEF D
  <2>4. ManagerAfter(ManagerAfter(m, A), D) = ManagerAfter(m, A \cup D)
    BY <2>2, <2>3, ManagerChain
  <2> QED
    BY <2>1, <2>4 DEF D
<1>6. \A l : l \in Names(C) <=> l \in Names(A) \/ l \in Names(B)
  BY DEF Names
<1>7. \A l \in Names(A) : l \in A
  BY DEF Names
<1>8. \A l \in Names(B) : l \in B
  BY DEF Names
<1>9. /\ Linked(m, C) <=> \A l \in Names(C) : l.old = ManagerAfter(m, Pre(C, l))
      /\ Linked(m, A) <=> \A l \in Names(A) : l.old = ManagerAfter(m, Pre(A, l))
      /\ Linked(ManagerAfter(m, A), B) <=>
           \A l \in Names(B) : l.old = ManagerAfter(ManagerAfter(m, A), Pre(B, l))
  BY DEF Linked
<1> HIDE DEF C, Pre
<1> QED
  BY <1>4, <1>5, <1>6, <1>7, <1>8, <1>9 DEF C

(* Whether a history is linked depends on the changes of the manager only.        *)
LEMMA LinkedNames ==
  ASSUME NEW L, NEW M, Names(L) = Names(M), NEW m
  PROVE  Linked(m, L) <=> Linked(m, M)
<1> DEFINE Pre(S, l) == {k \in S : Precedes(k, l)}
<1>1. ASSUME NEW l PROVE ManagerAfter(m, Pre(L, l)) = ManagerAfter(m, Pre(M, l))
  <2>1. /\ Names(Pre(L, l)) = {k \in Names(L) : Precedes(k, l)}
        /\ Names(Pre(M, l)) = {k \in Names(M) : Precedes(k, l)}
    BY DEF Names
  <2> HIDE DEF Pre
  <2> QED
    BY <2>1, ManagerNames
<1> QED
  BY <1>1 DEF Linked

(* Of the grants of manager m in L, the newest of those with the highest height.  *)
Granted(L, m, role, h, fallback) ==
  LET S == {l \in Grants(L, {m} \ {NoAddr}) : l.role = role /\ l.from <= h}
  IN  IF S = {} THEN fallback
      ELSE Newest({l \in S : \A x \in S : x.from <= l.from}).sender

(* sender finds in the schedules the grant of the active manager with the highest *)
(* effective height, and of those the newest.                                     *)
LEMMA SenderIs ==
  ASSUME NEW L, Proper(L), NEW K, NoAddr \notin K, NEW a,
         a.manager = NoAddr \/ a.manager \in K,
         a.table = Overwrite({}, Grants(L, K)), NEW role, NEW h \in Nat, NEW fallback
  PROVE  SenderAt(a, role, h, fallback) = Granted(L, a.manager, role, h, fallback)
<1> DEFINE G == Grants(L, K)
           S == {l \in Grants(L, {a.manager} \ {NoAddr}) : l.role = role /\ l.from <= h}
           I == InForce(a, role, h)
           Top == {l \in S : \A x \in S : x.from <= l.from}
<1>1. Proper(G) /\ \A g \in G : g.manager \in K
  BY ProperPart DEF Grants
<1>2. \A l : l \in S <=> l \in G /\ l.manager = a.manager /\ l.role = role /\ l.from <= h
  BY DEF Grants
<1>3. \A l : l \in Top <=> l \in S /\ \A x \in S : x.from <= l.from
  OBVIOUS
<1>4. \A x : x \in I <=> \E g \in S : Latest(g, G) /\ x = Entry(g)
  <2>1. \A x : x \in a.table <=> \E g \in G : Latest(g, G) /\ x = Entry(g)
    BY <1>1, OverwriteIs
  <2>2. \A g : /\ Entry(g).manager = g.manager /\ Entry(g).role = g.role
               /\ Entry(g).from = g.from
    BY DEF Entry
  <2>3. \A x : x \in I <=> /\ x \in a.table /\ x.manager = a.manager
                           /\ x.role = role /\ x.from <= h
    BY DEF InForce
  <2> HIDE DEF G, S, I
  <2> QED
    BY <1>2, <2>1, <2>2, <2>3
<1> HIDE DEF G, S, I, Top
<1>5. CASE S = {}
  <2>1. I = {}
    BY <1>4, <1>5
  <2> QED
    BY <1>5, <2>1 DEF SenderAt, S, I, Granted
<1>6. CASE S # {}
  <2>1. IsFiniteSet(S) /\ \A l \in S : l.from \in Nat
    <3>1. S \subseteq G
      BY <1>2
    <3> QED
      BY <1>1, <3>1, ProperPart DEF Proper
  <2>2. Top # {}
    <3> DEFINE R == {p \in S \X S : p[1].from < p[2].from}
    <3>1. \A x, y \in S : <<x, y>> \in R <=> x.from < y.from
      OBVIOUS
    <3> HIDE DEF R
    <3>2. PICK x \in S : \A y \in S : <<x, y>> \notin R
      <4>1. \A x \in S : <<x, x>> \notin R
        BY <2>1, <3>1
      <4>2. \A x, y, z \in S : <<x, y>> \in R /\ <<y, z>> \in R => <<x, z>> \in R
        BY <2>1, <3>1
      <4> QED
        BY <1>6, <2>1, <4>1, <4>2, FiniteMaximal
    <3>3. \A y \in S : y.from <= x.from
      <4>1. \A y \in S : ~(x.from < y.from)
        BY <3>1, <3>2
      <4> QED
        BY <2>1, <4>1
    <3> QED
      BY <1>3, <3>3
  <2>3. Proper(Top)
    BY <1>1, <1>2, <1>3, ProperPart
  <2> DEFINE n == Newest(Top)
  <2>4. n \in Top /\ \A k \in Top : k = n \/ Precedes(k, n)
    BY <2>2, <2>3, NewestIs
  <2> HIDE DEF n
  <2>5. n \in S /\ n \in G /\ \A x \in S : x.from <= n.from
    BY <1>2, <1>3, <2>4
  <2>6. Latest(n, G)
    BY <1>2, <1>3, <2>4, <2>5 DEF Latest, SameSlot
  <2>7. ASSUME NEW g \in S, Latest(g, G), \A x \in S : x.from <= g.from
        PROVE  g = n
    <3>1. g \in G /\ g.from = n.from
      BY <1>2, <2>1, <2>5, <2>7
    <3>2. SameSlot(n, g) /\ SameSlot(g, n)
      BY <1>2, <2>5, <3>1 DEF SameSlot
    <3>3. (n = g \/ Precedes(n, g)) /\ (g = n \/ Precedes(g, n))
      BY <2>5, <2>6, <2>7, <3>1, <3>2 DEF Latest
    <3> QED
      BY <1>1, <2>5, <3>1, <3>3, PrecedesOrder
  <2>8. \A g : Entry(g).from = g.from /\ Entry(g).sender = g.sender
    BY DEF Entry
  <2>9. Entry(n) \in I /\ \A y \in I : y.from <= Entry(n).from
    BY <1>4, <2>5, <2>6, <2>8
  <2>10. ASSUME NEW x \in I, \A y \in I : y.from <= x.from
         PROVE  x = Entry(n)
    <3>1. PICK g \in S : Latest(g, G) /\ x = Entry(g)
      BY <1>4
    <3>2. n.from <= g.from
      BY <2>8, <2>9, <2>10, <3>1
    <3>3. \A y \in S : y.from <= g.from
      BY <2>1, <2>5, <3>2
    <3> QED
      BY <2>7, <3>1, <3>3
  <2>11. (CHOOSE x \in I : \A y \in I : y.from <= x.from) = Entry(n)
    BY <2>9, <2>10, Zenon
  <2>12. SenderAt(a, role, h, fallback) = Entry(n).sender
    BY <2>9, <2>11 DEF SenderAt, I
  <2> QED
    BY <1>6, <2>8, <2>12 DEF n, Top, S, Granted
<1> QED
  BY <1>5, <1>6

-------------------------------------------------------------------------------
(* The chain. *)

(* c is a chain of height h, whose logs have positions of their own.              *)
Shaped(c, h) ==
  /\ h \in 0..MaxHeight
  /\ DOMAIN c = 0..h
  /\ \A k \in 0..h :
       /\ c[k].e \in Nat
       /\ IsFiniteSet(c[k].logs)
       /\ \A l \in c[k].logs :
            /\ l.at = k /\ l.tx \in Nat /\ l.idx \in Nat /\ l.from \in Nat
            /\ l.kind = "grant" => l.sender # NoAddr
       /\ \A i, l \in c[k].logs : i.tx = l.tx /\ i.idx = l.idx => i = l

(* And each change of the manager names the one it replaces.                      *)
WellFormed(c, h) ==
  Shaped(c, h) /\ \A k \in 0..h : Linked(NoAddr, LogsIn(c, 0, k))

ChainOK ==
  /\ WellFormed(chain, tip)
  /\ epoch \in 0..MaxReorgs
  /\ \A k \in 0..tip : chain[k].e <= epoch

(* c is the chain up to height h, and still is.                                   *)
Live(c, h) == h <= tip /\ c = HashAt(h)

(* c is off the chain and cannot come back: its last block belongs to a fork      *)
(* older than the block that took its place, or will.                             *)
Dead(c, h) == c[h].e < epoch /\ (h <= tip => c[h].e < chain[h].e)

Tracked(c, h) == WellFormed(c, h) /\ (Live(c, h) \/ Dead(c, h))

(* The logs of a range of blocks.                                                 *)
LEMMA LogsAre ==
  ASSUME NEW c, NEW h \in Nat, DOMAIN c = 0..h, NEW from \in Nat, NEW end \in Int, NEW l
  PROVE  l \in LogsIn(c, from, end) <=>
           \E k \in 0..h : from <= k /\ k <= end /\ l \in c[k].logs
BY DEF LogsIn

(* Chains that agree up to a block have the same logs up to it.                   *)
LEMMA LogsAgree ==
  ASSUME NEW c, NEW h \in Nat, DOMAIN c = 0..h, NEW d, NEW g \in Nat, DOMAIN d = 0..g,
         NEW n \in Int, n <= h, n <= g, \A k \in 0..n : c[k] = d[k], NEW from \in Nat
  PROVE  LogsIn(c, from, n) = LogsIn(d, from, n)
<1>1. \A l : l \in LogsIn(c, from, n) <=> \E k \in 0..n : from <= k /\ l \in c[k].logs
  BY LogsAre
<1>2. \A l : l \in LogsIn(d, from, n) <=> \E k \in 0..n : from <= k /\ l \in d[k].logs
  BY LogsAre
<1> QED
  BY <1>1, <1>2

(* The logs of a chain have positions of their own.                               *)
LEMMA LogsProper ==
  ASSUME NEW c, NEW h, Shaped(c, h), NEW from \in Nat, NEW end \in Int
  PROVE  /\ Proper(LogsIn(c, from, end))
         /\ \A l \in LogsIn(c, from, end) :
              /\ l.at \in 0..h /\ from <= l.at /\ l.at <= end /\ l \in c[l.at].logs
              /\ l.kind = "grant" => l.sender # NoAddr
<1> DEFINE D == (from..end) \cap DOMAIN c
           f == [k \in D |-> c[k].logs]
           T == {c[k].logs : k \in D}
           L == LogsIn(c, from, end)
<1>1. h \in Nat /\ DOMAIN c = 0..h
  BY DEF Shaped
<1>2. IsFiniteSet(D)
  <2>1. IsFiniteSet(from..end)
    BY FS_Interval
  <2> QED
    BY <2>1, FS_Intersection
<1>3. f \in Surjection(D, T)
  <2>1. f \in [D -> T]
    OBVIOUS
  <2>2. \A t \in T : \E k \in D : f[k] = t
    OBVIOUS
  <2> QED
    BY <2>1, <2>2 DEF Surjection, Range
<1>4. IsFiniteSet(T)
  BY <1>2, <1>3, FS_Surjection
<1>5. \A t \in T : IsFiniteSet(t)
  BY <1>1 DEF Shaped
<1>6. IsFiniteSet(L)
  BY <1>4, <1>5, FS_UNION DEF LogsIn
<1>7. \A l \in L : \E k \in 0..h : from <= k /\ k <= end /\ l \in c[k].logs
  BY <1>1, LogsAre
<1> HIDE DEF L
<1>8. ASSUME NEW l \in L
      PROVE  /\ l.at \in 0..h /\ from <= l.at /\ l.at <= end /\ l \in c[l.at].logs
             /\ l.kind = "grant" => l.sender # NoAddr
             /\ l.tx \in Nat /\ l.idx \in Nat /\ l.from \in Nat
  <2>1. PICK k \in 0..h : from <= k /\ k <= end /\ l \in c[k].logs
    BY <1>7
  <2>2. l.at = k /\ (l.kind = "grant" => l.sender # NoAddr)
        /\ l.tx \in Nat /\ l.idx \in Nat /\ l.from \in Nat
    BY <2>1 DEF Shaped
  <2> QED
    BY <2>1, <2>2
<1>9. \A i, l \in L : i.at = l.at /\ i.tx = l.tx /\ i.idx = l.idx => i = l
  BY <1>8 DEF Shaped
<1>10. Proper(L)
  BY <1>1, <1>6, <1>8, <1>9 DEF Proper
<1> QED
  BY <1>8, <1>10 DEF L

(* A range of blocks has the logs of its first blocks and then of the others.     *)
LEMMA LogsSplit ==
  ASSUME NEW c, NEW h, Shaped(c, h), NEW from \in Nat, NEW mid \in Int, NEW end \in Int,
         from <= mid + 1, mid <= end
  PROVE  /\ LogsIn(c, from, end) = LogsIn(c, from, mid) \cup LogsIn(c, mid + 1, end)
         /\ Earlier(LogsIn(c, from, mid), LogsIn(c, mid + 1, end))
<1>1. h \in Nat /\ DOMAIN c = 0..h /\ mid + 1 \in Nat
  BY DEF Shaped
<1>2. ASSUME NEW l
      PROVE  l \in LogsIn(c, from, end) <=>
               l \in LogsIn(c, from, mid) \/ l \in LogsIn(c, mid + 1, end)
  BY <1>1, LogsAre
<1>3. ASSUME NEW a \in LogsIn(c, from, mid), NEW b \in LogsIn(c, mid + 1, end)
      PROVE  Precedes(a, b)
  <2>1. a.at \in Nat /\ a.at <= mid
    BY LogsProper
  <2>2. b.at \in Nat /\ mid + 1 <= b.at
    BY <1>1, LogsProper
  <2> QED
    BY <2>1, <2>2 DEF Precedes
<1> QED
  BY <1>2, <1>3 DEF Earlier

(* A prefix of a chain is one.                                                    *)
LEMMA PrefixWellFormed ==
  ASSUME NEW c, NEW h, WellFormed(c, h), NEW d \in 0..h, NEW p,
         DOMAIN p = 0..d, \A k \in 0..d : p[k] = c[k]
  PROVE  WellFormed(p, d)
<1>1. h \in Nat /\ d \in Nat /\ d <= h /\ d \in 0..MaxHeight /\ DOMAIN c = 0..h
  BY AuthChainAssumption DEF WellFormed, Shaped
<1>2. \A k \in 0..d : k \in 0..h
  BY <1>1
<1>3. ASSUME NEW k \in 0..d PROVE Linked(NoAddr, LogsIn(p, 0, k))
  <2>1. LogsIn(p, 0, k) = LogsIn(c, 0, k)
    BY <1>1, LogsAgree
  <2> QED
    BY <1>2, <2>1 DEF WellFormed
<1> QED
  BY <1>1, <1>2, <1>3 DEF WellFormed, Shaped

(* What is on the chain is a chain.                                               *)
LEMMA LiveTracked ==
  ASSUME ChainOK, NEW h \in 0..tip
  PROVE  Live(HashAt(h), h) /\ Tracked(HashAt(h), h)
<1>1. DOMAIN HashAt(h) = 0..h /\ \A k \in 0..h : HashAt(h)[k] = chain[k]
  BY DEF HashAt
<1>2. tip \in Nat
  BY AuthChainAssumption DEF ChainOK, WellFormed, Shaped
<1> QED
  BY <1>1, <1>2, PrefixWellFormed DEF Live, Tracked, ChainOK

(* Without reorganisations everything that was seen is still on the chain.        *)
LEMMA FirstForkLive ==
  ASSUME NEW c, NEW h, Tracked(c, h), epoch = 0
  PROVE  Live(c, h)
<1>1. h \in 0..h /\ c[h].e \in Nat
  BY AuthChainAssumption DEF Tracked, WellFormed, Shaped
<1> QED
  BY <1>1 DEF Tracked, Dead

(* A block that is on the chain carries the logs the node answers with.           *)
LEMMA LiveLogs ==
  ASSUME ChainOK, NEW c, NEW h, WellFormed(c, h), Live(c, h),
         NEW from \in Nat, NEW end \in Int, end <= h
  PROVE  LogsIn(chain, from, end) = LogsIn(c, from, end)
<1>1. h \in Nat /\ tip \in Nat /\ DOMAIN c = 0..h /\ DOMAIN chain = 0..tip
  BY AuthChainAssumption DEF ChainOK, WellFormed, Shaped
<1>2. h <= tip /\ \A k \in 0..h : c[k] = chain[k]
  BY DEF Live, HashAt
<1> QED
  BY <1>1, <1>2, LogsAgree

(* Two blocks of the chain have one history up to the lower of them.              *)
LEMMA LiveAgree ==
  ASSUME NEW c, NEW h \in Nat, Live(c, h), NEW d, NEW g \in Nat, Live(d, g), g <= h
  PROVE  \A k \in 0..g : c[k] = d[k]
BY DEF Live, HashAt

(* The logs of a new block.                                                       *)
LEMMA NewLogs ==
  ASSUME NEW body \in Bodies, NEW h \in Nat, NEW e,
         NEW L, L = NewBlock(body, h, e).logs
  PROVE  /\ IsFiniteSet(L)
         /\ \A l \in L :
              /\ l.at = h /\ l.tx \in Nat /\ l.idx \in Nat /\ l.from \in Nat
              /\ l.kind = "grant" => l.sender # NoAddr
         /\ \A i, l \in L : i.tx = l.tx /\ i.idx = l.idx => i = l
<1> DEFINE B == body.logs
           f == [l \in B |-> Located(l, h, e)]
<1>1. L = {Located(l, h, e) : l \in B}
  BY DEF NewBlock
<1>2. /\ IsFiniteSet(B)
      /\ \A l \in B : /\ l.tx \in Nat /\ l.idx \in Nat /\ l.from \in Nat
                      /\ l.kind = "grant" => l.sender # NoAddr
      /\ \A k, l \in B : k.tx = l.tx /\ k.idx = l.idx => k = l
  BY AuthChainAssumption
<1> HIDE DEF B
<1>3. f \in Surjection(B, L)
  <2>1. f \in [B -> L]
    BY <1>1
  <2>2. \A t \in L : \E k \in B : f[k] = t
    BY <1>1
  <2> QED
    BY <2>1, <2>2 DEF Surjection
<1>4. IsFiniteSet(L)
  BY <1>2, <1>3, FS_Surjection
<1>5. \A l \in B : LET x == Located(l, h, e)
                   IN  /\ x.at = h /\ x.tx = l.tx /\ x.idx = l.idx /\ x.from = l.from
                       /\ x.kind = l.kind /\ x.sender = l.sender
  BY DEF Located
<1>6. \A x \in L : \E l \in B : x = Located(l, h, e)
  BY <1>1
<1> QED
  BY <1>2, <1>4, <1>5, <1>6

(* The first block is a chain.                                                    *)
LEMMA InitWellFormed == ChainInit => ChainOK
<1> SUFFICES ASSUME ChainInit PROVE ChainOK
  OBVIOUS
<1>1. PICK body \in Bodies : /\ Linked(NoAddr, NewBlock(body, 0, 0).logs)
                             /\ chain = [k \in 0..0 |-> NewBlock(body, 0, 0)]
  BY DEF ChainInit
<1>2. /\ tip = 0 /\ epoch = 0 /\ DOMAIN chain = 0..0
      /\ chain[0] = NewBlock(body, 0, 0) /\ chain[0].e = 0
  BY <1>1 DEF ChainInit, NewBlock
<1>3. \A k \in 0..0 : k = 0
  OBVIOUS
<1>4. Shaped(chain, 0)
  BY <1>2, <1>3, NewLogs, AuthChainAssumption DEF Shaped
<1>5. LogsIn(chain, 0, 0) = chain[0].logs
  <2>0. \A l : l \in LogsIn(chain, 0, 0) <=>
                 \E k \in 0..0 : 0 <= k /\ k <= 0 /\ l \in chain[k].logs
    BY <1>2, LogsAre
  <2>1. \A l : l \in LogsIn(chain, 0, 0) <=> l \in chain[0].logs
    BY <2>0
  <2> QED
    BY <2>1
<1> QED
  BY <1>1, <1>2, <1>3, <1>4, <1>5, AuthChainAssumption DEF ChainOK, WellFormed

(* Mining keeps the chain well-formed.                                            *)
LEMMA MineWellFormed ==
  ASSUME ChainOK, NEW body \in Bodies, Mine(body)
  PROVE  ChainOK'
<1>1. /\ tip \in Nat /\ tip + 1 \in 0..MaxHeight /\ tip' = tip + 1 /\ epoch' = epoch
      /\ DOMAIN chain = 0..tip /\ DOMAIN chain' = 0..(tip + 1)
      /\ chain'[tip + 1] = NewBlock(body, tip + 1, epoch)
      /\ \A k \in 0..tip : chain'[k] = chain[k]
      /\ epoch \in Nat
  BY AuthChainAssumption DEF Mine, ChainOK, WellFormed, Shaped
<1>2. \A k \in 0..(tip + 1) : k \in 0..tip \/ k = tip + 1
  BY <1>1
<1>3. chain'[tip + 1].e = epoch
  BY <1>1 DEF NewBlock
<1>4. \A k \in 0..(tip + 1) : chain'[k].e \in Nat /\ chain'[k].e <= epoch
  BY <1>1, <1>2, <1>3 DEF ChainOK, WellFormed, Shaped
<1>5. ASSUME NEW k \in 0..(tip + 1)
      PROVE  /\ IsFiniteSet(chain'[k].logs)
             /\ \A l \in chain'[k].logs :
                  /\ l.at = k /\ l.tx \in Nat /\ l.idx \in Nat /\ l.from \in Nat
                  /\ l.kind = "grant" => l.sender # NoAddr
             /\ \A i, l \in chain'[k].logs : i.tx = l.tx /\ i.idx = l.idx => i = l
  <2>1. CASE k \in 0..tip
    BY <1>1, <2>1 DEF ChainOK, WellFormed, Shaped
  <2>2. CASE k = tip + 1
    BY <1>1, <2>2, NewLogs
  <2> QED
    BY <1>2, <2>1, <2>2
<1>6. Shaped(chain', tip + 1)
  BY <1>1, <1>4, <1>5 DEF Shaped
<1>7. ASSUME NEW k \in 0..(tip + 1) PROVE Linked(NoAddr, LogsIn(chain', 0, k))
  <2>1. \A n \in 0..tip : LogsIn(chain', 0, n) = LogsIn(chain, 0, n)
    BY <1>1, LogsAgree
  <2>2. CASE k \in 0..tip
    BY <2>1, <2>2 DEF ChainOK, WellFormed
  <2>3. CASE k = tip + 1
    <3> DEFINE A == LogsIn(chain', 0, tip)
               B == LogsIn(chain', tip + 1, tip + 1)
    <3>1. B = NewBlock(body, tip + 1, epoch).logs
      <4>1. \A l : l \in B <=> l \in chain'[tip + 1].logs
        BY <1>1, LogsAre
      <4> QED
        BY <1>1, <4>1
    <3>2. A = LogsIn(chain, 0, tip)
      BY <1>1, <2>1
    <3>3. Linked(NoAddr, A)
      BY <1>1, <3>2 DEF ChainOK, WellFormed
    <3>4. Linked(ManagerAfter(NoAddr, A), B)
      BY <3>1, <3>2 DEF Mine
    <3>5. LogsIn(chain', 0, k) = A \cup B /\ Earlier(A, B)
      BY <1>1, <1>6, <2>3, LogsSplit
    <3>6. Proper(LogsIn(chain', 0, k))
      BY <1>6, LogsProper
    <3> HIDE DEF A, B
    <3>7. Proper(A \cup B)
      BY <3>5, <3>6
    <3>8. Linked(NoAddr, A \cup B)
      BY <3>3, <3>4, <3>5, <3>7, LinkedChain
    <3> QED
      BY <3>5, <3>8
  <2> QED
    BY <1>2, <2>2, <2>3
<1>8. WellFormed(chain', tip')
  BY <1>1, <1>6, <1>7 DEF WellFormed
<1>9. epoch' \in 0..MaxReorgs /\ \A k \in 0..tip' : chain'[k].e <= epoch'
  BY <1>1, <1>4 DEF ChainOK
<1>10. WellFormed(chain, tip)'
  BY <1>8 DEF WellFormed, Shaped, LogsIn
<1> QED
  BY <1>9, <1>10 DEF ChainOK

(* A reorganisation keeps the chain well-formed.                                  *)
LEMMA ReorgWellFormed ==
  ASSUME ChainOK, NEW d \in 0..MaxHeight, Reorg(d)
  PROVE  ChainOK'
<1>1. /\ tip \in Nat /\ d \in 0..tip /\ tip' = d /\ epoch' = epoch + 1
      /\ DOMAIN chain' = 0..d /\ \A k \in 0..d : chain'[k] = chain[k]
      /\ epoch \in Nat /\ epoch' \in 0..MaxReorgs
  BY AuthChainAssumption DEF Reorg, HashAt, ChainOK, WellFormed, Shaped
<1>2. WellFormed(chain', d)
  BY <1>1, PrefixWellFormed DEF ChainOK
<1>3. \A k \in 0..d : chain'[k].e \in Nat /\ chain'[k].e <= epoch'
  <2>1. \A k \in 0..d : k \in 0..tip
    BY <1>1
  <2> QED
    BY <1>1, <2>1 DEF ChainOK, WellFormed, Shaped
<1>4. WellFormed(chain, tip)'
  BY <1>1, <1>2 DEF WellFormed, Shaped, LogsIn
<1> QED
  BY <1>1, <1>3, <1>4 DEF ChainOK

(* A block that was seen stays accounted for, and one that left the chain does    *)
(* not return to it.                                                              *)
LEMMA TrackedStep ==
  ASSUME ChainOK, ChainNext, NEW c, NEW h, WellFormed(c, h)
  PROVE  /\ Live(c, h) \/ Dead(c, h) => Live(c, h)' \/ Dead(c, h)'
         /\ (Live(c, h) \/ Dead(c, h)) /\ Live(c, h)' => Live(c, h)
<1>0. /\ h \in Nat /\ DOMAIN c = 0..h /\ c[h].e \in Nat /\ tip \in Nat /\ epoch \in Nat
      /\ \A k \in 0..tip : chain[k].e \in Nat /\ chain[k].e <= epoch
  BY AuthChainAssumption DEF WellFormed, Shaped, ChainOK
<1>a. Live(c, h) => c[h] = chain[h]
  BY <1>0 DEF Live, HashAt
<1>b. Live(c, h)' => c[h] = chain'[h] /\ h <= tip'
  BY <1>0 DEF Live, HashAt
<1>1. ASSUME NEW body \in Bodies, Mine(body)
      PROVE  /\ Live(c, h) => Live(c, h)'
             /\ Dead(c, h) => Dead(c, h)' /\ ~Live(c, h)'
  <2>1. tip' = tip + 1 /\ epoch' = epoch /\ chain'[tip + 1].e = epoch
        /\ \A k \in 0..tip : chain'[k] = chain[k]
    BY <1>0, <1>1 DEF Mine, NewBlock
  <2>2. h <= tip => HashAt(h)' = HashAt(h)
    BY <1>0, <2>1 DEF HashAt
  <2>3. Dead(c, h) => Dead(c, h)'
    BY <1>0, <2>1 DEF Dead
  <2> QED
    BY <1>0, <1>b, <2>1, <2>2, <2>3 DEF Live, Dead
<1>2. ASSUME NEW d \in 0..MaxHeight, Reorg(d)
      PROVE  /\ Live(c, h) => Live(c, h)' \/ Dead(c, h)'
             /\ Dead(c, h) => Dead(c, h)' /\ ~Live(c, h)'
  <2>1. d \in Nat /\ d < tip /\ tip' = d /\ epoch' = epoch + 1
        /\ \A k \in 0..d : chain'[k] = chain[k]
    BY <1>0, <1>2 DEF Reorg, HashAt
  <2>2. h <= d => HashAt(h)' = HashAt(h)
    BY <1>0, <2>1 DEF HashAt
  <2>3. Dead(c, h) => Dead(c, h)'
    BY <1>0, <2>1 DEF Dead
  <2>5. CASE Live(c, h)
    <3>1. c[h].e <= epoch /\ h <= tip
      BY <1>0, <1>a, <2>5 DEF Live
    <3> QED
      BY <1>0, <1>b, <2>1, <2>2, <2>3, <2>5, <3>1 DEF Live, Dead
  <2>6. CASE ~Live(c, h)
    BY <1>0, <1>b, <2>1, <2>3, <2>6 DEF Dead
  <2> QED
    BY <2>5, <2>6
<1> QED
  BY <1>1, <1>2 DEF ChainNext

-------------------------------------------------------------------------------
(* The authorisation as a function of history. *)

(* What a history L says when the schedules of the managers K are read.           *)
AuthFrom(L, K) ==
  [manager |-> ManagerAfter(NoAddr, L), known |-> K, table |-> Overwrite({}, Grants(L, K))]

(* The logs that are read of L when the managers K are known.                     *)
Select(L, K) == Names(L) \cup Grants(L, K)

(* The schedule of one manager, which a backfill builds.                          *)
Schedule(L, m) ==
  [manager |-> NoAddr, known |-> {m}, table |-> Overwrite({}, Grants(L, {m}))]

Hist(c, n) == LogsIn(c, 0, n)

Named(L) == {l.manager : l \in Names(L)} \ {NoAddr}

(* AuthOf reads the schedules of the managers that have been named.               *)
LEMMA AuthOfIs ==
  ASSUME NEW c, NEW n
  PROVE  AuthOf(c, n) = AuthFrom(Hist(c, n), Named(Hist(c, n)))
BY DEF AuthOf, AuthFrom, Hist, Named

(* An empty history authorises nobody.                                            *)
LEMMA AuthEmpty ==
  /\ AuthFrom({}, {}) = NewAuthorization
  /\ \A m : Schedule({}, m) = [NewAuthorization EXCEPT !.known = {m}]
  /\ \A K : AuthFrom({}, K) = [NewAuthorization EXCEPT !.known = K]
  /\ Named({}) = {}
<1>1. Names({}) = {} /\ \A K : Grants({}, K) = {}
  BY DEF Names, Grants
<1>2. Overwrite({}, {}) = {}
  BY DEF Overwrite
<1>3. ManagerAfter(NoAddr, {}) = NoAddr
  BY <1>1 DEF ManagerAfter
<1>4. \A K : AuthFrom({}, K) = [manager |-> NoAddr, known |-> K, table |-> {}]
  BY <1>1, <1>2, <1>3 DEF AuthFrom
<1>5. \A m : Schedule({}, m) = [manager |-> NoAddr, known |-> {m}, table |-> {}]
  BY <1>1, <1>2 DEF Schedule
<1>6. \A K : [NewAuthorization EXCEPT !.known = K]
               = [manager |-> NoAddr, known |-> K, table |-> {}]
  BY DEF NewAuthorization
<1>7. AuthFrom({}, {}) = NewAuthorization
  BY <1>4 DEF NewAuthorization
<1>8. Named({}) = {}
  BY <1>1 DEF Named
<1> QED
  BY <1>4, <1>5, <1>6, <1>7, <1>8

(* apply of a later part of the history gives what the whole history says.        *)
LEMMA ApplyIs ==
  ASSUME NEW A, NEW B, Proper(A \cup B), Earlier(A, B), NEW K
  PROVE  Apply(AuthFrom(A, K), Select(B, K)) = AuthFrom(A \cup B, K)
<1> DEFINE GA == Grants(A, K)
           GB == Grants(B, K)
<1>1. Names(Select(B, K)) = Names(B)
  BY DEF Select, Names, Grants
<1>2. {l \in Select(B, K) : l.kind = "grant"} = GB
  BY DEF Select, Names, Grants
<1>3. Grants(A \cup B, K) = GA \cup GB
  BY DEF Grants
<1>4. GA \cup GB \subseteq A \cup B /\ Earlier(GA, GB)
  BY DEF Grants, Earlier
<1>5. Proper(GA \cup GB)
  BY <1>4, ProperPart
<1> HIDE DEF GA, GB
<1>6. Overwrite(Overwrite({}, GA), GB) = Overwrite({}, GA \cup GB)
  BY <1>4, <1>5, OverwriteChain
<1>7. ManagerAfter(ManagerAfter(NoAddr, A), Select(B, K)) = ManagerAfter(NoAddr, A \cup B)
  BY <1>1, ManagerNames, ManagerChain
<1>8. /\ AuthFrom(A, K).manager = ManagerAfter(NoAddr, A) /\ AuthFrom(A, K).known = K
      /\ AuthFrom(A, K).table = Overwrite({}, GA)
  BY DEF AuthFrom, GA
<1>9. AuthFrom(A \cup B, K) = [manager |-> ManagerAfter(NoAddr, A \cup B), known |-> K,
                               table |-> Overwrite({}, GA \cup GB)]
  BY <1>3 DEF AuthFrom
<1> QED
  BY <1>2, <1>6, <1>7, <1>8, <1>9 DEF Apply

(* apply accepts it, when the history is linked.                                  *)
LEMMA AppliesIs ==
  ASSUME NEW A, NEW B, Proper(A \cup B), Earlier(A, B), NEW K, Linked(NoAddr, A \cup B)
  PROVE  Applies(AuthFrom(A, K), Select(B, K))
<1>1. Names(Select(B, K)) = Names(B)
  BY DEF Select, Names, Grants
<1>2. Linked(ManagerAfter(NoAddr, A), B)
  BY LinkedChain
<1>3. Linked(ManagerAfter(NoAddr, A), Select(B, K))
  BY <1>1, <1>2, LinkedNames
<1>4. AuthFrom(A, K).manager = ManagerAfter(NoAddr, A) /\ AuthFrom(A, K).known = K
  BY DEF AuthFrom
<1>5. \A l \in Select(B, K) : l.kind = "grant" => l.manager \in K
  BY DEF Select, Names, Grants
<1> QED
  BY <1>3, <1>4, <1>5 DEF Applies

(* A page of a backfill.                                                          *)
LEMMA ScheduleGrows ==
  ASSUME NEW A, NEW B, Proper(A \cup B), Earlier(A, B), NEW m
  PROVE  Apply(Schedule(A, m), Grants(B, {m})) = Schedule(A \cup B, m)
<1> DEFINE GA == Grants(A, {m})
           GB == Grants(B, {m})
<1>1. Names(GB) = {} /\ {l \in GB : l.kind = "grant"} = GB
  BY DEF Names, Grants
<1>2. Grants(A \cup B, {m}) = GA \cup GB
  BY DEF Grants
<1>3. GA \cup GB \subseteq A \cup B /\ Earlier(GA, GB)
  BY DEF Grants, Earlier
<1>4. Proper(GA \cup GB)
  BY <1>3, ProperPart
<1>5. /\ Schedule(A, m).manager = NoAddr /\ Schedule(A, m).known = {m}
      /\ Schedule(A, m).table = Overwrite({}, GA)
      /\ Schedule(A \cup B, m) = [manager |-> NoAddr, known |-> {m},
                                  table |-> Overwrite({}, GA \cup GB)]
  BY <1>2 DEF Schedule
<1> HIDE DEF GA, GB
<1>6. Overwrite(Overwrite({}, GA), GB) = Overwrite({}, GA \cup GB)
  BY <1>3, <1>4, OverwriteChain
<1>7. ManagerAfter(NoAddr, GB) = NoAddr
  BY <1>1 DEF ManagerAfter
<1>8. Apply(Schedule(A, m), GB) = [manager |-> NoAddr, known |-> {m},
                                   table |-> Overwrite({}, GA \cup GB)]
  BY <1>1, <1>5, <1>6, <1>7 DEF Apply
<1> QED
  BY <1>5, <1>8 DEF GB

(* A finished backfill joins the authorisation.                                   *)
LEMMA ScheduleJoins ==
  ASSUME NEW L, Proper(L), NEW K, NEW m
  PROVE  /\ AuthFrom(L, K).table \cup Schedule(L, m).table = AuthFrom(L, K \cup {m}).table
         /\ AuthFrom(L, K).known \cup Schedule(L, m).known = AuthFrom(L, K \cup {m}).known
         /\ AuthFrom(L, K).manager = AuthFrom(L, K \cup {m}).manager
BY OverwriteMerge DEF AuthFrom, Schedule

(* What the history says passes decodeAuth.                                       *)
LEMMA FromDecodes ==
  ASSUME NEW L, Proper(L), \A l \in L : l.kind = "grant" => l.sender # NoAddr,
         NEW K, NoAddr \notin K
  PROVE  /\ Named(L) \subseteq K => Decodes(AuthFrom(L, K))
         /\ \A m \in K : Decodes(Schedule(L, m))
<1>1. ASSUME NEW J, NEW x \in Overwrite({}, Grants(L, J))
      PROVE  x.manager \in J /\ x.sender # NoAddr
  <2>1. Proper(Grants(L, J))
    BY ProperPart DEF Grants
  <2>2. PICK g \in Grants(L, J) : x = Entry(g)
    BY <2>1, OverwriteIs
  <2>3. x.manager = g.manager /\ x.sender = g.sender
    BY <2>2 DEF Entry
  <2>4. g \in L /\ g.kind = "grant" /\ g.manager \in J
    BY DEF Grants
  <2> QED
    BY <2>3, <2>4
<1>2. ASSUME Named(L) \subseteq K PROVE Decodes(AuthFrom(L, K))
  <2>1. ManagerAfter(NoAddr, L) = NoAddr \/ ManagerAfter(NoAddr, L) \in K
    BY <1>2, ManagerNamed DEF Named
  <2>2. /\ AuthFrom(L, K).manager = ManagerAfter(NoAddr, L) /\ AuthFrom(L, K).known = K
        /\ AuthFrom(L, K).table = Overwrite({}, Grants(L, K))
    BY DEF AuthFrom
  <2> QED
    BY <1>1, <2>1, <2>2 DEF Decodes
<1>3. ASSUME NEW m \in K PROVE Decodes(Schedule(L, m))
  <2>1. /\ Schedule(L, m).manager = NoAddr /\ Schedule(L, m).known = {m}
        /\ Schedule(L, m).table = Overwrite({}, Grants(L, {m}))
    BY DEF Schedule
  <2> QED
    BY <1>1, <2>1 DEF Decodes
<1> QED
  BY <1>2, <1>3

(* The history of a block is that of an earlier one and the blocks between.       *)
LEMMA HistGrows ==
  ASSUME NEW c, NEW h, WellFormed(c, h), NEW from \in Nat, NEW end \in Nat,
         from <= end + 1, end <= h
  PROVE  /\ Hist(c, end) = Hist(c, from - 1) \cup LogsIn(c, from, end)
         /\ Earlier(Hist(c, from - 1), LogsIn(c, from, end))
         /\ Proper(Hist(c, end))
         /\ Linked(NoAddr, Hist(c, end))
         /\ Named(Hist(c, end)) = Named(Hist(c, from - 1)) \cup Named(LogsIn(c, from, end))
<1>0. Shaped(c, h) /\ h \in Nat /\ end \in 0..h
  BY DEF WellFormed, Shaped
<1>1. /\ Hist(c, end) = Hist(c, from - 1) \cup LogsIn(c, (from - 1) + 1, end)
      /\ Earlier(Hist(c, from - 1), LogsIn(c, (from - 1) + 1, end))
  <2>1. 0 <= (from - 1) + 1 /\ from - 1 <= end /\ from - 1 \in Int
    OBVIOUS
  <2> QED
    BY <1>0, <2>1, LogsSplit DEF Hist
<1>2. (from - 1) + 1 = from
  OBVIOUS
<1>3. Proper(Hist(c, end))
  BY <1>0, LogsProper DEF Hist
<1>4. Linked(NoAddr, Hist(c, end))
  BY <1>0 DEF Hist, WellFormed
<1>5. \A A, B : Named(A \cup B) = Named(A) \cup Named(B)
  BY DEF Named, Names
<1> QED
  BY <1>1, <1>2, <1>3, <1>4, <1>5

(* apply takes the authorisation over a window or a page.                         *)
LEMMA WindowApplies ==
  ASSUME NEW c, NEW h, WellFormed(c, h), NEW from \in Nat, NEW end \in Nat,
         from <= end + 1, end <= h, NEW K
  PROVE  /\ Applies(AuthFrom(Hist(c, from - 1), K), Select(LogsIn(c, from, end), K))
         /\ Apply(AuthFrom(Hist(c, from - 1), K), Select(LogsIn(c, from, end), K))
              = AuthFrom(Hist(c, end), K)
         /\ \A m : Apply(Schedule(Hist(c, from - 1), m), Grants(LogsIn(c, from, end), {m}))
              = Schedule(Hist(c, end), m)
<1> DEFINE A == Hist(c, from - 1)
           B == LogsIn(c, from, end)
<1>0. Hist(c, end) = A \cup B /\ Earlier(A, B) /\ Proper(Hist(c, end))
        /\ Linked(NoAddr, Hist(c, end))
  BY HistGrows
<1> HIDE DEF A, B
<1>1. Hist(c, end) = A \cup B /\ Earlier(A, B) /\ Proper(A \cup B) /\ Linked(NoAddr, A \cup B)
  BY <1>0
<1>2. Applies(AuthFrom(A, K), Select(B, K))
  BY <1>1, AppliesIs
<1>3. Apply(AuthFrom(A, K), Select(B, K)) = AuthFrom(A \cup B, K)
  BY <1>1, ApplyIs
<1>4. \A m : Apply(Schedule(A, m), Grants(B, {m})) = Schedule(A \cup B, m)
  BY <1>1, ScheduleGrows
<1> QED
  BY <1>1, <1>2, <1>3, <1>4 DEF A, B

(* The submissions of block k of chain c that an authorised sender sent.          *)
RightAt(c, k) ==
  {[at |-> k, tx |-> s.tx, sender |-> s.sender,
    blob |-> RightSender(c, k, s.tx, "blob", BlobSender)] :
     s \in {x \in c[k].subs : x.sender = RightSender(c, k, x.tx, "batch", InboxSender)}}

SubsIn(c, from, end) == UNION {RightAt(c, k) : k \in from..end}

(* RightSubs is made of the blocks since Start.                                   *)
LEMMA RightSubsIs ==
  ASSUME NEW c, NEW h
  PROVE  RightSubs(c, h) = SubsIn(c, Start, h)
BY DEF RightSubs, SubsIn, RightAt

(* One block after another.                                                       *)
LEMMA SubsGrow ==
  ASSUME NEW c, NEW from \in Nat, NEW mid \in Int, NEW end \in Int,
         from <= mid + 1, mid <= end
  PROVE  /\ SubsIn(c, from, end) = SubsIn(c, from, mid) \cup SubsIn(c, mid + 1, end)
         /\ SubsIn(c, end, end) = RightAt(c, end)
         /\ SubsIn(c, from, from - 1) = {}
<1>1. \A k : k \in from..end <=> k \in from..mid \/ k \in (mid + 1)..end
  OBVIOUS
<1>2. \A a, b : \A x : x \in SubsIn(c, a, b) <=> \E k \in a..b : x \in RightAt(c, k)
  BY DEF SubsIn
<1>3. SubsIn(c, from, end) = SubsIn(c, from, mid) \cup SubsIn(c, mid + 1, end)
  BY <1>1, <1>2
<1>4. \A k : k \in end..end <=> k = end
  OBVIOUS
<1>5. SubsIn(c, end, end) = RightAt(c, end)
  BY <1>2, <1>4
<1>6. from..(from - 1) = {}
  OBVIOUS
<1>7. SubsIn(c, from, from - 1) = {}
  BY <1>6 DEF SubsIn
<1> QED
  BY <1>3, <1>5, <1>7

Joins(S, A, B) == S = A \cup B

(* A range of blocks is its first blocks and then the others.                     *)
LEMMA SubsJoin ==
  ASSUME NEW c, NEW first \in Nat, NEW from \in Nat, NEW end \in Nat,
         first <= from, from <= end
  PROVE  /\ Joins(SubsIn(c, first, end), SubsIn(c, first, from - 1), SubsIn(c, from, end))
         /\ SubsIn(c, end, end) = RightAt(c, end)
         /\ SubsIn(c, first, first - 1) = {}
<1>1. /\ from - 1 \in Int /\ end \in Int /\ first <= (from - 1) + 1 /\ from - 1 <= end
      /\ (from - 1) + 1 = from
  OBVIOUS
<1> DEFINE mid == from - 1
<1>2. mid \in Int /\ end \in Int /\ first <= mid + 1 /\ mid <= end /\ mid + 1 = from
  BY <1>1
<1> HIDE DEF mid
<1>3. /\ SubsIn(c, first, end) = SubsIn(c, first, mid) \cup SubsIn(c, mid + 1, end)
      /\ SubsIn(c, end, end) = RightAt(c, end)
      /\ SubsIn(c, first, first - 1) = {}
  BY <1>2, SubsGrow
<1> QED
  BY <1>2, <1>3 DEF mid, Joins

(* They depend on the chain up to the block only.                                 *)
LEMMA SubsAgree ==
  ASSUME NEW c, NEW h \in Nat, DOMAIN c = 0..h, NEW d, NEW g \in Nat, DOMAIN d = 0..g,
         NEW n \in Int, n <= h, n <= g, \A k \in 0..n : c[k] = d[k], NEW from \in Nat
  PROVE  /\ SubsIn(c, from, n) = SubsIn(d, from, n)
         /\ Hist(c, n) = Hist(d, n)
<1>1. ASSUME NEW k \in from..n PROVE RightAt(c, k) = RightAt(d, k)
  <2>1. c[k] = d[k]
    OBVIOUS
  <2>2. LogsIn(c, 0, k) = LogsIn(d, 0, k)
    BY LogsAgree
  <2>3. \A i, role, fallback :
          RightSender(c, k, i, role, fallback) = RightSender(d, k, i, role, fallback)
    BY <2>2 DEF RightSender
  <2> QED
    BY <2>1, <2>3 DEF RightAt
<1>2. Hist(c, n) = Hist(d, n)
  BY LogsAgree DEF Hist
<1> QED
  BY <1>1, <1>2 DEF SubsIn

(* The sender that the authorisation names, once the logs of the block before the *)
(* transaction are applied, is the right one.                                     *)
LEMMA SenderRight ==
  ASSUME NEW c, NEW h, WellFormed(c, h), NEW k \in 0..h, NEW K,
         Named(Hist(c, k)) \subseteq K, NoAddr \notin K, NEW i, NEW role, NEW fallback
  PROVE  SenderAt(Apply(AuthFrom(Hist(c, k - 1), K),
                        Select({l \in LogsIn(c, k, k) : l.tx < i}, K)), role, k, fallback)
           = RightSender(c, k, i, role, fallback)
<1> DEFINE A == Hist(c, k - 1)
           B == LogsIn(c, k, k)
           Bi == {l \in B : l.tx < i}
           before == {l \in LogsIn(c, 0, k) : l.at < k \/ l.tx < i}
<1>0. h \in Nat /\ k \in Nat /\ Shaped(c, h)
  BY DEF WellFormed, Shaped
<1>1. Hist(c, k) = A \cup B /\ Earlier(A, B) /\ Proper(A \cup B)
  BY <1>0, HistGrows
<1>2. \A l \in A : l.at \in Nat /\ l.at <= k - 1
  BY <1>0, LogsProper DEF Hist
<1>3. \A l \in B : l.at = k
  <2>1. \A l \in B : l.at \in 0..h /\ k <= l.at /\ l.at <= k
    BY <1>0, LogsProper
  <2> QED
    BY <1>0, <2>1
<1>4. \A l : l \in before <=> l \in A \cup B /\ (l.at < k \/ l.tx < i)
  BY <1>1 DEF Hist
<1>5. \A l : l \in Bi <=> l \in B /\ l.tx < i
  OBVIOUS
<1> HIDE DEF A, B, before, Bi
<1>6. before = A \cup Bi
  BY <1>0, <1>2, <1>3, <1>4, <1>5
<1>7. Earlier(A, Bi) /\ before \subseteq A \cup B
  BY <1>1, <1>4, <1>5 DEF Earlier
<1>8. Proper(before)
  BY <1>1, <1>7, ProperPart
<1>9. Apply(AuthFrom(A, K), Select(Bi, K)) = AuthFrom(before, K)
  BY <1>6, <1>7, <1>8, ApplyIs
<1> DEFINE a == AuthFrom(before, K)
<1>10. a.manager = ManagerAfter(NoAddr, before) /\ a.table = Overwrite({}, Grants(before, K))
  BY DEF AuthFrom
<1>11. a.manager = NoAddr \/ a.manager \in K
  <2>1. \A l \in Names(before) : l \in Names(Hist(c, k))
    BY <1>1, <1>7 DEF Names
  <2>2. Named(before) \subseteq K
    BY <2>1 DEF Named
  <2> QED
    BY <1>8, <1>10, <2>2, ManagerNamed DEF Named
<1> HIDE DEF a
<1>12. SenderAt(a, role, k, fallback) = Granted(before, a.manager, role, k, fallback)
  BY <1>0, <1>8, <1>10, <1>11, SenderIs
<1>13. RightSender(c, k, i, role, fallback)
         = Granted(before, ManagerAfter(NoAddr, before), role, k, fallback)
  BY DEF RightSender, Granted, before
<1> QED
  BY <1>9, <1>10, <1>12, <1>13 DEF a, A, B, Bi

-------------------------------------------------------------------------------
(* The worker. *)

Idle == {"idle", "wait", "retry", "halt", "invalid", "stopped"}
Preparing == {"height1", "tip", "confirmed", "plan", "bootanchor", "boot"}
Backing == {"backanchor", "back", "backlogs", "backend"}
Reading == Backing \cup {"changes", "managers"}
Closing == {"end", "height2", "bootend", "commit"}
Working == Reading \cup Closing \cup {"anchor", "block", "bootpage"}

(* The committed authorisation is that of the committed block.                    *)
StateOK ==
  /\ st.height \in Nil..MaxHeight
  /\ st.height = Nil => st = NoState
  /\ st.height # Nil =>
       /\ st.height >= Start
       /\ Tracked(st.hash, st.height)
       /\ st.auth = AuthOf(st.hash, st.height)
       /\ st.subs = RightSubs(st.hash, st.height)

(* A bootstrap has read the history below next, if its anchor still stands.       *)
BootOK ==
  boot # NoBoot =>
    /\ boot.next \in 0..Start
    /\ DOMAIN boot = {"next", "anchor", "auth", "ready"}
    /\ boot.ready = (boot.next = Start)
    /\ Start > 0
    /\ Tracked(boot.anchor, Start - 1)
    /\ Live(boot.anchor, Start - 1) => boot.auth = AuthOf(boot.anchor, boot.next - 1)

(* And so has a backfill, of one manager.                                         *)
BackOK ==
  /\ \A b \in back :
       /\ DOMAIN b = {"m", "before", "next", "anchor", "auth"}
       /\ b.m # NoAddr
       /\ b.before \in 1..MaxHeight
       /\ b.next \in 0..b.before
       /\ Tracked(b.anchor, b.before - 1)
       /\ Live(b.anchor, b.before - 1) => b.auth = Schedule(Hist(b.anchor, b.next - 1), b.m)
  /\ \A b, d \in back : b.m = d.m => b = d

(* The window or page the Step works on.                                          *)
RangeOK ==
  /\ v.from \in 0..MaxHeight
  /\ v.end \in v.from..MaxHeight
  /\ v.boot \in BOOLEAN
  /\ v.boot =>
       /\ pc \in Reading \cup {"bootpage"}
       /\ st.height = Nil /\ boot # NoBoot
       /\ v.from = boot.next /\ v.end <= Start - 1 /\ Start <= v.target
  /\ ~v.boot =>
       /\ pc # "bootpage"
       /\ v.from = IF st.height # Nil THEN st.height + 1 ELSE Start
       /\ st.height = Nil /\ Start > 0 => boot # NoBoot /\ boot.next = Start
       /\ pc # "anchor" => Tracked(v.anchor, v.end)

(* The locals of a Step.                                                          *)
LocalsOK ==
  /\ DOMAIN v = DOMAIN Fresh
  /\ v.target \in 0..MaxHeight
  /\ pc \in Idle \cup Preparing \cup Working
  /\ pc \in Idle \cup Preparing => v = [Fresh EXCEPT !.target = v.target]
  /\ pc \in {"bootanchor", "boot"} => st.height = Nil /\ Start > 0 /\ Start <= v.target
  /\ pc = "boot" => boot # NoBoot
  /\ pc \in Working => RangeOK
  /\ pc \in Reading \cup {"anchor"} => v.subs = {}
  /\ pc \in Backing =>
       v.from > 0 /\ v.m # NoAddr /\ v.m \in {l.manager : l \in v.logs}
  /\ pc \in {"back", "backlogs", "backend"} => Progress(v.m) # {}
  /\ pc \in {"backlogs", "backend"} => \A b \in Progress(v.m) : b.next < b.before
  /\ pc # "backend" => v.page = NewAuthorization
  /\ pc = "block" => v.at \in v.from..v.end
  /\ v.at \in 0..MaxHeight + 1
  /\ blobReady \in BOOLEAN

(* The block the window or page hangs on, and whether it and what the Step        *)
(* started from still stand.                                                      *)
Anchor == IF v.boot THEN boot.anchor ELSE v.anchor
Top == IF v.boot THEN Start - 1 ELSE v.end

BootLive == st.height = Nil /\ Start > 0 => Live(boot.anchor, Start - 1)

BaseLive == (st.height # Nil => Live(st.hash, st.height)) /\ BootLive

Sound == BaseLive /\ Live(Anchor, Top)

(* What the Step starts from.                                                     *)
BaseAuth ==
  IF st.height # Nil THEN AuthOf(st.hash, st.height)
  ELSE IF Start = 0 THEN NewAuthorization ELSE AuthOf(boot.anchor, Start - 1)

Extends(c) == st.height # Nil => \A k \in 0..st.height : c[k] = st.hash[k]

(* What a Step knows while it reads the logs of a window or page.                 *)
Learned(a, c, from, end) ==
  /\ a = AuthFrom(Hist(c, from - 1), a.known)
  /\ Named(Hist(c, from - 1)) \subseteq a.known
  /\ a.known \subseteq Named(Hist(c, end))

(* What the Step has read and applied, if what is still to be checked stands.     *)
HistoryOK ==
  pc \in Reading /\ Sound =>
    /\ Learned(v.auth, Anchor, v.from, v.end)
    /\ pc # "changes" => v.logs = Names(LogsIn(Anchor, v.from, v.end))

PageOK ==
  pc = "backend" =>
    \A b \in Progress(v.m) :
      Live(b.anchor, b.before - 1) =>
        v.page = Schedule(Hist(b.anchor, PageEnd(b.next, b.before - 1)), b.m)

BlockOK ==
  pc = "block" /\ Sound =>
    LET K == Named(Hist(v.anchor, v.end))
    IN  /\ v.logs = Select(LogsIn(v.anchor, v.from, v.end), K)
        /\ v.auth = AuthFrom(Hist(v.anchor, v.at - 1), K)
        /\ v.subs = SubsIn(v.anchor, v.from, v.at - 1)

Done ==
  /\ v.auth = AuthOf(v.anchor, v.end)
  /\ v.subs = SubsIn(v.anchor, v.from, v.end)
  /\ Extends(v.anchor)

ScanOK ==
  /\ pc = "anchor" /\ BaseLive => v.auth = BaseAuth
  /\ HistoryOK
  /\ PageOK
  /\ pc = "bootpage" /\ Sound => v.auth = AuthOf(boot.anchor, v.end)
  /\ BlockOK
  /\ pc = "end" /\ Sound => Done
  /\ pc = "height2" /\ BaseLive => Done
  /\ pc = "bootend" /\ BootLive => Done
  /\ pc = "commit" => Done

(* On the first fork nothing halts the worker.                                    *)
CalmOK == epoch = 0 => pc # "halt"

IInv == ChainOK /\ StateOK /\ BootOK /\ BackOK /\ LocalsOK /\ ScanOK /\ CalmOK

-------------------------------------------------------------------------------
(* What a step may do to the blocks the worker remembers: they stay accounted     *)
(* for, and none comes back to the chain.                                         *)
Firm == \A c, h : Tracked(c, h) => Tracked(c, h)' /\ (Live(c, h)' => Live(c, h))

(* A step that leaves the chain alone leaves its blocks where they were.          *)
LEMMA SameChain ==
  UNCHANGED chainVars =>
    /\ ChainOK' <=> ChainOK
    /\ \A c, h : (Tracked(c, h)' <=> Tracked(c, h)) /\ (Live(c, h)' <=> Live(c, h))
BY DEF chainVars, ChainOK, Tracked, Dead, Live, HashAt, WellFormed, Shaped, LogsIn

(* In particular it brings none back.                                             *)
LEMMA StillFirm == UNCHANGED chainVars => Firm
BY SameChain DEF Firm

(* Neither does a new block or a reorganisation.                                  *)
LEMMA ChainFirm == ChainOK /\ ChainNext => ChainOK' /\ Firm
<1> SUFFICES ASSUME ChainOK, ChainNext PROVE ChainOK' /\ Firm
  OBVIOUS
<1>1. ChainOK'
  BY MineWellFormed, ReorgWellFormed DEF ChainNext
<1>2. \A c, h : WellFormed(c, h)' <=> WellFormed(c, h)
  BY DEF WellFormed, Shaped, LogsIn
<1>3. ASSUME NEW c, NEW h, Tracked(c, h)
      PROVE  Tracked(c, h)' /\ (Live(c, h)' => Live(c, h))
  BY <1>2, <1>3, TrackedStep DEF Tracked
<1> QED
  BY <1>1, <1>3 DEF Firm

(* The database and the memory of the worker, left alone.                         *)
LEMMA KeepState ==
  ASSUME StateOK, Firm, st' = st
  PROVE  StateOK'
<1>1. Tracked(st.hash, st.height) => Tracked(st.hash, st.height)'
  BY DEF Firm
<1>2. AuthOf(st.hash, st.height)' = AuthOf(st.hash, st.height)
      /\ RightSubs(st.hash, st.height)' = RightSubs(st.hash, st.height)
  BY DEF AuthOf, RightSubs, RightSender, LogsIn
<1> QED
  BY <1>1, <1>2 DEF StateOK

(* A bootstrap that is left alone.                                                *)
LEMMA KeepBoot ==
  ASSUME BootOK, Firm, boot' = boot
  PROVE  BootOK'
<1>1. Tracked(boot.anchor, Start - 1) =>
        /\ Tracked(boot.anchor, Start - 1)'
        /\ Live(boot.anchor, Start - 1)' => Live(boot.anchor, Start - 1)
  BY DEF Firm
<1>2. AuthOf(boot.anchor, boot.next - 1)' = AuthOf(boot.anchor, boot.next - 1)
  BY DEF AuthOf, LogsIn
<1> QED
  BY <1>1, <1>2 DEF BootOK

(* Backfills that are left alone.                                                 *)
LEMMA KeepBack ==
  ASSUME BackOK, Firm, back' = back
  PROVE  BackOK'
<1>1. ASSUME NEW b \in back
      PROVE  /\ Tracked(b.anchor, b.before - 1)'
             /\ Live(b.anchor, b.before - 1)' => Live(b.anchor, b.before - 1)
  BY DEF Firm, BackOK
<1>2. ASSUME NEW b PROVE Schedule(Hist(b.anchor, b.next - 1), b.m)' = Schedule(Hist(b.anchor, b.next - 1), b.m)
  BY DEF Schedule, Hist, LogsIn
<1> QED
  BY <1>1, <1>2 DEF BackOK

(* A step that changes neither the chain, the database nor the memory.            *)
LEMMA QuietOK ==
  ASSUME IInv, UNCHANGED <<chainVars, st, memVars>>
  PROVE  ChainOK' /\ StateOK' /\ BootOK' /\ BackOK' /\ Firm /\ epoch' = epoch
<1>1. UNCHANGED chainVars /\ st' = st /\ boot' = boot /\ back' = back /\ epoch' = epoch
  BY DEF memVars, chainVars
<1> QED
  BY <1>1, SameChain, StillFirm, KeepState, KeepBoot, KeepBack DEF IInv

(* The fields of the locals at the start of a Step.                               *)
LEMMA FreshFields ==
  /\ DOMAIN Fresh = {"target", "boot", "from", "end", "anchor", "auth", "logs", "m", "page",
                     "at", "subs"}
  /\ Fresh.target = 0 /\ Fresh.boot = FALSE /\ Fresh.from = 0 /\ Fresh.end = 0
  /\ Fresh.auth = NewAuthorization /\ Fresh.page = NewAuthorization
  /\ Fresh.at = 0 /\ Fresh.subs = {} /\ Fresh.logs = {} /\ Fresh.m = NoAddr
BY DEF Fresh

(* Between Steps, and before a Step opens a window, the locals say nothing.       *)
LEMMA EmptyOK ==
  ASSUME NEW t \in 0..MaxHeight, v' = [Fresh EXCEPT !.target = t],
         pc' \in Idle \cup {"height1", "tip", "confirmed", "plan"}, blobReady' \in BOOLEAN
  PROVE  LocalsOK' /\ ScanOK'
<1>1. /\ DOMAIN v' = DOMAIN Fresh /\ v'.target = t /\ v'.page = NewAuthorization /\ v'.at = 0
      /\ v' = [Fresh EXCEPT !.target = v'.target]
  BY FreshFields
<1>2. pc' \notin Working \cup {"bootanchor", "boot"}
  BY DEF Idle, Working, Reading, Backing, Closing
<1>3. pc' \in Idle \cup Preparing
  BY DEF Preparing
<1>4. LocalsOK'
  <2>1. 0 \in 0..MaxHeight + 1
    BY AuthChainAssumption
  <2> QED
    BY <1>1, <1>2, <1>3, <2>1, Zenon DEF LocalsOK, Working, Reading, Backing
<1>5. ScanOK'
  BY <1>2 DEF ScanOK, HistoryOK, PageOK, BlockOK, Working, Reading, Backing, Closing
<1> QED
  BY <1>4, <1>5

(* The end of a Step.                                                             *)
LEMMA ReturnOK ==
  ASSUME NEW l \in Idle, Return(l), blobReady' \in BOOLEAN
  PROVE  LocalsOK' /\ ScanOK' /\ pc' = l
<1>1. v' = [Fresh EXCEPT !.target = 0] /\ pc' = l
  <2>1. v' = Fresh /\ pc' = l
    BY DEF Return, Goto
  <2>2. v' = [Fresh EXCEPT !.target = v'.target]
    BY <2>1 DEF Fresh
  <2> QED
    BY <2>1, <2>2, FreshFields
<1>2. 0 \in 0..MaxHeight
  BY AuthChainAssumption
<1> QED
  BY <1>1, <1>2, EmptyOK

(* The initial state.                                                             *)
LEMMA InitOK == Init => IInv
<1> SUFFICES ASSUME Init PROVE IInv
  OBVIOUS
<1>1. ChainOK
  BY InitWellFormed DEF Init
<1>2. StateOK
  BY AuthChainAssumption DEF Init, StateOK, NoState, Nil
<1>3. BootOK /\ BackOK /\ CalmOK
  BY DEF Init, BootOK, BackOK, CalmOK
<1>4. LocalsOK
  <2>1. pc = "idle" /\ v = Fresh /\ blobReady = FALSE
    BY DEF Init
  <2>2. pc \in Idle \cup Preparing /\ pc \notin Working \cup {"bootanchor", "boot", "backend", "block"}
    BY <2>1 DEF Idle, Working, Reading, Backing, Closing
  <2>3. v = [Fresh EXCEPT !.target = v.target]
    BY <2>1 DEF Fresh
  <2>4. 0 \in 0..MaxHeight + 1 /\ 0 \in 0..MaxHeight
    BY AuthChainAssumption
  <2>5. blobReady \in BOOLEAN
    BY <2>1
  <2> QED
    BY <2>1, <2>2, <2>3, <2>4, <2>5, FreshFields, Zenon DEF LocalsOK, Working, Reading, Backing
<1>5. ScanOK
  <2>1. pc = "idle"
    BY DEF Init
  <2> QED
    BY <2>1 DEF ScanOK, HistoryOK, PageOK, BlockOK, Reading, Backing
<1> QED
  BY <1>1, <1>2, <1>3, <1>4, <1>5 DEF IInv

(* A step between Steps, or before a Step opens a window.                         *)
LEMMA PlainOK ==
  ASSUME IInv, UNCHANGED <<chainVars, st, memVars>>, NEW t \in 0..MaxHeight,
         v' = [Fresh EXCEPT !.target = t], blobReady' \in BOOLEAN,
         pc' \in (Idle \ {"halt"}) \cup {"height1", "tip", "confirmed", "plan"}
  PROVE  IInv'
<1>1. LocalsOK' /\ ScanOK'
  BY EmptyOK
<1>2. CalmOK'
  BY DEF CalmOK
<1> QED
  BY <1>1, <1>2, QuietOK DEF IInv

(* The end of a Step that was not an integrity error.                             *)
LEMMA LeaveOK ==
  ASSUME IInv, UNCHANGED <<chainVars, st, memVars>>, NEW l \in Idle \ {"halt"}, Return(l),
         blobReady' \in BOOLEAN
  PROVE  IInv'
<1>1. LocalsOK' /\ ScanOK' /\ pc' = l
  BY ReturnOK
<1>2. CalmOK'
  BY <1>1 DEF CalmOK
<1> QED
  BY <1>1, <1>2, QuietOK DEF IInv

(* The target is a block of the chain.                                            *)
LEMMA ConfirmedIn == ChainOK => Confirmed(tip) \in 0..MaxHeight
BY AuthChainAssumption, AuthConfigAssumption DEF ChainOK, WellFormed, Shaped, Confirmed

(* The steps of Run and prepare before a window is opened.                        *)
LEMMA PrepareOK ==
  IInv /\ (StartStep \/ ReadTip \/ ReadConfirmed \/ CaughtUp \/ Retry \/ Halt \/ Poll) => IInv'
<1> SUFFICES ASSUME IInv, StartStep \/ ReadTip \/ ReadConfirmed \/ CaughtUp \/ Retry \/ Halt \/ Poll
             PROVE  IInv'
  OBVIOUS
<1>1. UNCHANGED <<chainVars, st, memVars>>
  BY DEF StartStep, ReadTip, ReadConfirmed, CaughtUp, Retry, Halt, Poll
<1>2. pc \in Idle \cup {"tip", "confirmed", "plan"}
  BY DEF StartStep, ReadTip, ReadConfirmed, CaughtUp, Retry, Halt, Poll, Idle
<1>3. v = [Fresh EXCEPT !.target = v.target] /\ v.target \in 0..MaxHeight /\ blobReady \in BOOLEAN
  BY <1>2, Zenon DEF IInv, LocalsOK, Preparing
<1>4. blobReady' \in BOOLEAN
  <2>1. CASE StartStep \/ ReadTip \/ Poll
    BY <1>3, <2>1, Zenon DEF StartStep, ReadTip, Poll
  <2>2. CASE ReadConfirmed \/ CaughtUp \/ Retry \/ Halt
    <3>1. SetBlobReady(Caught) \/ SetBlobReady(TRUE) \/ SetBlobReady(FALSE)
      BY <2>2, Zenon DEF ReadConfirmed, CaughtUp, Retry, Halt
    <3>2. Caught \in BOOLEAN
      BY DEF Caught
    <3> QED
      BY <3>1, <3>2, Zenon DEF SetBlobReady
  <2> QED
    BY <2>1, <2>2
<1>5. CASE StartStep \/ ReadConfirmed \/ Retry \/ Halt \/ Poll
  <2>1. v' = v /\ pc' \in (Idle \ {"halt"}) \cup {"height1", "tip", "confirmed", "plan"}
    BY <1>5 DEF StartStep, ReadConfirmed, Retry, Halt, Poll, Goto, Idle
  <2> QED
    BY <1>1, <1>3, <1>4, <2>1, PlainOK
<1>6. CASE ReadTip
  <2>1. v' = [v EXCEPT !.target = Confirmed(tip)] /\ pc' = "confirmed"
    BY <1>6 DEF ReadTip, Goto
  <2>2. \A t, u : [[Fresh EXCEPT !.target = t] EXCEPT !.target = u] = [Fresh EXCEPT !.target = u]
    BY DEF Fresh
  <2>3. v' = [Fresh EXCEPT !.target = Confirmed(tip)]
    BY <1>3, <2>1, <2>2
  <2> QED
    BY <1>1, <1>4, <2>1, <2>3, PlainOK, ConfirmedIn DEF IInv
<1>7. CASE CaughtUp
  BY <1>1, <1>4, <1>7, LeaveOK DEF CaughtUp, Idle
<1> QED
  BY <1>5, <1>6, <1>7

(* A Step that fails without an integrity error.                                  *)
LEMMA FailureOK == IInv /\ (CallFails \/ BadAnswer) => IInv'
<1> SUFFICES ASSUME IInv, CallFails \/ BadAnswer PROVE IInv'
  OBVIOUS
<1>1. UNCHANGED <<chainVars, st, memVars>> /\ \E l \in {"retry", "invalid"} : Return(l)
  BY DEF CallFails, BadAnswer
<1>2. blobReady' = blobReady
  BY DEF CallFails, BadAnswer
<1>3. blobReady' \in BOOLEAN
  BY <1>2, Zenon DEF IInv, LocalsOK
<1> QED
  BY <1>1, <1>3, LeaveOK DEF Idle

(* A restart forgets the bootstrap and the backfills.                             *)
LEMMA RestartOK == IInv /\ Restart => IInv'
<1> SUFFICES ASSUME IInv, Restart PROVE IInv'
  OBVIOUS
<1>1. UNCHANGED chainVars /\ st' = st /\ boot' = NoBoot /\ back' = {} /\ Return("idle")
      /\ blobReady' = FALSE
  BY DEF Restart
<1>2. LocalsOK' /\ ScanOK' /\ pc' = "idle"
  BY <1>1, ReturnOK DEF Idle
<1>3. ChainOK' /\ StateOK'
  BY <1>1, SameChain, StillFirm, KeepState DEF IInv
<1>4. BootOK' /\ BackOK' /\ CalmOK'
  BY <1>1, <1>2 DEF BootOK, BackOK, CalmOK
<1> QED
  BY <1>2, <1>3, <1>4 DEF IInv

(* The last block of a window or page.                                            *)
LEMMA PageEndIn ==
  ASSUME NEW next \in Nat, NEW limit \in Int, next <= limit
  PROVE  PageEnd(next, limit) \in next..limit
BY AuthConfigAssumption DEF PageEnd

(* A Step opens the window after the checkpoint.                                  *)
LEMMA OpenOK ==
  ASSUME StateOK, NEW a, OpenWindow(a), st' = st, v.target \in 0..MaxHeight,
         st.height # Nil => st.height + 1 <= v.target,
         st.height = Nil => Start <= v.target,
         st.height = Nil /\ Start > 0 => boot' # NoBoot /\ boot'.next = Start,
         BaseLive' => a = BaseAuth', blobReady' \in BOOLEAN
  PROVE  LocalsOK' /\ ScanOK' /\ pc' = "anchor"
<1> DEFINE from == IF st.height # Nil THEN st.height + 1 ELSE Start
<1>1. /\ v' = [Fresh EXCEPT !.target = v.target, !.auth = a, !.from = from,
                            !.end = PageEnd(from, v.target)]
      /\ pc' = "anchor"
  BY DEF OpenWindow, Goto
<1>2. from \in Nat /\ from <= v.target /\ from \in 0..MaxHeight
  BY AuthChainAssumption, AuthConfigAssumption DEF StateOK, Nil
<1>3. PageEnd(from, v.target) \in from..v.target
  BY <1>2, PageEndIn
<1> DEFINE end == PageEnd(from, v.target)
<1> HIDE DEF from, end
<1>4. /\ DOMAIN v' = DOMAIN Fresh /\ v'.target = v.target /\ v'.from = from /\ v'.end = end
      /\ v'.boot = FALSE /\ v'.page = NewAuthorization /\ v'.at = 0 /\ v'.subs = {}
      /\ v'.auth = a
  BY <1>1, FreshFields DEF end
<1>5. end \in from..MaxHeight
  BY <1>2, <1>3, AuthChainAssumption DEF end
<1>6. pc' \in Working /\ pc' \notin Idle \cup Preparing \cup Reading \cup Closing \cup
                           {"boot", "bootanchor", "bootpage", "block"}
  BY <1>1 DEF Working, Idle, Preparing, Reading, Backing, Closing
<1>7. v'.boot \in BOOLEAN /\ ~v'.boot
  BY <1>4, Zenon
<1>8. RangeOK'
  <2>1. v'.from \in 0..MaxHeight /\ v'.end \in v'.from..MaxHeight
    BY <1>2, <1>4, <1>5
  <2>2. v'.from = IF st'.height # Nil THEN st'.height + 1 ELSE Start
    BY <1>4 DEF from
  <2> QED
    BY <1>1, <1>7, <2>1, <2>2, Zenon DEF RangeOK
<1>9. LocalsOK'
  <2>1. v'.at \in 0..MaxHeight + 1 /\ v'.target \in 0..MaxHeight
    BY <1>4, AuthChainAssumption
  <2>2. pc' \notin {"back", "backlogs", "backend"} /\ pc' \notin Backing
    BY <1>1 DEF Backing
  <2> QED
    BY <1>1, <1>4, <1>6, <1>8, <2>1, <2>2, Zenon DEF LocalsOK
<1>10. ScanOK'
  BY <1>1, <1>4 DEF ScanOK, HistoryOK, PageOK, BlockOK, Reading, Backing
<1> QED
  BY <1>1, <1>9, <1>10

(* initialize: a Step starts from the checkpoint, from nothing, or bootstraps.    *)
LEMMA InitializeOK == IInv /\ Initialize => IInv'
<1> SUFFICES ASSUME IInv, Initialize PROVE IInv'
  OBVIOUS
<1>1. /\ pc = "plan" /\ UNCHANGED <<chainVars, st, memVars>> /\ blobReady' = blobReady
      /\ ~Caught /\ Start <= v.target
  BY DEF Initialize
<1>2. /\ v = [Fresh EXCEPT !.target = v.target] /\ v.target \in 0..MaxHeight
      /\ blobReady' \in BOOLEAN
  <2>1. pc \in Idle \cup Preparing
    BY <1>1 DEF Preparing
  <2> QED
    BY <1>1, <2>1, Zenon DEF IInv, LocalsOK
<1>3. st' = st /\ boot' = boot
  BY <1>1 DEF memVars
<1>4. st.height # Nil => st.height + 1 <= v.target
  BY <1>1, <1>2, AuthChainAssumption DEF Caught, IInv, StateOK, Nil
<1>5. ASSUME NEW a, OpenWindow(a), st.height = Nil => Start = 0,
             a = IF st.height # Nil THEN st.auth ELSE NewAuthorization
      PROVE  LocalsOK' /\ ScanOK' /\ pc' = "anchor"
  <2>1. a = BaseAuth'
    <3>1. CASE st.height # Nil
      <4>1. a = AuthOf(st.hash, st.height)
        BY <1>5, <3>1 DEF IInv, StateOK
      <4>2. AuthOf(st.hash, st.height)' = AuthOf(st.hash, st.height)
        BY <1>3 DEF AuthOf, LogsIn
      <4> QED
        BY <1>3, <3>1, <4>1, <4>2 DEF BaseAuth
    <3>2. CASE st.height = Nil
      BY <1>3, <1>5, <3>2 DEF BaseAuth
    <3> QED
      BY <3>1, <3>2
  <2>2. st.height = Nil /\ Start > 0 => FALSE
    BY <1>5
  <2> QED
    BY <1>1, <1>2, <1>3, <1>4, <1>5, <2>1, <2>2, OpenOK DEF IInv
<1>6. LocalsOK' /\ ScanOK' /\ pc' # "halt"
  <2>1. CASE st.height # Nil \/ Start = 0
    BY <1>5, <2>1 DEF Initialize
  <2>2. CASE st.height = Nil /\ Start # 0
    <3>1. v' = v /\ pc' = IF boot = NoBoot THEN "bootanchor" ELSE "boot"
      BY <2>2 DEF Initialize, Goto
    <3>2. /\ DOMAIN v' = DOMAIN Fresh /\ v'.page = NewAuthorization /\ v'.at = 0
          /\ v' = [Fresh EXCEPT !.target = v'.target] /\ v'.target \in 0..MaxHeight
          /\ v'.target = v.target
      BY <1>2, <3>1, FreshFields
    <3>3. pc' \in Preparing /\ pc' \notin Working /\ pc' \in {"bootanchor", "boot"}
      BY <3>1 DEF Preparing, Working, Reading, Backing, Closing
    <3>4. st'.height = Nil /\ Start > 0 /\ Start <= v'.target /\ (pc' = "boot" => boot' # NoBoot)
      BY <1>1, <1>3, <2>2, <3>1, <3>2, AuthConfigAssumption
    <3>5. 0 \in 0..MaxHeight + 1
      BY AuthChainAssumption
    <3>6. LocalsOK'
      BY <1>2, <3>2, <3>3, <3>4, <3>5, Zenon DEF LocalsOK, Working, Reading, Backing
    <3>7. ScanOK'
      BY <3>3 DEF ScanOK, HistoryOK, PageOK, BlockOK, Working, Reading, Backing, Closing
    <3> QED
      BY <3>1, <3>6, <3>7
  <2> QED
    BY <2>1, <2>2
<1> QED
  BY <1>1, <1>6, QuietOK DEF IInv, CalmOK

(* Two blocks of the chain have one history.                                      *)
LEMMA LiveHist ==
  ASSUME NEW c, NEW h, WellFormed(c, h), Live(c, h), NEW d, NEW g, WellFormed(d, g), Live(d, g),
         NEW n \in Int, n <= h, n <= g
  PROVE  /\ \A k \in 0..n : c[k] = d[k]
         /\ Hist(c, n) = Hist(d, n)
         /\ \A from \in Nat : SubsIn(c, from, n) = SubsIn(d, from, n)
<1>1. h \in Nat /\ g \in Nat /\ DOMAIN c = 0..h /\ DOMAIN d = 0..g
  BY DEF WellFormed, Shaped
<1>2. \A k \in 0..n : c[k] = d[k]
  BY <1>1 DEF Live, HashAt
<1> QED
  BY <1>1, <1>2, SubsAgree

(* It starts from the authorisation of the block before.                          *)
LEMMA LearnedStart ==
  ASSUME NEW c, NEW h, WellFormed(c, h), NEW from \in Nat, NEW end \in Nat,
         from <= end + 1, end <= h, NEW a, a = AuthOf(c, from - 1)
  PROVE  Learned(a, c, from, end)
<1>1. a = AuthFrom(Hist(c, from - 1), Named(Hist(c, from - 1)))
  BY AuthOfIs
<1>2. a.known = Named(Hist(c, from - 1))
  BY <1>1 DEF AuthFrom
<1>3. Named(Hist(c, from - 1)) \subseteq Named(Hist(c, end))
  BY HistGrows
<1> QED
  BY <1>1, <1>2, <1>3 DEF Learned

(* Block 0 has no history.                                                        *)
LEMMA NoHistory ==
  ASSUME NEW c
  PROVE  Hist(c, 0 - 1) = {} /\ AuthOf(c, 0 - 1) = NewAuthorization
<1>1. 0..(0 - 1) = {}
  OBVIOUS
<1>2. Hist(c, 0 - 1) = {}
  BY <1>1 DEF Hist, LogsIn
<1> QED
  BY <1>2, AuthOfIs, AuthEmpty

(* The bootstrap starts at block 0.                                               *)
LEMMA BootAnchorOK == IInv /\ BootAnchor => IInv'
<1> SUFFICES ASSUME IInv, BootAnchor PROVE IInv'
  OBVIOUS
<1>1. /\ pc = "bootanchor" /\ pc' = "boot" /\ v' = v /\ blobReady' = blobReady
      /\ UNCHANGED chainVars /\ st' = st /\ back' = back /\ Start - 1 <= tip
      /\ boot' = [next |-> 0, anchor |-> HashAt(Start - 1), auth |-> NewAuthorization,
                  ready |-> FALSE]
  BY DEF BootAnchor, Goto
<1>2. pc \in Preparing /\ pc' \in Preparing /\ pc' \notin Working
  BY <1>1 DEF Preparing, Working, Reading, Backing, Closing
<1>3. ChainOK' /\ StateOK' /\ BackOK'
  BY <1>1, SameChain, StillFirm, KeepState, KeepBack DEF IInv
<1>4. /\ boot'.next = 0 /\ boot'.anchor = HashAt(Start - 1) /\ boot'.auth = NewAuthorization
      /\ boot'.ready = FALSE /\ DOMAIN boot' = {"next", "anchor", "auth", "ready"}
  BY <1>1
<1>5. boot' # NoBoot
  <2>1. NoBoot.next = Nil
    BY DEF NoBoot
  <2> QED
    BY <1>4, <2>1 DEF Nil
<1>6. st.height = Nil /\ Start > 0 /\ Start <= v.target /\ blobReady \in BOOLEAN
  BY <1>1, Zenon DEF IInv, LocalsOK
<1>7. Tracked(HashAt(Start - 1), Start - 1)
  <2>1. Start - 1 \in 0..tip
    BY <1>1, <1>6, AuthConfigAssumption DEF IInv, ChainOK, WellFormed, Shaped
  <2> QED
    BY <2>1, LiveTracked DEF IInv
<1>8. BootOK'
  <2>1. Tracked(boot'.anchor, Start - 1)
    BY <1>4, <1>7
  <2>2. Tracked(boot.anchor, Start - 1)'
    BY <1>1, <2>1, SameChain
  <2>3. AuthOf(boot.anchor, boot.next - 1)' = NewAuthorization
    <3>1. AuthOf(boot.anchor, boot.next - 1)' = AuthOf(boot'.anchor, boot'.next - 1)
      BY DEF AuthOf, LogsIn
    <3> QED
      BY <1>4, <3>1, NoHistory
  <2>4. boot'.ready = (boot'.next = Start) /\ 0 \in 0..Start
    <3>1. ~(0 = Start) /\ 0 \in 0..Start
      BY <1>6, AuthConfigAssumption
    <3> QED
      BY <1>4, <3>1, Zenon
  <2> QED
    BY <1>4, <1>6, <2>2, <2>3, <2>4 DEF BootOK
<1>9. LocalsOK'
  <2>1. /\ DOMAIN v = DOMAIN Fresh /\ v.target \in 0..MaxHeight /\ v.page = NewAuthorization
        /\ v = [Fresh EXCEPT !.target = v.target] /\ v.at \in 0..MaxHeight + 1
    BY <1>1, <1>2, Zenon DEF IInv, LocalsOK
  <2> QED
    BY <1>1, <1>2, <1>5, <1>6, <2>1, Zenon DEF LocalsOK, Working, Reading, Backing
<1>10. ScanOK' /\ CalmOK'
  BY <1>1 DEF ScanOK, HistoryOK, PageOK, BlockOK, Reading, Backing, CalmOK
<1> QED
  BY <1>3, <1>8, <1>9, <1>10 DEF IInv

(* A finished bootstrap opens the window; another reads its next page.            *)
LEMMA BootStepOK == IInv /\ Boot => IInv'
<1> SUFFICES ASSUME IInv, Boot PROVE IInv'
  OBVIOUS
<1>1. /\ pc = "boot" /\ UNCHANGED <<chainVars, st, memVars>> /\ blobReady' = blobReady
      /\ UNCHANGED chainVars /\ st' = st /\ boot' = boot
      /\ Confirms(Start - 1, boot.anchor)
  BY DEF Boot, memVars
<1>2. /\ st.height = Nil /\ Start > 0 /\ Start <= v.target /\ blobReady \in BOOLEAN
      /\ boot # NoBoot /\ v = [Fresh EXCEPT !.target = v.target] /\ v.target \in 0..MaxHeight
  <2>1. pc \in Idle \cup Preparing
    BY <1>1 DEF Preparing
  <2> QED
    BY <1>1, <2>1, Zenon DEF IInv, LocalsOK
<1>3. /\ boot.next \in 0..Start /\ boot.ready = (boot.next = Start)
      /\ Tracked(boot.anchor, Start - 1)
      /\ Live(boot.anchor, Start - 1) => boot.auth = AuthOf(boot.anchor, boot.next - 1)
  BY <1>2, Zenon DEF IInv, BootOK
<1>4. Live(boot.anchor, Start - 1)
  BY <1>1 DEF Confirms, AnchorHolds, Live
<1>5. LocalsOK' /\ ScanOK' /\ pc' # "halt"
  <2>1. CASE boot.next = Start
    <3>1. OpenWindow(boot.auth)
      BY <1>3, <2>1 DEF Boot
    <3>2. boot.auth = BaseAuth'
      <4>1. AuthOf(boot.anchor, Start - 1)' = AuthOf(boot.anchor, Start - 1)
        BY <1>1 DEF AuthOf, LogsIn
      <4> QED
        BY <1>1, <1>2, <1>3, <1>4, <2>1, <4>1 DEF BaseAuth
    <3>3. st.height # Nil => st.height + 1 <= v.target
      BY <1>2
    <3> QED
      BY <1>1, <1>2, <2>1, <3>1, <3>2, <3>3, OpenOK DEF IInv
  <2>2. CASE boot.next # Start
    <3> DEFINE end == PageEnd(boot.next, Start - 1)
    <3>1. /\ v' = [v EXCEPT !.boot = TRUE, !.auth = boot.auth, !.from = boot.next, !.end = end]
          /\ pc' = "changes"
      BY <1>3, <2>2 DEF Boot, Goto
    <3>2. boot.next \in Nat /\ boot.next <= Start - 1 /\ Start - 1 \in 0..MaxHeight
      BY <1>3, <2>2, AuthConfigAssumption DEF Tracked, WellFormed, Shaped
    <3>3. end \in boot.next..(Start - 1)
      BY <3>2, PageEndIn
    <3> HIDE DEF end
    <3>4. /\ DOMAIN v' = DOMAIN Fresh /\ v'.target = v.target /\ v'.page = NewAuthorization
          /\ v'.at = 0 /\ v'.subs = {} /\ v'.boot = TRUE /\ v'.auth = boot.auth
          /\ v'.from = boot.next /\ v'.end = end
      BY <1>2, <3>1, FreshFields
    <3>5. pc' \in Reading /\ pc' \in Working /\ pc' \notin Backing \cup Idle \cup Preparing
          /\ pc' \notin {"back", "backlogs", "backend", "boot", "bootanchor", "block", "anchor"}
      BY <3>1 DEF Reading, Working, Backing, Idle, Preparing
    <3>6. v'.from \in 0..MaxHeight /\ v'.end \in v'.from..MaxHeight /\ v'.end <= Start - 1
          /\ v'.at \in 0..MaxHeight + 1 /\ v'.target \in 0..MaxHeight
      BY <1>2, <3>2, <3>3, <3>4, AuthChainAssumption
    <3>7. RangeOK'
      BY <1>1, <1>2, <3>4, <3>5, <3>6, Zenon DEF RangeOK
    <3>8. LocalsOK'
      BY <1>1, <1>2, <3>4, <3>5, <3>6, <3>7, Zenon DEF LocalsOK
    <3>9. Learned(boot.auth, boot.anchor, boot.next, end)
      <4>1. WellFormed(boot.anchor, Start - 1) /\ end \in Nat /\ end <= Start - 1
            /\ boot.next <= end + 1
        BY <1>3, <3>2, <3>3 DEF Tracked
      <4> QED
        BY <1>3, <1>4, <3>2, <4>1, LearnedStart
    <3>10. Anchor' = boot.anchor
      BY <1>1, <3>4, Zenon DEF Anchor
    <3>11. HistoryOK'
      <4>2. Learned(v'.auth, Anchor', v'.from, v'.end)
        BY <3>4, <3>9, <3>10
      <4> QED
        BY <3>1, <4>2 DEF HistoryOK
    <3>12. ScanOK'
      BY <3>1, <3>11 DEF ScanOK, PageOK, BlockOK
    <3> QED
      BY <3>1, <3>8, <3>12
  <2> QED
    BY <2>1, <2>2
<1> QED
  BY <1>1, <1>5, QuietOK DEF IInv, CalmOK

(* A step within a window or page keeps what it hangs on.                         *)
Within ==
  /\ UNCHANGED chainVars /\ st' = st /\ boot' = boot /\ blobReady' = blobReady
  /\ pc \in Working \ {"anchor"} /\ pc' \in Working \ {"anchor"}
  /\ v.boot => pc' \in Reading \cup {"bootpage"}
  /\ ~v.boot => pc' # "bootpage"
  /\ DOMAIN v' = DOMAIN v /\ v'.target = v.target /\ v'.boot = v.boot
  /\ v'.from = v.from /\ v'.end = v.end /\ v'.anchor = v.anchor

(* What such a step keeps.                                                        *)
LEMMA WithinOK ==
  ASSUME IInv, Within
  PROVE  /\ ChainOK' /\ StateOK' /\ BootOK' /\ RangeOK' /\ CalmOK' /\ Firm
         /\ Anchor' = Anchor /\ Top' = Top
         /\ (Sound' <=> Sound) /\ (BaseLive' <=> BaseLive) /\ (BootLive' <=> BootLive)
<1>1. /\ UNCHANGED chainVars /\ st' = st /\ boot' = boot /\ epoch' = epoch
      /\ pc \in Working \ {"anchor"} /\ pc' \in Working \ {"anchor"}
  BY DEF Within, chainVars
<1>2. ChainOK' /\ StateOK' /\ BootOK' /\ Firm
  BY <1>1, SameChain, StillFirm, KeepState, KeepBoot DEF IInv
<1>3. pc' # "halt" /\ CalmOK'
  BY <1>1 DEF Working, Reading, Backing, Closing, CalmOK
<1>4. RangeOK
  BY <1>1 DEF IInv, LocalsOK
<1>5. Anchor' = Anchor /\ Top' = Top
  BY <1>1, Zenon DEF Within, Anchor, Top
<1>6. (BaseLive' <=> BaseLive) /\ (BootLive' <=> BootLive)
  BY <1>1, SameChain DEF BaseLive, BootLive
<1>7. Sound' <=> Sound
  BY <1>1, <1>5, <1>6, SameChain DEF Sound
<1>8. RangeOK'
  <2>1. Tracked(v.anchor, v.end)' <=> Tracked(v.anchor, v.end)
    <3>1. \A c, h : Tracked(c, h)' <=> Tracked(c, h)
      BY <1>1, SameChain
    <3>2. v'.anchor = v.anchor /\ v'.end = v.end
      BY DEF Within
    <3> QED
      BY <3>1, <3>2
  <2>2. pc # "anchor"
    BY <1>1
  <2> QED
    BY <1>1, <1>4, <2>1, <2>2, Zenon DEF RangeOK, Within
<1> QED
  BY <1>2, <1>3, <1>5, <1>6, <1>7, <1>8

(* The block that a window or page hangs on is accounted for, and not below it.   *)
LEMMA SoundAnchor ==
  ASSUME BootOK, RangeOK, pc # "anchor"
  PROVE  /\ Tracked(Anchor, Top) /\ v.end <= Top /\ Top \in 0..MaxHeight
         /\ v.from \in Nat /\ v.end \in Nat /\ v.from <= v.end
<1>1. v.from \in Nat /\ v.end \in Nat /\ v.from <= v.end /\ v.boot \in BOOLEAN
  <2>1. v.from \in 0..MaxHeight /\ v.end \in v.from..MaxHeight /\ v.boot \in BOOLEAN
    BY Zenon DEF RangeOK
  <2> QED
    BY <2>1, AuthChainAssumption
<1>2. CASE v.boot
  <2>1. boot # NoBoot /\ v.end <= Start - 1
    BY <1>2, Zenon DEF RangeOK
  <2>2. Anchor = boot.anchor /\ Top = Start - 1
    BY <1>2 DEF Anchor, Top
  <2>3. Tracked(boot.anchor, Start - 1)
    BY <2>1, Zenon DEF BootOK
  <2> QED
    BY <1>1, <2>1, <2>2, <2>3 DEF Tracked, WellFormed, Shaped
<1>3. CASE ~v.boot
  <2>1. Tracked(v.anchor, v.end)
    BY <1>3, Zenon DEF RangeOK
  <2>2. Anchor = v.anchor /\ Top = v.end
    BY <1>3 DEF Anchor, Top
  <2> QED
    BY <1>1, <2>1, <2>2 DEF Tracked, WellFormed, Shaped
<1> QED
  BY <1>1, <1>2, <1>3

(* Blocks of the chain give one authorisation.                                    *)
LEMMA LiveAuth ==
  ASSUME NEW c, NEW h, Tracked(c, h), Live(c, h), NEW d, NEW g, Tracked(d, g), Live(d, g),
         NEW n \in Int, n <= h, n <= g
  PROVE  AuthOf(c, n) = AuthOf(d, n)
BY LiveHist, AuthOfIs DEF Tracked

(* The window is anchored at its last block.                                      *)
LEMMA AnchorWindowOK == IInv /\ AnchorWindow => IInv'
<1> SUFFICES ASSUME IInv, AnchorWindow PROVE IInv'
  OBVIOUS
<1>1. /\ pc = "anchor" /\ UNCHANGED <<chainVars, st, memVars>> /\ blobReady' = blobReady
      /\ UNCHANGED chainVars /\ st' = st /\ boot' = boot /\ v.end <= tip /\ pc' = "changes"
      /\ v' = [v EXCEPT !.anchor = HashAt(v.end)]
  BY DEF AnchorWindow, memVars, Goto
<1>2. /\ RangeOK /\ DOMAIN v = DOMAIN Fresh /\ v.target \in 0..MaxHeight /\ v.subs = {}
      /\ v.page = NewAuthorization /\ v.at \in 0..MaxHeight + 1 /\ blobReady \in BOOLEAN
  <2>1. pc \in Working
    BY <1>1 DEF Working
  <2> QED
    BY <1>1, <2>1, Zenon DEF IInv, LocalsOK
<1>3. ~v.boot /\ v.boot \in BOOLEAN
  <2>1. pc \notin Reading \cup {"bootpage"}
    BY <1>1 DEF Reading, Backing
  <2> QED
    BY <1>2, <2>1, Zenon DEF RangeOK
<1>4. /\ v.from \in 0..MaxHeight /\ v.end \in v.from..MaxHeight
      /\ v.from = IF st.height # Nil THEN st.height + 1 ELSE Start
      /\ st.height = Nil /\ Start > 0 => boot # NoBoot /\ boot.next = Start
  BY <1>2, <1>3, Zenon DEF RangeOK
<1> DEFINE c == HashAt(v.end)
<1>5. Live(c, v.end) /\ Tracked(c, v.end)
  <2>1. v.end \in 0..tip
    BY <1>1, <1>4
  <2> QED
    BY <2>1, LiveTracked DEF IInv
<1> HIDE DEF c
<1>6. /\ DOMAIN v' = DOMAIN Fresh /\ v'.target = v.target /\ v'.page = NewAuthorization
      /\ v'.at = v.at /\ v'.subs = {} /\ v'.boot = v.boot /\ v'.auth = v.auth
      /\ v'.from = v.from /\ v'.end = v.end /\ v'.anchor = c
  BY <1>1, <1>2, FreshFields DEF c
<1>7. pc' \in Reading /\ pc' \in Working /\ pc' \notin Backing \cup Idle \cup Preparing
      /\ pc' \notin {"back", "backlogs", "backend", "boot", "bootanchor", "bootpage", "block", "anchor"}
  BY <1>1 DEF Reading, Working, Backing, Idle, Preparing
<1>8. Tracked(v.anchor, v.end)'
  BY <1>1, <1>5, <1>6, SameChain
<1>9. RangeOK'
  BY <1>1, <1>3, <1>4, <1>6, <1>7, <1>8, Zenon DEF RangeOK
<1>10. LocalsOK'
  BY <1>1, <1>2, <1>6, <1>7, <1>9, Zenon DEF LocalsOK
<1>11. ASSUME Sound' PROVE Learned(v.auth, c, v.from, v.end)
  <2>1. BaseLive
    BY <1>1, <1>11, SameChain DEF Sound, BaseLive, BootLive
  <2>2. v.auth = BaseAuth
    BY <1>1, <2>1 DEF IInv, ScanOK
  <2>3. v.auth = AuthOf(c, v.from - 1)
    <3>1. CASE st.height # Nil
      <4>1. Tracked(st.hash, st.height) /\ Live(st.hash, st.height) /\ st.height \in Nat
            /\ v.from - 1 = st.height /\ st.height <= v.end
        BY <1>4, <2>1, <3>1, AuthChainAssumption, AuthConfigAssumption DEF IInv, StateOK, BaseLive, Nil
      <4>2. AuthOf(c, st.height) = AuthOf(st.hash, st.height)
        BY <1>5, <4>1, LiveAuth
      <4> QED
        BY <2>2, <3>1, <4>1, <4>2 DEF BaseAuth
    <3>2. CASE st.height = Nil /\ Start = 0
      BY <1>4, <2>2, <3>2, NoHistory DEF BaseAuth
    <3>3. CASE st.height = Nil /\ Start # 0
      <4>1. Start > 0
        BY <3>3, AuthConfigAssumption
      <4>2. boot # NoBoot /\ Live(boot.anchor, Start - 1)
        BY <1>4, <2>1, <3>3, <4>1 DEF BaseLive, BootLive
      <4>3. Tracked(boot.anchor, Start - 1) /\ v.from - 1 = Start - 1 /\ Start - 1 <= v.end
            /\ Start - 1 \in Int
        BY <1>4, <3>3, <4>2, AuthConfigAssumption DEF IInv, BootOK
      <4>4. AuthOf(c, Start - 1) = AuthOf(boot.anchor, Start - 1)
        BY <1>5, <4>2, <4>3, LiveAuth
      <4> QED
        BY <2>2, <3>3, <4>3, <4>4 DEF BaseAuth
    <3> QED
      BY <3>1, <3>2, <3>3
  <2>4. WellFormed(c, v.end) /\ v.from \in Nat /\ v.end \in Nat /\ v.from <= v.end + 1
        /\ v.end <= v.end
    BY <1>4, <1>5 DEF Tracked
  <2> QED
    BY <2>3, <2>4, LearnedStart
<1>12. Anchor' = c
  BY <1>3, <1>6, Zenon DEF Anchor
<1>13. ScanOK'
  <2>1. Sound' => Learned(v'.auth, Anchor', v'.from, v'.end)
    BY <1>6, <1>11, <1>12
  <2>2. HistoryOK'
    BY <1>1, <2>1 DEF HistoryOK
  <2> QED
    BY <1>1, <2>2 DEF ScanOK, PageOK, BlockOK
<1> QED
  BY <1>1, <1>10, <1>13, QuietOK DEF IInv, CalmOK

(* The manager changes of the window or page are read.                            *)
LEMMA ReadChangesOK == IInv /\ ReadChanges => IInv'
<1> SUFFICES ASSUME IInv, ReadChanges PROVE IInv'
  OBVIOUS
<1>1. /\ pc = "changes" /\ UNCHANGED <<chainVars, st, memVars>> /\ blobReady' = blobReady
      /\ UNCHANGED chainVars /\ st' = st /\ boot' = boot /\ back' = back /\ pc' = "managers"
      /\ v' = [v EXCEPT !.logs = Names(LogsIn(chain, v.from, v.end))]
  BY DEF ReadChanges, memVars, Goto
<1>2. /\ RangeOK /\ DOMAIN v = DOMAIN Fresh /\ v.target \in 0..MaxHeight /\ v.subs = {}
      /\ v.page = NewAuthorization /\ v.at \in 0..MaxHeight + 1 /\ blobReady \in BOOLEAN
  <2>1. pc \in Working /\ pc \in Reading
    BY <1>1 DEF Working, Reading
  <2> QED
    BY <1>1, <2>1, Zenon DEF IInv, LocalsOK
<1>3. /\ DOMAIN v' = DOMAIN Fresh /\ v'.target = v.target /\ v'.page = NewAuthorization
      /\ v'.at = v.at /\ v'.subs = {} /\ v'.boot = v.boot /\ v'.auth = v.auth
      /\ v'.from = v.from /\ v'.end = v.end /\ v'.anchor = v.anchor
      /\ v'.logs = Names(LogsIn(chain, v.from, v.end))
  BY <1>1, <1>2, FreshFields
<1>4. /\ pc \in Working \ {"anchor"} /\ pc' \in Working \ {"anchor"} /\ pc' \in Reading
      /\ pc' \notin Backing \cup Idle \cup Preparing
      /\ pc' \notin {"back", "backlogs", "backend", "boot", "bootanchor", "bootpage", "block", "anchor"}
  BY <1>1 DEF Reading, Working, Backing, Idle, Preparing
<1>5. Within
  BY <1>1, <1>2, <1>3, <1>4, Zenon DEF Within
<1>6. LocalsOK'
  BY <1>1, <1>2, <1>3, <1>4, <1>5, WithinOK, Zenon DEF LocalsOK
<1>7. ASSUME Sound PROVE LogsIn(chain, v.from, v.end) = LogsIn(Anchor, v.from, v.end)
  <2>1. Tracked(Anchor, Top) /\ v.end <= Top /\ v.from \in Nat /\ v.end \in Int
    BY <1>1, <1>2, SoundAnchor DEF IInv
  <2> QED
    BY <1>7, <2>1, LiveLogs DEF IInv, Sound, Tracked
<1>8. HistoryOK'
  <2>1. pc \in Reading
    BY <1>1 DEF Reading
  <2>2. ASSUME Sound' PROVE Learned(v'.auth, Anchor', v'.from, v'.end)
                              /\ v'.logs = Names(LogsIn(Anchor', v'.from, v'.end))
    BY <1>3, <1>5, <1>7, <2>1, <2>2, WithinOK DEF IInv, ScanOK, HistoryOK
  <2> QED
    BY <2>2 DEF HistoryOK
<1>9. ScanOK'
  BY <1>1, <1>8 DEF ScanOK, PageOK, BlockOK
<1> QED
  BY <1>1, <1>5, <1>6, <1>9, WithinOK, QuietOK DEF IInv

(* The schedule of a manager that the window names joins what is known.           *)
LEMMA LearnedMore ==
  ASSUME NEW c, NEW h, WellFormed(c, h), NEW from \in Nat, NEW end \in Nat, from <= end, end <= h,
         NEW a, Learned(a, c, from, end), NEW m \in Named(LogsIn(c, from, end)),
         NEW b, b.manager = a.manager, b.known = a.known \cup {m},
         b.table = a.table \cup Schedule(Hist(c, from - 1), m).table,
         b = [manager |-> b.manager, known |-> b.known, table |-> b.table]
  PROVE  Learned(b, c, from, end)
<1> DEFINE L == Hist(c, from - 1)
           K == a.known
<1>1. a = AuthFrom(L, K) /\ Named(L) \subseteq K /\ K \subseteq Named(Hist(c, end))
  BY DEF Learned
<1>2. Proper(L)
  <2>1. Shaped(c, h) /\ 0 \in Nat /\ from - 1 \in Int
    BY DEF WellFormed
  <2> QED
    BY <2>1, LogsProper DEF Hist
<1>3. m \in Named(Hist(c, end))
  BY HistGrows
<1> HIDE DEF L, K
<1>4. /\ b.table = AuthFrom(L, K \cup {m}).table /\ b.manager = AuthFrom(L, K \cup {m}).manager
      /\ b.known = K \cup {m}
  BY <1>1, <1>2, ScheduleJoins DEF L, K
<1>5. b = AuthFrom(L, K \cup {m})
  BY <1>4 DEF AuthFrom
<1> QED
  BY <1>1, <1>3, <1>4, <1>5 DEF Learned, L

(* What a Step knows when it turns to a manager.                                  *)
LEMMA ManagerKnown ==
  ASSUME IInv, Sound, pc \in Reading, pc # "changes",
         NEW m, m # NoAddr, m \in {l.manager : l \in v.logs}
  PROVE  /\ Tracked(Anchor, Top) /\ Live(Anchor, Top) /\ WellFormed(Anchor, Top) /\ v.end <= Top
         /\ v.from \in Nat /\ v.end \in Nat /\ v.from <= v.end
         /\ Learned(v.auth, Anchor, v.from, v.end)
         /\ m \in Named(LogsIn(Anchor, v.from, v.end))
<1>1. pc \in Working /\ pc # "anchor"
  BY DEF Working, Reading, Backing
<1>2. RangeOK /\ BootOK
  BY <1>1 DEF IInv, LocalsOK
<1>3. Learned(v.auth, Anchor, v.from, v.end) /\ v.logs = Names(LogsIn(Anchor, v.from, v.end))
  BY DEF IInv, ScanOK, HistoryOK
<1> QED
  BY <1>1, <1>2, <1>3, SoundAnchor DEF Named, Sound, Tracked

(* A manager that was never seen: its history is read, unless there is none.      *)
LEMMA NextManagerOK == IInv /\ NextManager => IInv'
<1> SUFFICES ASSUME IInv, NextManager PROVE IInv'
  OBVIOUS
<1>1. /\ pc = "managers" /\ UNCHANGED <<chainVars, st, memVars>> /\ blobReady' = blobReady
      /\ UNCHANGED chainVars /\ st' = st /\ boot' = boot /\ back' = back
  BY DEF NextManager, memVars
<1>2. PICK m \in Unknown :
        IF v.from = 0
          THEN v' = [v EXCEPT !.auth.known = @ \cup {m}] /\ Goto("managers")
          ELSE /\ v' = [v EXCEPT !.m = m]
               /\ Goto(IF Progress(m) = {} THEN "backanchor" ELSE "back")
  BY DEF NextManager
<1>3. m # NoAddr /\ m \in {l.manager : l \in v.logs}
  BY DEF Unknown
<1>4. /\ RangeOK /\ DOMAIN v = DOMAIN Fresh /\ v.target \in 0..MaxHeight /\ v.subs = {}
      /\ v.page = NewAuthorization /\ v.at \in 0..MaxHeight + 1 /\ blobReady \in BOOLEAN
  <2>1. pc \in Working /\ pc \in Reading
    BY <1>1 DEF Working, Reading
  <2> QED
    BY <1>1, <2>1, Zenon DEF IInv, LocalsOK
<1>5. pc \in Working \ {"anchor"} /\ pc \in Reading /\ pc # "changes"
  BY <1>1 DEF Reading, Working
<1>6. v.from \in Nat
  BY <1>4, AuthChainAssumption DEF RangeOK
<1>7. CASE v.from = 0
  <2>1. v' = [v EXCEPT !.auth.known = @ \cup {m}] /\ pc' = "managers"
    BY <1>2, <1>7 DEF Goto
  <2>2. /\ DOMAIN v' = DOMAIN Fresh /\ v'.target = v.target /\ v'.page = NewAuthorization
        /\ v'.at = v.at /\ v'.subs = {} /\ v'.boot = v.boot
        /\ v'.from = v.from /\ v'.end = v.end /\ v'.anchor = v.anchor /\ v'.logs = v.logs
        /\ v'.auth = [v.auth EXCEPT !.known = @ \cup {m}]
    BY <1>4, <2>1, FreshFields
  <2>3. /\ pc' \in Working \ {"anchor"} /\ pc' \in Reading
        /\ pc' \notin Backing \cup Idle \cup Preparing
        /\ pc' \notin {"back", "backlogs", "backend", "boot", "bootanchor", "bootpage", "block", "anchor"}
    BY <2>1 DEF Reading, Working, Backing, Idle, Preparing
  <2>4. Within
    BY <1>1, <1>4, <1>5, <2>2, <2>3, Zenon DEF Within
  <2>5. LocalsOK'
    BY <1>1, <1>4, <2>2, <2>3, <2>4, WithinOK, Zenon DEF LocalsOK
  <2>6. ASSUME Sound PROVE Learned(v'.auth, Anchor, v.from, v.end)
    <3>1. /\ WellFormed(Anchor, Top) /\ v.end <= Top /\ v.end \in Nat /\ v.from <= v.end
          /\ Learned(v.auth, Anchor, v.from, v.end)
          /\ m \in Named(LogsIn(Anchor, v.from, v.end))
      BY <1>3, <1>5, <2>6, ManagerKnown
    <3>2. Hist(Anchor, v.from - 1) = {}
      BY <1>7, NoHistory
    <3>3. Schedule({}, m).table = {}
      BY AuthEmpty DEF NewAuthorization
    <3>4. v.auth = AuthFrom({}, v.auth.known)
      BY <3>1, <3>2 DEF Learned
    <3>5. DOMAIN v.auth = {"manager", "known", "table"}
      BY <3>4 DEF AuthFrom
    <3> DEFINE b == v'.auth
    <3>6. /\ b.manager = v.auth.manager /\ b.known = v.auth.known \cup {m} /\ b.table = v.auth.table
          /\ b = [manager |-> b.manager, known |-> b.known, table |-> b.table]
      <4>1. DOMAIN b = {"manager", "known", "table"}
        BY <2>2, <3>5
      <4>2. v.auth = [manager |-> v.auth.manager, known |-> v.auth.known, table |-> v.auth.table]
        BY <3>4 DEF AuthFrom
      <4> QED
        BY <2>2, <4>2
    <3>7. b.table = v.auth.table \cup Schedule(Hist(Anchor, v.from - 1), m).table
      BY <3>2, <3>3, <3>6
    <3> HIDE DEF b
    <3>8. Learned(b, Anchor, v.from, v.end)
      BY <1>6, <3>1, <3>6, <3>7, LearnedMore
    <3> QED
      BY <3>8 DEF b
  <2>7. HistoryOK'
    <3>1. ASSUME Sound' PROVE Learned(v'.auth, Anchor', v'.from, v'.end)
                                /\ v'.logs = Names(LogsIn(Anchor', v'.from, v'.end))
      <4>1. Sound /\ Anchor' = Anchor
        BY <2>4, <3>1, WithinOK
      <4>2. v.logs = Names(LogsIn(Anchor, v.from, v.end))
        BY <1>5, <4>1 DEF IInv, ScanOK, HistoryOK
      <4> QED
        BY <2>2, <2>6, <4>1, <4>2
    <3> QED
      BY <3>1 DEF HistoryOK
  <2>8. ScanOK'
    BY <2>1, <2>7 DEF ScanOK, PageOK, BlockOK
  <2> QED
    BY <1>1, <2>4, <2>5, <2>8, WithinOK, QuietOK DEF IInv
<1>8. CASE v.from # 0
  <2>1. v' = [v EXCEPT !.m = m] /\ pc' = IF Progress(m) = {} THEN "backanchor" ELSE "back"
    BY <1>2, <1>8 DEF Goto
  <2>2. /\ DOMAIN v' = DOMAIN Fresh /\ v'.target = v.target /\ v'.page = NewAuthorization
        /\ v'.at = v.at /\ v'.subs = {} /\ v'.boot = v.boot
        /\ v'.from = v.from /\ v'.end = v.end /\ v'.anchor = v.anchor /\ v'.logs = v.logs
        /\ v'.auth = v.auth /\ v'.m = m
    BY <1>4, <2>1, FreshFields
  <2>3. /\ pc' \in Working \ {"anchor"} /\ pc' \in Reading /\ pc' \in {"backanchor", "back"}
        /\ pc' \notin Idle \cup Preparing
        /\ pc' \notin {"backlogs", "backend", "boot", "bootanchor", "bootpage", "block", "anchor"}
    BY <2>1 DEF Reading, Working, Backing, Idle, Preparing
  <2>4. Within
    BY <1>1, <1>4, <1>5, <2>2, <2>3, Zenon DEF Within
  <2>5. pc' = "back" => (Progress(v.m))' # {}
    <3>1. (Progress(v.m))' = Progress(m)
      BY <1>1, <2>2 DEF Progress
    <3> QED
      BY <2>1, <3>1
  <2>6. v'.from > 0
    BY <1>6, <1>8, <2>2
  <2>7. LocalsOK'
    BY <1>1, <1>3, <1>4, <2>2, <2>3, <2>4, <2>5, <2>6, WithinOK, Zenon DEF LocalsOK
  <2>8. HistoryOK'
    <3>1. ASSUME Sound' PROVE Learned(v'.auth, Anchor', v'.from, v'.end)
                                /\ v'.logs = Names(LogsIn(Anchor', v'.from, v'.end))
      BY <1>5, <2>2, <2>4, <3>1, WithinOK DEF IInv, ScanOK, HistoryOK
    <3> QED
      BY <3>1 DEF HistoryOK
  <2>9. ScanOK'
    BY <2>3, <2>8 DEF ScanOK, PageOK, BlockOK
  <2> QED
    BY <1>1, <2>4, <2>7, <2>9, WithinOK, QuietOK DEF IInv
<1> QED
  BY <1>7, <1>8

(* What holds of the locals while the worker is in backfillManager.               *)
LEMMA BackingLocals ==
  ASSUME IInv, pc \in Backing
  PROVE  /\ RangeOK /\ DOMAIN v = DOMAIN Fresh /\ v.target \in 0..MaxHeight /\ v.subs = {}
         /\ v.at \in 0..MaxHeight + 1 /\ blobReady \in BOOLEAN
         /\ v.from > 0 /\ v.from \in 1..MaxHeight /\ v.m # NoAddr
         /\ v.m \in {l.manager : l \in v.logs}
         /\ pc \in Working \ {"anchor"} /\ pc \in Reading /\ pc # "changes"
<1>1. pc \in Working \ {"anchor"} /\ pc \in Reading /\ pc # "changes"
  BY DEF Backing, Working, Reading
<1>2. /\ RangeOK /\ DOMAIN v = DOMAIN Fresh /\ v.target \in 0..MaxHeight /\ v.subs = {}
      /\ v.at \in 0..MaxHeight + 1 /\ blobReady \in BOOLEAN
      /\ v.from > 0 /\ v.m # NoAddr /\ v.m \in {l.manager : l \in v.logs}
  BY <1>1, Zenon DEF IInv, LocalsOK
<1>3. v.from \in 1..MaxHeight
  BY <1>2, AuthChainAssumption DEF RangeOK
<1> QED
  BY <1>1, <1>2, <1>3

(* The window's own locals are left alone.                                        *)
Aside ==
  /\ DOMAIN v' = DOMAIN v /\ v'.target = v.target
  /\ v'.at = v.at /\ v'.subs = v.subs /\ v'.boot = v.boot
  /\ v'.from = v.from /\ v'.end = v.end /\ v'.anchor = v.anchor /\ v'.logs = v.logs
  /\ v'.auth = v.auth /\ v'.m = v.m

(* A step of backfillManager that leaves them alone.                              *)
LEMMA BackingOK ==
  ASSUME IInv, pc \in Backing, pc' \in Backing, UNCHANGED chainVars, st' = st, boot' = boot,
         blobReady' = blobReady, Aside, pc' # "backend" => v'.page = NewAuthorization,
         pc' \in {"back", "backlogs", "backend"} => (Progress(v.m))' # {},
         pc' \in {"backlogs", "backend"} => \A b \in (Progress(v.m))' : b.next < b.before
  PROVE  Within /\ LocalsOK' /\ HistoryOK'
<1>1. /\ RangeOK /\ DOMAIN v = DOMAIN Fresh /\ v.target \in 0..MaxHeight /\ v.subs = {}
      /\ v.at \in 0..MaxHeight + 1 /\ blobReady \in BOOLEAN
      /\ v.from > 0 /\ v.m # NoAddr /\ v.m \in {l.manager : l \in v.logs}
      /\ pc \in Working \ {"anchor"} /\ pc \in Reading /\ pc # "changes"
  BY BackingLocals
<1>2. /\ DOMAIN v' = DOMAIN Fresh /\ v'.target = v.target
      /\ v'.at = v.at /\ v'.subs = {} /\ v'.boot = v.boot
      /\ v'.from = v.from /\ v'.end = v.end /\ v'.anchor = v.anchor /\ v'.logs = v.logs
      /\ v'.auth = v.auth /\ v'.m = v.m
  BY <1>1 DEF Aside
<1>3. /\ pc' \in Working \ {"anchor"} /\ pc' \in Reading /\ pc' \notin Idle \cup Preparing
      /\ pc' \notin {"boot", "bootanchor", "bootpage", "block", "anchor", "changes"}
  BY DEF Reading, Working, Backing, Idle, Preparing
<1>4. Within
  BY <1>1, <1>2, <1>3, Zenon DEF Within
<1>5. LocalsOK'
  BY <1>1, <1>2, <1>3, <1>4, WithinOK, Zenon DEF LocalsOK
<1>6. HistoryOK'
  <2>1. ASSUME Sound' PROVE Learned(v'.auth, Anchor', v'.from, v'.end)
                              /\ v'.logs = Names(LogsIn(Anchor', v'.from, v'.end))
    BY <1>1, <1>2, <1>4, <2>1, WithinOK DEF IInv, ScanOK, HistoryOK
  <2> QED
    BY <2>1 DEF HistoryOK
<1> QED
  BY <1>4, <1>5, <1>6

(* A backfill starts, anchored at the block before the window.                    *)
LEMMA BackAnchorOK == IInv /\ BackAnchor => IInv'
<1> SUFFICES ASSUME IInv, BackAnchor PROVE IInv'
  OBVIOUS
<1> DEFINE n == [m |-> v.m, before |-> v.from, next |-> 0, anchor |-> HashAt(v.from - 1),
                 auth |-> [NewAuthorization EXCEPT !.known = {v.m}]]
<1>1. /\ pc = "backanchor" /\ UNCHANGED chainVars /\ st' = st /\ boot' = boot /\ v' = v
      /\ blobReady' = blobReady /\ pc' = "back" /\ v.from - 1 <= tip
      /\ back' = {b \in back : b.m # v.m} \cup {n}
  BY DEF BackAnchor, Goto
<1>2. pc \in Backing /\ pc' \in Backing
  BY <1>1 DEF Backing
<1>3. v.from \in 1..MaxHeight /\ v.m # NoAddr /\ DOMAIN v = DOMAIN Fresh
  BY <1>2, BackingLocals
<1>4. Tracked(HashAt(v.from - 1), v.from - 1)
  <2>1. v.from - 1 \in 0..tip
    BY <1>1, <1>3
  <2> QED
    BY <2>1, LiveTracked DEF IInv
<1>5. /\ n.m = v.m /\ n.before = v.from /\ n.next = 0 /\ n.anchor = HashAt(v.from - 1)
      /\ n.auth = Schedule(Hist(n.anchor, n.next - 1), v.m)
      /\ DOMAIN n = {"m", "before", "next", "anchor", "auth"}
  BY NoHistory, AuthEmpty
<1> HIDE DEF n
<1>6. BackOK'
  <2>1. ASSUME NEW b \in back'
        PROVE  /\ DOMAIN b = {"m", "before", "next", "anchor", "auth"}
               /\ b.m # NoAddr
               /\ b.before \in 1..MaxHeight
               /\ b.next \in 0..b.before
               /\ Tracked(b.anchor, b.before - 1)
               /\ Live(b.anchor, b.before - 1) => b.auth = Schedule(Hist(b.anchor, b.next - 1), b.m)
    <3>1. CASE b = n
      BY <1>3, <1>4, <1>5, <3>1
    <3>2. CASE b \in back
      BY <3>2 DEF IInv, BackOK
    <3> QED
      BY <1>1, <3>1, <3>2
  <2>2. \A b, d \in back' : b.m = d.m => b = d
    BY <1>1, <1>5 DEF IInv, BackOK
  <2>3. \A c, h : (Tracked(c, h)' <=> Tracked(c, h)) /\ (Live(c, h)' <=> Live(c, h))
    BY <1>1, SameChain
  <2> QED
    BY <2>1, <2>2, <2>3 DEF BackOK
<1>7. Within /\ LocalsOK' /\ HistoryOK'
  <2>1. v.page = NewAuthorization
    BY <1>1 DEF IInv, LocalsOK
  <2>2. n \in (Progress(v.m))'
    BY <1>1, <1>5 DEF Progress
  <2> QED
    BY <1>1, <1>2, <2>1, <2>2, BackingOK DEF Aside
<1>8. ScanOK'
  BY <1>1, <1>7 DEF ScanOK, PageOK, BlockOK
<1> QED
  BY <1>6, <1>7, <1>8, WithinOK DEF IInv

(* A finished backfill joins the authorisation of the window.                     *)
LEMMA BackfilledOK ==
  ASSUME IInv, pc \in {"back", "backend"}, UNCHANGED chainVars, st' = st, boot' = boot,
         blobReady' = blobReady, NEW b, Backfilled(b),
         Tracked(b.anchor, v.from - 1), Live(b.anchor, v.from - 1),
         b.auth = Schedule(Hist(b.anchor, v.from - 1), v.m)
  PROVE  Within /\ LocalsOK' /\ ScanOK'
<1>1. /\ RangeOK /\ DOMAIN v = DOMAIN Fresh /\ v.target \in 0..MaxHeight /\ v.subs = {}
      /\ v.at \in 0..MaxHeight + 1 /\ blobReady \in BOOLEAN
      /\ v.from \in 1..MaxHeight /\ v.m # NoAddr /\ v.m \in {l.manager : l \in v.logs}
      /\ pc \in Working \ {"anchor"} /\ pc \in Reading /\ pc # "changes"
  BY BackingLocals DEF Backing
<1>2. /\ v' = [v EXCEPT !.auth.known = @ \cup b.auth.known,
                        !.auth.table = @ \cup b.auth.table,
                        !.m = NoAddr, !.page = NewAuthorization]
      /\ pc' = "managers"
  BY DEF Backfilled, Goto
<1>3. /\ DOMAIN v' = DOMAIN Fresh /\ v'.target = v.target /\ v'.page = NewAuthorization
      /\ v'.at = v.at /\ v'.subs = {} /\ v'.boot = v.boot
      /\ v'.from = v.from /\ v'.end = v.end /\ v'.anchor = v.anchor /\ v'.logs = v.logs
      /\ v'.auth = [[v.auth EXCEPT !.known = @ \cup b.auth.known]
                      EXCEPT !.table = @ \cup b.auth.table]
  BY <1>1, <1>2, FreshFields
<1>4. /\ pc' \in Working \ {"anchor"} /\ pc' \in Reading
      /\ pc' \notin Backing \cup Idle \cup Preparing
      /\ pc' \notin {"back", "backlogs", "backend", "boot", "bootanchor", "bootpage", "block", "anchor"}
  BY <1>2 DEF Reading, Working, Backing, Idle, Preparing
<1>5. Within
  BY <1>1, <1>3, <1>4, Zenon DEF Within
<1>6. LocalsOK'
  BY <1>1, <1>3, <1>4, <1>5, WithinOK, Zenon DEF LocalsOK
<1>7. ASSUME Sound PROVE Learned(v'.auth, Anchor, v.from, v.end)
  <2>1. /\ WellFormed(Anchor, Top) /\ Live(Anchor, Top) /\ v.end <= Top /\ v.from \in Nat
        /\ v.end \in Nat /\ v.from <= v.end
        /\ Learned(v.auth, Anchor, v.from, v.end)
        /\ v.m \in Named(LogsIn(Anchor, v.from, v.end))
    BY <1>1, <1>7, ManagerKnown
  <2>2. Hist(Anchor, v.from - 1) = Hist(b.anchor, v.from - 1)
    <3>1. WellFormed(b.anchor, v.from - 1) /\ v.from - 1 \in Int /\ v.from - 1 <= Top
      BY <1>1, <2>1, SoundAnchor DEF Tracked, IInv
    <3> QED
      BY <2>1, <3>1, LiveHist
  <2>3. v.auth = AuthFrom(Hist(Anchor, v.from - 1), v.auth.known)
    BY <2>1 DEF Learned
  <2>4. v.auth = [manager |-> v.auth.manager, known |-> v.auth.known, table |-> v.auth.table]
    BY <2>3 DEF AuthFrom
  <2>5. b.auth.known = {v.m} /\ b.auth.table = Schedule(Hist(Anchor, v.from - 1), v.m).table
    BY <2>2 DEF Schedule
  <2> DEFINE a == v'.auth
  <2>6. /\ a.manager = v.auth.manager /\ a.known = v.auth.known \cup {v.m}
        /\ a.table = v.auth.table \cup Schedule(Hist(Anchor, v.from - 1), v.m).table
        /\ a = [manager |-> a.manager, known |-> a.known, table |-> a.table]
    <3>1. a = [manager |-> v.auth.manager, known |-> v.auth.known \cup b.auth.known,
               table |-> v.auth.table \cup b.auth.table]
      BY <1>3, <2>4
    <3> QED
      BY <2>5, <3>1
  <2> HIDE DEF a
  <2>7. Learned(a, Anchor, v.from, v.end)
    BY <2>1, <2>6, LearnedMore
  <2> QED
    BY <2>7 DEF a
<1>8. HistoryOK'
  <2>1. ASSUME Sound' PROVE Learned(v'.auth, Anchor', v'.from, v'.end)
                              /\ v'.logs = Names(LogsIn(Anchor', v'.from, v'.end))
    <3>1. Sound /\ Anchor' = Anchor
      BY <1>5, <2>1, WithinOK
    <3>2. v.logs = Names(LogsIn(Anchor, v.from, v.end))
      BY <1>1, <3>1 DEF IInv, ScanOK, HistoryOK
    <3> QED
      BY <1>3, <1>7, <3>1, <3>2
  <2> QED
    BY <2>1 DEF HistoryOK
<1>9. ScanOK'
  BY <1>2, <1>8 DEF ScanOK, PageOK, BlockOK
<1> QED
  BY <1>5, <1>6, <1>9

(* The progress of a manager's backfill is one, and it stands as its anchor does. *)
LEMMA ProgressIs ==
  ASSUME IInv, NEW b \in Progress(v.m)
  PROVE  /\ b \in back /\ b.m = v.m /\ b.before = v.from /\ b.before \in 1..MaxHeight
         /\ b.next \in 0..b.before /\ b.m # NoAddr
         /\ DOMAIN b = {"m", "before", "next", "anchor", "auth"}
         /\ Tracked(b.anchor, b.before - 1) /\ WellFormed(b.anchor, b.before - 1)
         /\ Live(b.anchor, b.before - 1) => b.auth = Schedule(Hist(b.anchor, b.next - 1), b.m)
         /\ \A d \in Progress(v.m) : d = b
BY DEF Progress, IInv, BackOK, Tracked

(* A backfill goes on, or is complete.                                            *)
LEMMA BackStepOK == IInv /\ Back => IInv'
<1> SUFFICES ASSUME IInv, Back PROVE IInv'
  OBVIOUS
<1>1. /\ pc = "back" /\ UNCHANGED chainVars /\ st' = st /\ boot' = boot /\ back' = back
      /\ UNCHANGED <<chainVars, st, memVars>> /\ blobReady' = blobReady
  BY DEF Back, memVars
<1>2. PICK b \in Progress(v.m) :
        /\ Confirms(b.before - 1, b.anchor)
        /\ IF b.next < b.before THEN Goto("backlogs") /\ v' = v ELSE Backfilled(b)
  BY DEF Back
<1>3. Live(b.anchor, b.before - 1)
  BY <1>2 DEF Confirms, AnchorHolds, Live
<1>4. /\ b.before = v.from /\ b.next \in 0..b.before /\ b.before \in Nat /\ b.m = v.m
      /\ Tracked(b.anchor, b.before - 1) /\ b.auth = Schedule(Hist(b.anchor, b.next - 1), b.m)
      /\ \A d \in Progress(v.m) : d = b
  BY <1>3, ProgressIs, AuthChainAssumption
<1>5. CASE b.next < b.before
  <2>1. pc' = "backlogs" /\ v' = v
    BY <1>2, <1>5 DEF Goto
  <2>2. (Progress(v.m))' = Progress(v.m)
    BY <1>1, <2>1 DEF Progress
  <2>3. v.page = NewAuthorization
    BY <1>1 DEF IInv, LocalsOK
  <2>4. Within /\ LocalsOK' /\ HistoryOK'
    BY <1>1, <1>4, <1>5, <2>1, <2>2, <2>3, BackingOK DEF Backing, Aside
  <2>5. ScanOK'
    BY <2>1, <2>4 DEF ScanOK, PageOK, BlockOK
  <2> QED
    BY <1>1, <2>4, <2>5, WithinOK, QuietOK DEF IInv
<1>6. CASE ~(b.next < b.before)
  <2>1. Backfilled(b) /\ b.next = v.from
    BY <1>2, <1>4, <1>6
  <2>2. Within /\ LocalsOK' /\ ScanOK'
    BY <1>1, <1>3, <1>4, <2>1, BackfilledOK
  <2> QED
    BY <1>1, <2>2, WithinOK, QuietOK DEF IInv
<1> QED
  BY <1>5, <1>6

(* A page of a manager's history is read.                                         *)
LEMMA ReadBackOK == IInv /\ ReadBack => IInv'
<1> SUFFICES ASSUME IInv, ReadBack PROVE IInv'
  OBVIOUS
<1>1. /\ pc = "backlogs" /\ UNCHANGED chainVars /\ st' = st /\ boot' = boot /\ back' = back
      /\ UNCHANGED <<chainVars, st, memVars>> /\ blobReady' = blobReady /\ pc' = "backend"
  BY DEF ReadBack, memVars, Goto
<1>2. PICK b \in Progress(v.m) :
        v' = [v EXCEPT !.page =
                Apply(b.auth, Grants(LogsIn(chain, b.next, PageEnd(b.next, b.before - 1)), {b.m}))]
  BY DEF ReadBack
<1> DEFINE end == PageEnd(b.next, b.before - 1)
           p == Apply(b.auth, Grants(LogsIn(chain, b.next, end), {b.m}))
<1>3. /\ b.before = v.from /\ b.next \in 0..b.before /\ b.before \in 1..MaxHeight /\ b.m = v.m
      /\ WellFormed(b.anchor, b.before - 1)
      /\ Live(b.anchor, b.before - 1) => b.auth = Schedule(Hist(b.anchor, b.next - 1), b.m)
      /\ \A d \in Progress(v.m) : d = b
  BY ProgressIs
<1>4. pc \in Backing /\ pc' \in Backing /\ b.next < b.before
  BY <1>1 DEF IInv, LocalsOK, Backing
<1>5. b.next \in Nat /\ b.before - 1 \in Nat /\ end \in b.next..(b.before - 1)
  <2>1. b.next \in Nat /\ b.before - 1 \in Nat /\ b.next <= b.before - 1
    BY <1>3, <1>4, AuthChainAssumption
  <2> QED
    BY <2>1, PageEndIn
<1>6. v' = [v EXCEPT !.page = p]
  BY <1>2
<1>7. ASSUME Live(b.anchor, b.before - 1) PROVE p = Schedule(Hist(b.anchor, end), b.m)
  <2> HIDE DEF end
  <2>1. end \in Nat /\ end <= b.before - 1 /\ b.next <= end + 1
    BY <1>5
  <2>2. LogsIn(chain, b.next, end) = LogsIn(b.anchor, b.next, end)
    BY <1>3, <1>5, <1>7, <2>1, LiveLogs DEF IInv
  <2>3. Apply(Schedule(Hist(b.anchor, b.next - 1), b.m), Grants(LogsIn(b.anchor, b.next, end), {b.m}))
          = Schedule(Hist(b.anchor, end), b.m)
    BY <1>3, <1>5, <2>1, WindowApplies
  <2> QED
    BY <1>3, <1>7, <2>2, <2>3
<1> HIDE DEF p
<1>8. DOMAIN v = DOMAIN Fresh
  BY <1>4, BackingLocals
<1>9. v'.m = v.m /\ v'.from = v.from /\ v'.page = p
  BY <1>6, <1>8, FreshFields
<1>10. (Progress(v.m))' = Progress(v.m)
  BY <1>1, <1>9 DEF Progress
<1>11. Within /\ LocalsOK' /\ HistoryOK'
  <2>1. (Progress(v.m))' # {} /\ \A x \in (Progress(v.m))' : x.next < x.before
    BY <1>3, <1>4, <1>10
  <2>2. pc' = "backend"
    BY <1>1
  <2>3. Aside
    BY <1>6, <1>8, FreshFields DEF Aside
  <2> QED
    BY <1>1, <1>4, <2>1, <2>2, <2>3, BackingOK
<1>12. PageOK'
  <2>1. Live(b.anchor, b.before - 1)' <=> Live(b.anchor, b.before - 1)
    BY <1>1, SameChain
  <2>2. \A d \in (Progress(v.m))' : d = b
    BY <1>3, <1>10
  <2>3. Live(b.anchor, b.before - 1)' => v'.page = Schedule(Hist(b.anchor, end), b.m)
    BY <1>7, <1>9, <2>1
  <2> QED
    BY <1>9, <2>2, <2>3 DEF PageOK
<1>13. ScanOK'
  BY <1>1, <1>11, <1>12 DEF ScanOK, BlockOK
<1> QED
  BY <1>1, <1>11, <1>13, WithinOK, QuietOK DEF IInv

(* The page is kept when the anchor still stands; the last one completes the      *)
(* backfill, and any other ends the Step.                                         *)
LEMMA FinishPageOK == IInv /\ FinishPage => IInv'
<1> SUFFICES ASSUME IInv, FinishPage PROVE IInv'
  OBVIOUS
<1>1. /\ pc = "backend" /\ UNCHANGED chainVars /\ st' = st /\ boot' = boot
      /\ blobReady' = blobReady
  BY DEF FinishPage
<1>2. PICK b \in Progress(v.m) :
        /\ Confirms(b.before - 1, b.anchor)
        /\ LET b2 == [b EXCEPT !.auth = v.page, !.next = PageEnd(b.next, b.before - 1) + 1]
           IN  /\ back' = (back \ {b}) \cup {b2}
               /\ IF b2.next < b2.before THEN Return("idle") ELSE Backfilled(b2)
  BY DEF FinishPage
<1> DEFINE end == PageEnd(b.next, b.before - 1)
           d == [b EXCEPT !.auth = v.page, !.next = end + 1]
<1>3. /\ back' = (back \ {b}) \cup {d}
      /\ IF d.next < d.before THEN Return("idle") ELSE Backfilled(d)
  BY <1>2
<1>4. Live(b.anchor, b.before - 1)
  BY <1>2 DEF Confirms, AnchorHolds, Live
<1>5. /\ b \in back /\ b.m = v.m /\ b.before = v.from /\ b.before \in 1..MaxHeight
      /\ b.next \in 0..b.before /\ b.m # NoAddr
      /\ DOMAIN b = {"m", "before", "next", "anchor", "auth"}
      /\ Tracked(b.anchor, b.before - 1)
      /\ \A x \in Progress(v.m) : x = b
  BY ProgressIs
<1>6. b.next < b.before
  BY <1>1 DEF IInv, LocalsOK
<1>7. b.next \in Nat /\ b.before - 1 \in Nat /\ end \in b.next..(b.before - 1)
  <2>1. b.next \in Nat /\ b.before - 1 \in Nat /\ b.next <= b.before - 1
    BY <1>5, <1>6, AuthChainAssumption
  <2> QED
    BY <2>1, PageEndIn
<1>8. v.page = Schedule(Hist(b.anchor, end), b.m)
  BY <1>1, <1>4 DEF IInv, ScanOK, PageOK
<1> HIDE DEF end
<1>9. /\ d.m = b.m /\ d.before = b.before /\ d.next = end + 1 /\ d.anchor = b.anchor
      /\ d.auth = v.page /\ DOMAIN d = {"m", "before", "next", "anchor", "auth"}
  BY <1>5
<1> HIDE DEF d
<1>10. d.next \in 0..d.before /\ d.next - 1 = end /\ d.before - 1 = b.before - 1
  BY <1>5, <1>7, <1>9
<1>11. /\ ChainOK' /\ StateOK' /\ BootOK'
       /\ \A c, h : (Tracked(c, h)' <=> Tracked(c, h)) /\ (Live(c, h)' <=> Live(c, h))
  BY <1>1, SameChain, StillFirm, KeepState, KeepBoot DEF IInv
<1>12. BackOK'
  <2>1. ASSUME NEW x \in back'
        PROVE  /\ DOMAIN x = {"m", "before", "next", "anchor", "auth"}
               /\ x.m # NoAddr
               /\ x.before \in 1..MaxHeight
               /\ x.next \in 0..x.before
               /\ Tracked(x.anchor, x.before - 1)
               /\ Live(x.anchor, x.before - 1) => x.auth = Schedule(Hist(x.anchor, x.next - 1), x.m)
    <3>1. CASE x = d
      BY <1>5, <1>8, <1>9, <1>10, <3>1
    <3>2. CASE x \in back
      BY <3>2 DEF IInv, BackOK
    <3> QED
      BY <1>3, <3>1, <3>2
  <2>2. \A x, y \in back' : x.m = y.m => x = y
    BY <1>3, <1>5, <1>9 DEF IInv, BackOK
  <2> QED
    BY <1>11, <2>1, <2>2 DEF BackOK
<1>13. CASE d.next < d.before
  <2>1. Return("idle")
    BY <1>3, <1>13
  <2>2. blobReady' \in BOOLEAN
    BY <1>1, Zenon DEF IInv, LocalsOK
  <2>3. LocalsOK' /\ ScanOK' /\ pc' = "idle"
    BY <2>1, <2>2, ReturnOK DEF Idle
  <2> QED
    BY <1>11, <1>12, <2>3 DEF IInv, CalmOK
<1>14. CASE ~(d.next < d.before)
  <2>1. Backfilled(d) /\ end = v.from - 1
    BY <1>3, <1>5, <1>7, <1>9, <1>14
  <2>2. /\ Tracked(d.anchor, v.from - 1) /\ Live(d.anchor, v.from - 1)
        /\ d.auth = Schedule(Hist(d.anchor, v.from - 1), v.m)
    BY <1>4, <1>5, <1>8, <1>9, <2>1
  <2>3. Within /\ LocalsOK' /\ ScanOK'
    BY <1>1, <2>1, <2>2, BackfilledOK
  <2> QED
    BY <1>12, <2>3, WithinOK DEF IInv
<1> QED
  BY <1>13, <1>14

(* With no unknown manager left, the logs of a window or page are those of the    *)
(* managers its history names.                                                    *)
LEMMA SendersKnown ==
  ASSUME IInv, Sound, pc = "managers", Unknown = {}
  PROVE  /\ v.logs \cup Grants(LogsIn(chain, v.from, v.end), v.auth.known)
              = Select(LogsIn(Anchor, v.from, v.end), Named(Hist(Anchor, v.end)))
         /\ v.auth = AuthFrom(Hist(Anchor, v.from - 1), Named(Hist(Anchor, v.end)))
         /\ WellFormed(Anchor, Top) /\ v.end <= Top /\ v.from \in Nat /\ v.end \in Nat
         /\ v.from <= v.end
<1>1. pc \in Working /\ pc \in Reading /\ pc # "changes" /\ pc # "anchor"
  BY DEF Working, Reading
<1>2. RangeOK /\ BootOK
  BY <1>1 DEF IInv, LocalsOK
<1>3. Tracked(Anchor, Top) /\ v.end <= Top /\ v.from \in Nat /\ v.end \in Nat /\ v.from <= v.end
  BY <1>1, <1>2, SoundAnchor
<1>4. WellFormed(Anchor, Top) /\ Live(Anchor, Top)
  BY <1>3 DEF Sound, Tracked
<1>5. Learned(v.auth, Anchor, v.from, v.end) /\ v.logs = Names(LogsIn(Anchor, v.from, v.end))
  BY <1>1 DEF IInv, ScanOK, HistoryOK
<1>6. LogsIn(chain, v.from, v.end) = LogsIn(Anchor, v.from, v.end)
  BY <1>3, <1>4, LiveLogs DEF IInv
<1> DEFINE L == LogsIn(Anchor, v.from, v.end)
           K == v.auth.known
<1>7. Named(L) \subseteq K
  <2>1. \A l \in v.logs : l.manager \in K \cup {NoAddr}
    BY DEF Unknown
  <2> QED
    BY <1>5, <2>1 DEF Named
<1>8. Named(Hist(Anchor, v.end)) = Named(Hist(Anchor, v.from - 1)) \cup Named(L)
  BY <1>3, <1>4, HistGrows
<1>9. /\ v.auth = AuthFrom(Hist(Anchor, v.from - 1), K) /\ Named(Hist(Anchor, v.from - 1)) \subseteq K
      /\ K \subseteq Named(Hist(Anchor, v.end))
  BY <1>5 DEF Learned
<1>10. K = Named(Hist(Anchor, v.end))
  BY <1>7, <1>8, <1>9
<1>11. v.logs \cup Grants(LogsIn(chain, v.from, v.end), K) = Select(L, K)
  BY <1>5, <1>6 DEF Select
<1> QED
  BY <1>3, <1>4, <1>9, <1>10, <1>11

(* The grants of all managers are read; a page of the bootstrap is applied.       *)
LEMMA ReadSendersOK == IInv /\ ReadSenders => IInv'
<1> SUFFICES ASSUME IInv, ReadSenders PROVE IInv'
  OBVIOUS
<1> DEFINE logs == v.logs \cup Grants(LogsIn(chain, v.from, v.end), v.auth.known)
<1>1. /\ pc = "managers" /\ UNCHANGED <<chainVars, st, memVars>> /\ blobReady' = blobReady
      /\ UNCHANGED chainVars /\ st' = st /\ boot' = boot /\ back' = back /\ Unknown = {}
  BY DEF ReadSenders, memVars
<1>2. IF v.boot
        THEN v' = [v EXCEPT !.auth = Apply(@, logs)] /\ Goto("bootpage")
        ELSE v' = [v EXCEPT !.logs = logs, !.at = v.from] /\ Goto("block")
  BY DEF ReadSenders
<1>3. /\ RangeOK /\ DOMAIN v = DOMAIN Fresh /\ v.target \in 0..MaxHeight /\ v.subs = {}
      /\ v.page = NewAuthorization /\ v.at \in 0..MaxHeight + 1 /\ blobReady \in BOOLEAN
  <2>1. pc \in Working /\ pc \in Reading
    BY <1>1 DEF Working, Reading
  <2> QED
    BY <1>1, <2>1, Zenon DEF IInv, LocalsOK
<1>4. pc \in Working \ {"anchor"}
  BY <1>1 DEF Reading, Working
<1>5. v.boot \in BOOLEAN /\ v.from \in 0..MaxHeight /\ v.end \in v.from..MaxHeight
  BY <1>3, Zenon DEF RangeOK
<1> HIDE DEF logs
<1>6. CASE v.boot
  <2>1. v' = [v EXCEPT !.auth = Apply(v.auth, logs)] /\ pc' = "bootpage"
    BY <1>2, <1>6 DEF Goto
  <2>2. /\ DOMAIN v' = DOMAIN Fresh /\ v'.target = v.target /\ v'.page = NewAuthorization
        /\ v'.at = v.at /\ v'.subs = {} /\ v'.boot = v.boot /\ v'.auth = Apply(v.auth, logs)
        /\ v'.from = v.from /\ v'.end = v.end /\ v'.anchor = v.anchor
    BY <1>3, <2>1, FreshFields
  <2>3. /\ pc' \in Working \ {"anchor"} /\ pc' \notin Reading /\ pc' \notin Backing
        /\ pc' \notin Idle \cup Preparing \cup Reading \cup Closing
        /\ pc' \notin {"back", "backlogs", "backend", "boot", "bootanchor", "block", "anchor"}
    BY <2>1 DEF Reading, Working, Backing, Idle, Preparing, Closing
  <2>4. Within
    BY <1>1, <1>3, <1>4, <1>6, <2>1, <2>2, <2>3, Zenon DEF Within
  <2>5. LocalsOK'
    BY <1>1, <1>3, <2>2, <2>3, <2>4, WithinOK, Zenon DEF LocalsOK
  <2>6. Sound' => v'.auth = AuthOf(boot'.anchor, v'.end)
    <3> SUFFICES ASSUME Sound' PROVE v'.auth = AuthOf(boot.anchor, v.end)
      BY <1>1, <2>2
    <3>1. Sound /\ Anchor = boot.anchor
      BY <1>6, <2>4, WithinOK DEF Anchor
    <3> DEFINE K == Named(Hist(Anchor, v.end))
    <3>2. /\ logs = Select(LogsIn(Anchor, v.from, v.end), K)
          /\ v.auth = AuthFrom(Hist(Anchor, v.from - 1), K)
          /\ WellFormed(Anchor, Top) /\ v.end <= Top /\ v.from \in Nat /\ v.end \in Nat
          /\ v.from <= v.end + 1
      BY <1>1, <3>1, SendersKnown DEF logs
    <3>3. Apply(v.auth, logs) = AuthFrom(Hist(Anchor, v.end), K)
      <4> HIDE DEF K
      <4> QED
        BY <3>2, WindowApplies
    <3> QED
      BY <2>2, <3>1, <3>3, AuthOfIs
  <2>7. ScanOK'
    BY <2>1, <2>3, <2>6 DEF ScanOK, HistoryOK, PageOK, BlockOK
  <2> QED
    BY <1>1, <2>4, <2>5, <2>7, WithinOK, QuietOK DEF IInv
<1>7. CASE ~v.boot
  <2>1. v' = [v EXCEPT !.logs = logs, !.at = v.from] /\ pc' = "block"
    BY <1>2, <1>7 DEF Goto
  <2>2. /\ DOMAIN v' = DOMAIN Fresh /\ v'.target = v.target /\ v'.page = NewAuthorization
        /\ v'.at = v.from /\ v'.subs = {} /\ v'.boot = v.boot /\ v'.auth = v.auth
        /\ v'.from = v.from /\ v'.end = v.end /\ v'.anchor = v.anchor /\ v'.logs = logs
    BY <1>3, <2>1, FreshFields
  <2>3. /\ pc' \in Working \ {"anchor"} /\ pc' \notin Reading /\ pc' \notin Backing
        /\ pc' \notin Idle \cup Preparing \cup Reading \cup Closing
        /\ pc' \notin {"back", "backlogs", "backend", "boot", "bootanchor", "bootpage", "anchor"}
    BY <2>1 DEF Reading, Working, Backing, Idle, Preparing, Closing
  <2>4. Within
    BY <1>1, <1>3, <1>4, <1>7, <2>1, <2>2, <2>3, Zenon DEF Within
  <2>5. v'.at \in v'.from..v'.end /\ v'.at \in 0..MaxHeight + 1
    BY <1>5, <2>2, AuthChainAssumption
  <2>6. LocalsOK'
    BY <1>1, <1>3, <2>2, <2>3, <2>4, <2>5, WithinOK, Zenon DEF LocalsOK
  <2>7. BlockOK'
    <3> SUFFICES ASSUME Sound'
                 PROVE  LET K == Named(Hist(v'.anchor, v'.end))
                        IN  /\ v'.logs = Select(LogsIn(v'.anchor, v'.from, v'.end), K)
                            /\ v'.auth = AuthFrom(Hist(v'.anchor, v'.at - 1), K)
                            /\ v'.subs = SubsIn(v'.anchor, v'.from, v'.at - 1)
      BY DEF BlockOK
    <3>1. Sound /\ Anchor = v.anchor
      BY <1>7, <2>4, WithinOK DEF Anchor
    <3> DEFINE K == Named(Hist(v.anchor, v.end))
    <3>2. /\ logs = Select(LogsIn(v.anchor, v.from, v.end), K)
          /\ v.auth = AuthFrom(Hist(v.anchor, v.from - 1), K)
      BY <1>1, <3>1, SendersKnown DEF logs
    <3>3. SubsIn(v.anchor, v.from, v.from - 1) = {}
      BY <1>5, SubsGrow, AuthChainAssumption
    <3> QED
      BY <2>2, <3>2, <3>3
  <2>8. ScanOK'
    BY <2>1, <2>3, <2>7 DEF ScanOK, HistoryOK, PageOK
  <2> QED
    BY <1>1, <2>4, <2>6, <2>8, WithinOK, QuietOK DEF IInv
<1> QED
  BY <1>5, <1>6, <1>7

(* A page of the bootstrap is kept when the anchor still stands; the last one     *)
(* opens the first window.                                                        *)
LEMMA BootPageOK == IInv /\ BootPage => IInv'
<1> SUFFICES ASSUME IInv, BootPage PROVE IInv'
  OBVIOUS
<1>1. /\ pc = "bootpage" /\ UNCHANGED chainVars /\ st' = st /\ back' = {}
      /\ blobReady' = blobReady /\ Confirms(Start - 1, boot.anchor)
      /\ boot' = [boot EXCEPT !.auth = v.auth, !.ready = (v.end = Start - 1), !.next = v.end + 1]
      /\ IF v.end = Start - 1 THEN OpenWindow(v.auth) ELSE Return("idle")
  BY DEF BootPage
<1>2. RangeOK /\ v.target \in 0..MaxHeight /\ blobReady \in BOOLEAN
  <2>1. pc \in Working
    BY <1>1 DEF Working
  <2> QED
    BY <2>1, Zenon DEF IInv, LocalsOK
<1>3. v.boot
  BY <1>1, <1>2, Zenon DEF RangeOK
<1>4. /\ st.height = Nil /\ boot # NoBoot /\ v.from = boot.next /\ v.end <= Start - 1
      /\ Start <= v.target /\ v.from \in 0..MaxHeight /\ v.end \in v.from..MaxHeight
  BY <1>2, <1>3, Zenon DEF RangeOK
<1>5. /\ DOMAIN boot = {"next", "anchor", "auth", "ready"} /\ Start > 0
      /\ Tracked(boot.anchor, Start - 1)
  BY <1>4, Zenon DEF IInv, BootOK
<1>6. Live(boot.anchor, Start - 1)
  BY <1>1 DEF Confirms, AnchorHolds, Live
<1>7. Anchor = boot.anchor /\ Top = Start - 1
  BY <1>3 DEF Anchor, Top
<1>8. Sound
  BY <1>4, <1>6, <1>7 DEF Sound, BaseLive, BootLive
<1>9. v.auth = AuthOf(boot.anchor, v.end)
  BY <1>1, <1>8 DEF IInv, ScanOK
<1>10. /\ boot'.next = v.end + 1 /\ boot'.anchor = boot.anchor /\ boot'.auth = v.auth
       /\ DOMAIN boot' = {"next", "anchor", "auth", "ready"}
       /\ boot'.ready = (v.end = Start - 1)
  BY <1>1, <1>5, Zenon
<1>11. v.end + 1 \in 0..Start /\ v.end \in Nat /\ (v.end + 1) - 1 = v.end
  BY <1>4, AuthConfigAssumption
<1>12. boot' # NoBoot
  <2>1. NoBoot.next = Nil
    BY DEF NoBoot
  <2> QED
    BY <1>10, <1>11, <2>1 DEF Nil
<1>13. BootOK'
  <2>1. Tracked(boot.anchor, Start - 1)'
    BY <1>1, <1>5, <1>10, SameChain
  <2>2. AuthOf(boot.anchor, boot.next - 1)' = boot'.auth
    <3>1. AuthOf(boot.anchor, boot.next - 1)' = AuthOf(boot'.anchor, boot'.next - 1)
      BY DEF AuthOf, LogsIn
    <3> QED
      BY <1>9, <1>10, <1>11, <3>1
  <2>3. boot'.ready = (boot'.next = Start)
    <3>1. (v.end = Start - 1) <=> (v.end + 1 = Start)
      BY <1>11, AuthConfigAssumption
    <3> QED
      BY <1>10, <3>1, Zenon
  <2>4. boot'.next \in 0..Start
    BY <1>10, <1>11
  <2> QED
    BY <1>5, <1>10, <2>1, <2>2, <2>3, <2>4, Zenon DEF BootOK
<1>14. LocalsOK' /\ ScanOK' /\ pc' # "halt"
  <2>1. CASE v.end = Start - 1
    <3>1. OpenWindow(v.auth)
      BY <1>1, <2>1
    <3>2. v.auth = BaseAuth'
      <4>1. AuthOf(boot.anchor, Start - 1)' = AuthOf(boot'.anchor, Start - 1)
        BY DEF AuthOf, LogsIn
      <4> QED
        BY <1>1, <1>4, <1>5, <1>9, <1>10, <2>1, <4>1 DEF BaseAuth
    <3>3. boot'.next = Start /\ (st.height # Nil => st.height + 1 <= v.target)
      BY <1>4, <1>10, <2>1, AuthConfigAssumption
    <3>4. blobReady' \in BOOLEAN
      BY <1>1, <1>2, Zenon
    <3> QED
      BY <1>1, <1>2, <1>4, <1>12, <3>1, <3>2, <3>3, <3>4, OpenOK DEF IInv
  <2>2. CASE v.end # Start - 1
    <3>1. Return("idle")
      BY <1>1, <2>2
    <3>2. blobReady' \in BOOLEAN
      BY <1>1, <1>2, Zenon
    <3> QED
      BY <3>1, <3>2, ReturnOK DEF Idle
  <2> QED
    BY <2>1, <2>2
<1>15. ChainOK' /\ StateOK' /\ BackOK'
  BY <1>1, SameChain, StillFirm, KeepState DEF IInv, BackOK
<1> QED
  BY <1>13, <1>14, <1>15 DEF IInv, CalmOK

(* The logs of S before transaction i of block k.                                 *)
UpTo(S, k, i) == {l \in S : l.at = k /\ l.tx < i}

(* The logs of one block among those of a window.                                 *)
LEMMA BlockSelect ==
  ASSUME NEW c, NEW h, WellFormed(c, h), NEW from \in Nat, NEW end \in Nat, NEW k \in from..end,
         end <= h, NEW K
  PROVE  /\ {l \in Select(LogsIn(c, from, end), K) : l.at = k} = Select(LogsIn(c, k, k), K)
         /\ \A i : UpTo(Select(LogsIn(c, from, end), K), k, i)
                     = Select({l \in LogsIn(c, k, k) : l.tx < i}, K)
<1> DEFINE L == LogsIn(c, from, end)
           B == LogsIn(c, k, k)
<1>1. h \in Nat /\ DOMAIN c = 0..h /\ k \in Nat /\ k \in Int /\ from <= k /\ k <= end
  BY DEF WellFormed, Shaped
<1>2. ASSUME NEW l PROVE l \in B <=> l \in L /\ l.at = k
  <2>1. ASSUME l \in L PROVE l.at \in 0..h /\ from <= l.at /\ l.at <= end /\ l \in c[l.at].logs
    BY <2>1, LogsProper DEF WellFormed
  <2>2. ASSUME l \in B PROVE l.at \in 0..h /\ k <= l.at /\ l.at <= k /\ l \in c[l.at].logs
    BY <1>1, <2>2, LogsProper DEF WellFormed
  <2>3. l \in L <=> \E j \in 0..h : from <= j /\ j <= end /\ l \in c[j].logs
    BY <1>1, LogsAre
  <2>4. l \in B <=> \E j \in 0..h : k <= j /\ j <= k /\ l \in c[j].logs
    BY <1>1, LogsAre
  <2>5. ASSUME l \in B PROVE l \in L /\ l.at = k
    BY <1>1, <2>2, <2>3, <2>5
  <2>6. ASSUME l \in L, l.at = k PROVE l \in B
    BY <1>1, <2>1, <2>4, <2>6
  <2> QED
    BY <2>5, <2>6
<1> HIDE DEF L, B
<1>3. {l \in Select(L, K) : l.at = k} = Select(B, K)
  BY <1>2 DEF Select, Names, Grants
<1>4. ASSUME NEW i
      PROVE  UpTo(Select(L, K), k, i) = Select({l \in B : l.tx < i}, K)
  BY <1>2 DEF Select, Names, Grants, UpTo
<1> QED
  BY <1>3, <1>4 DEF L, B

(* A block of the window, while what the Step stands on is there: apply accepts   *)
(* its logs, and the submissions taken are those of the senders in force.         *)
LEMMA BlockKnown ==
  ASSUME IInv, Sound, pc = "block"
  PROVE  /\ Applies(v.auth, BlockLogs)
         /\ Apply(v.auth, BlockLogs)
              = AuthFrom(Hist(v.anchor, v.at), Named(Hist(v.anchor, v.end)))
         /\ Accepted(v.at) = RightAt(v.anchor, v.at)
<1> DEFINE c == v.anchor
           K == Named(Hist(c, v.end))
<1>1. pc \in Working /\ pc # "anchor" /\ pc \notin Reading \cup {"bootpage"}
  BY DEF Working, Reading, Backing
<1>2. RangeOK /\ BootOK /\ v.at \in v.from..v.end
  BY <1>1 DEF IInv, LocalsOK
<1>3. v.boot \in BOOLEAN /\ ~v.boot
  BY <1>1, <1>2, Zenon DEF RangeOK
<1>4. Anchor = c /\ Top = v.end
  BY <1>3 DEF Anchor, Top
<1>5. WellFormed(c, v.end) /\ Live(c, v.end) /\ v.from \in Nat /\ v.end \in Nat /\ v.end <= v.end
  BY <1>1, <1>2, <1>4, SoundAnchor DEF Sound, Tracked
<1>6. /\ v.logs = Select(LogsIn(c, v.from, v.end), K)
      /\ v.auth = AuthFrom(Hist(c, v.at - 1), K)
  BY DEF IInv, ScanOK, BlockOK
<1>7. v.at \in Nat /\ v.at \in 0..v.end /\ v.at <= v.end
  BY <1>2, <1>5
<1>8. c[v.at] = chain[v.at]
  BY <1>5, <1>7 DEF Live, HashAt
<1>9. Named(Hist(c, v.at)) \subseteq K /\ NoAddr \notin K
  <2>1. Named(Hist(c, v.end)) = Named(Hist(c, (v.at + 1) - 1)) \cup Named(LogsIn(c, v.at + 1, v.end))
    <3>1. v.at + 1 \in Nat /\ v.at + 1 <= v.end + 1
      BY <1>5, <1>7
    <3> QED
      BY <1>5, <3>1, HistGrows
  <2>2. (v.at + 1) - 1 = v.at
    BY <1>7
  <2> QED
    BY <2>1, <2>2 DEF Named
<1> HIDE DEF c, K
<1>10. BlockLogs = Select(LogsIn(c, v.at, v.at), K)
  BY <1>2, <1>5, <1>6, BlockSelect DEF BlockLogs
<1>11. /\ Applies(v.auth, BlockLogs) /\ Apply(v.auth, BlockLogs) = AuthFrom(Hist(c, v.at), K)
  <2>1. v.at <= v.at + 1
    BY <1>7
  <2> QED
    BY <1>5, <1>6, <1>7, <1>10, <2>1, WindowApplies
<1>12. ASSUME NEW i, NEW role, NEW fallback
       PROVE  SenderAt(Apply(v.auth, Before(v.at, i)), role, v.at, fallback)
                = RightSender(c, v.at, i, role, fallback)
  <2>1. Before(v.at, i) = Select({l \in LogsIn(c, v.at, v.at) : l.tx < i}, K)
    <3>1. Before(v.at, i) = UpTo(v.logs, v.at, i)
      BY DEF Before, UpTo
    <3> QED
      BY <1>2, <1>5, <1>6, <3>1, BlockSelect
  <2> QED
    BY <1>5, <1>6, <1>7, <1>9, <2>1, SenderRight
<1>13. Accepted(v.at) = RightAt(c, v.at)
  BY <1>8, <1>12 DEF Accepted, RightAt
<1> QED
  BY <1>11, <1>13 DEF c, K

(* What holds of the locals once the logs have been read.                         *)
LEMMA LateLocals ==
  ASSUME IInv, pc \in Closing \cup {"block"}
  PROVE  /\ RangeOK /\ DOMAIN v = DOMAIN Fresh /\ v.target \in 0..MaxHeight
         /\ v.at \in 0..MaxHeight + 1 /\ blobReady \in BOOLEAN /\ v.page = NewAuthorization
         /\ v.boot \in BOOLEAN /\ ~v.boot /\ pc \in Working \ {"anchor"}
         /\ v.from \in 0..MaxHeight /\ v.end \in v.from..MaxHeight
         /\ v.from = IF st.height # Nil THEN st.height + 1 ELSE Start
         /\ st.height = Nil /\ Start > 0 => boot # NoBoot
         /\ Tracked(v.anchor, v.end) /\ Anchor = v.anchor /\ Top = v.end
<1>1. pc \in Working \ {"anchor"} /\ pc \notin Reading \cup {"bootpage"} /\ pc # "anchor"
      /\ pc # "backend"
  BY DEF Closing, Working, Reading, Backing
<1>2. /\ RangeOK /\ DOMAIN v = DOMAIN Fresh /\ v.target \in 0..MaxHeight
      /\ v.at \in 0..MaxHeight + 1 /\ blobReady \in BOOLEAN /\ v.page = NewAuthorization
  BY <1>1, Zenon DEF IInv, LocalsOK
<1>3. v.boot \in BOOLEAN /\ ~v.boot
  BY <1>1, <1>2, Zenon DEF RangeOK
<1>4. /\ v.from \in 0..MaxHeight /\ v.end \in v.from..MaxHeight
      /\ v.from = IF st.height # Nil THEN st.height + 1 ELSE Start
      /\ st.height = Nil /\ Start > 0 => boot # NoBoot
      /\ Tracked(v.anchor, v.end)
  BY <1>1, <1>2, <1>3, Zenon DEF RangeOK
<1>5. Anchor = v.anchor /\ Top = v.end
  BY <1>3 DEF Anchor, Top
<1> QED
  BY <1>1, <1>2, <1>3, <1>4, <1>5

(* scan takes a block.                                                            *)
LEMMA ScanBlockOK == IInv /\ ScanBlock => IInv'
<1> SUFFICES ASSUME IInv, ScanBlock PROVE IInv'
  OBVIOUS
<1>1. /\ pc = "block" /\ UNCHANGED <<chainVars, st, memVars>> /\ blobReady' = blobReady
      /\ UNCHANGED chainVars /\ st' = st /\ boot' = boot /\ back' = back
      /\ v' = [v EXCEPT !.auth = Apply(@, BlockLogs), !.subs = @ \cup Accepted(v.at), !.at = @ + 1]
      /\ pc' = IF v.at = v.end THEN "end" ELSE "block"
  BY DEF ScanBlock, memVars, Goto
<1>2. /\ RangeOK /\ DOMAIN v = DOMAIN Fresh /\ v.target \in 0..MaxHeight
      /\ blobReady \in BOOLEAN /\ v.page = NewAuthorization
      /\ v.boot \in BOOLEAN /\ ~v.boot /\ pc \in Working \ {"anchor"}
      /\ v.from \in 0..MaxHeight /\ v.end \in v.from..MaxHeight
      /\ v.from = IF st.height # Nil THEN st.height + 1 ELSE Start
      /\ Tracked(v.anchor, v.end) /\ Anchor = v.anchor /\ Top = v.end
  BY <1>1, LateLocals
<1>3. v.at \in v.from..v.end
  BY <1>1 DEF IInv, LocalsOK
<1>4. /\ DOMAIN v' = DOMAIN Fresh /\ v'.target = v.target /\ v'.page = NewAuthorization
      /\ v'.at = v.at + 1 /\ v'.subs = v.subs \cup Accepted(v.at) /\ v'.boot = v.boot
      /\ v'.auth = Apply(v.auth, BlockLogs) /\ v'.logs = v.logs
      /\ v'.from = v.from /\ v'.end = v.end /\ v'.anchor = v.anchor
  BY <1>1, <1>2, FreshFields
<1>5. /\ pc' \in Working \ {"anchor"} /\ pc' \notin Reading /\ pc' \notin Backing
      /\ pc' \notin Idle \cup Preparing \cup Reading
      /\ pc' \notin {"back", "backlogs", "backend", "boot", "bootanchor", "bootpage", "anchor"}
  BY <1>1 DEF Reading, Working, Backing, Idle, Preparing, Closing
<1>6. Within
  BY <1>1, <1>2, <1>4, <1>5, Zenon DEF Within
<1>7. /\ pc' = "block" => v'.at \in v'.from..v'.end
      /\ v'.at \in 0..MaxHeight + 1 /\ v.at \in Nat /\ v.from \in Nat /\ v.end \in Nat
      /\ (v.at + 1) - 1 = v.at /\ v.from <= (v.at - 1) + 1 /\ (v.at - 1) + 1 = v.at
  BY <1>1, <1>2, <1>3, <1>4, AuthChainAssumption
<1>8. LocalsOK'
  BY <1>1, <1>2, <1>4, <1>5, <1>6, <1>7, WithinOK, Zenon DEF LocalsOK
<1> DEFINE K == Named(Hist(v.anchor, v.end))
<1>9. ASSUME Sound'
      PROVE  /\ Sound
             /\ v'.auth = AuthFrom(Hist(v.anchor, v.at), K)
             /\ v'.subs = SubsIn(v.anchor, v.from, v.at)
             /\ v'.logs = Select(LogsIn(v.anchor, v.from, v.end), K)
  <2>1. Sound
    BY <1>6, <1>9, WithinOK
  <2>2. v.subs = SubsIn(v.anchor, v.from, v.at - 1) /\ v.logs = Select(LogsIn(v.anchor, v.from, v.end), K)
    BY <1>1, <2>1 DEF IInv, ScanOK, BlockOK
  <2>3. SubsIn(v.anchor, v.from, v.at) = SubsIn(v.anchor, v.from, v.at - 1) \cup RightAt(v.anchor, v.at)
    <3>1. v.from <= v.at /\ v.at <= v.at
      BY <1>3, <1>7
    <3>2. /\ Joins(SubsIn(v.anchor, v.from, v.at), SubsIn(v.anchor, v.from, v.at - 1),
                   SubsIn(v.anchor, v.at, v.at))
          /\ SubsIn(v.anchor, v.at, v.at) = RightAt(v.anchor, v.at)
      BY <1>7, <3>1, SubsJoin
    <3> QED
      BY <3>2 DEF Joins
  <2>4. Accepted(v.at) = RightAt(v.anchor, v.at) /\ Apply(v.auth, BlockLogs) = AuthFrom(Hist(v.anchor, v.at), K)
    BY <1>1, <2>1, BlockKnown
  <2> QED
    BY <1>4, <2>1, <2>2, <2>3, <2>4
<1>10. BlockOK'
  <2> SUFFICES ASSUME Sound'
               PROVE  /\ v'.logs = Select(LogsIn(v'.anchor, v'.from, v'.end), Named(Hist(v'.anchor, v'.end)))
                      /\ v'.auth = AuthFrom(Hist(v'.anchor, v'.at - 1), Named(Hist(v'.anchor, v'.end)))
                      /\ v'.subs = SubsIn(v'.anchor, v'.from, v'.at - 1)
    BY DEF BlockOK
  <2> QED
    BY <1>4, <1>7, <1>9
<1>11. pc' = "end" /\ Sound' => Done'
  <2> SUFFICES ASSUME pc' = "end", Sound' PROVE Done'
    OBVIOUS
  <2>1. v.at = v.end
    BY <1>1
  <2>2. v'.auth = AuthOf(v'.anchor, v'.end) /\ v'.subs = SubsIn(v'.anchor, v'.from, v'.end)
    BY <1>4, <1>9, <2>1, AuthOfIs
  <2>3. ASSUME st.height # Nil PROVE \A k \in 0..st.height : v.anchor[k] = st.hash[k]
    <3>1. Live(st.hash, st.height) /\ Live(v.anchor, v.end)
      BY <1>2, <1>9, <2>3 DEF Sound, BaseLive
    <3>2. st.height \in Nat /\ st.height <= v.end
      BY <1>2, <2>3, AuthChainAssumption DEF IInv, StateOK, Nil
    <3> QED
      BY <1>7, <3>1, <3>2, LiveAgree
  <2> QED
    BY <1>1, <1>4, <2>2, <2>3 DEF Done, Extends
<1>12. ScanOK'
  <2>1. pc' \notin {"height2", "bootend", "commit"}
    BY <1>1
  <2> QED
    BY <1>5, <1>10, <1>11, <2>1 DEF ScanOK, HistoryOK, PageOK
<1> QED
  BY <1>1, <1>6, <1>8, <1>12, WithinOK, QuietOK DEF IInv

(* The checks before the commit, in the order of the code: the window's last      *)
(* block, the checkpoint, the bootstrap.                                          *)
LEMMA ClosingOK ==
  IInv /\ (CheckEnd \/ (CheckHeight /\ pc = "height2") \/ CheckBoot) => IInv'
<1> SUFFICES ASSUME IInv, CheckEnd \/ (CheckHeight /\ pc = "height2") \/ CheckBoot PROVE IInv'
  OBVIOUS
<1>1. /\ UNCHANGED <<chainVars, st, memVars>> /\ blobReady' = blobReady /\ v' = v
      /\ UNCHANGED chainVars /\ st' = st /\ boot' = boot /\ back' = back
  BY DEF CheckEnd, CheckHeight, CheckBoot, memVars
<1>2. \/ pc = "end" /\ pc' = "height2"
      \/ pc = "height2" /\ pc' = "bootend"
      \/ pc = "bootend" /\ pc' = "commit"
  BY DEF CheckEnd, CheckHeight, CheckBoot, Goto, AfterHeight
<1>3. pc \in Closing /\ pc' \in Closing
  BY <1>2 DEF Closing
<1>4. /\ DOMAIN v = DOMAIN Fresh /\ v.target \in 0..MaxHeight
      /\ v.at \in 0..MaxHeight + 1 /\ blobReady \in BOOLEAN /\ v.page = NewAuthorization
      /\ v.boot \in BOOLEAN /\ ~v.boot /\ pc \in Working \ {"anchor"}
      /\ Anchor = v.anchor /\ Top = v.end
  BY <1>3, LateLocals
<1>5. /\ pc' \in Working \ {"anchor"} /\ pc' \notin Reading /\ pc' \notin Backing
      /\ pc' \notin Idle \cup Preparing \cup Reading
      /\ pc' \notin {"back", "backlogs", "backend", "boot", "bootanchor", "bootpage", "anchor", "block"}
  BY <1>2 DEF Reading, Working, Backing, Idle, Preparing, Closing
<1>6. Within
  BY <1>1, <1>4, <1>5, Zenon DEF Within
<1>7. LocalsOK'
  BY <1>1, <1>4, <1>5, <1>6, WithinOK, Zenon DEF LocalsOK
<1>8. Done' <=> Done
  BY <1>1 DEF Done, Extends, AuthOf, SubsIn, RightAt, RightSender, LogsIn
<1>9. CASE pc = "end"
  <2>1. pc' = "height2" /\ Confirms(v.end, v.anchor)
    BY <1>2, <1>9 DEF CheckEnd, CheckHeight, CheckBoot
  <2>2. Live(v.anchor, v.end)
    BY <2>1 DEF Confirms, AnchorHolds, Live
  <2>3. BaseLive => Done
    BY <1>4, <1>9, <2>2 DEF IInv, ScanOK, Sound
  <2>4. ScanOK'
    BY <1>5, <1>6, <1>8, <2>1, <2>3, WithinOK DEF ScanOK, HistoryOK, PageOK, BlockOK
  <2> QED
    BY <1>1, <1>6, <1>7, <2>4, WithinOK, QuietOK DEF IInv
<1>10. CASE pc = "height2"
  <2>1. pc' = "bootend" /\ (st.height # Nil => Confirms(st.height, st.hash))
    BY <1>2, <1>10 DEF CheckEnd, CheckHeight, CheckBoot
  <2>2. st.height # Nil => Live(st.hash, st.height)
    BY <2>1 DEF Confirms, AnchorHolds, Live
  <2>3. BootLive => Done
    BY <1>10, <2>2 DEF IInv, ScanOK, BaseLive
  <2>4. ScanOK'
    BY <1>5, <1>6, <1>8, <2>1, <2>3, WithinOK DEF ScanOK, HistoryOK, PageOK, BlockOK
  <2> QED
    BY <1>1, <1>6, <1>7, <2>4, WithinOK, QuietOK DEF IInv
<1>11. CASE pc = "bootend"
  <2>1. pc' = "commit" /\ (st.height = Nil /\ Start > 0 => Confirms(Start - 1, boot.anchor))
    BY <1>2, <1>11 DEF CheckEnd, CheckHeight, CheckBoot
  <2>2. BootLive
    BY <2>1 DEF Confirms, AnchorHolds, Live, BootLive
  <2>3. Done
    BY <1>11, <2>2 DEF IInv, ScanOK
  <2>4. ScanOK'
    BY <1>5, <1>6, <1>8, <2>1, <2>3, WithinOK DEF ScanOK, HistoryOK, PageOK, BlockOK
  <2> QED
    BY <1>1, <1>6, <1>7, <2>4, WithinOK, QuietOK DEF IInv
<1> QED
  BY <1>2, <1>9, <1>10, <1>11

(* The check of the checkpoint at the start of a Step.                            *)
LEMMA FirstCheckOK == IInv /\ CheckHeight /\ pc = "height1" => IInv'
<1> SUFFICES ASSUME IInv, CheckHeight, pc = "height1" PROVE IInv'
  OBVIOUS
<1>1. UNCHANGED <<chainVars, st, memVars>> /\ v' = v /\ blobReady' = blobReady /\ pc' = "tip"
  BY DEF CheckHeight, Goto, AfterHeight
<1>2. v = [Fresh EXCEPT !.target = v.target] /\ v.target \in 0..MaxHeight /\ blobReady \in BOOLEAN
  <2>1. pc \in Idle \cup Preparing
    BY DEF Preparing
  <2> QED
    BY <2>1, Zenon DEF IInv, LocalsOK
<1>3. blobReady' \in BOOLEAN
  BY <1>1, <1>2, Zenon
<1> QED
  BY <1>1, <1>2, <1>3, PlainOK

(* What a commit writes is the authorisation and the submissions of its block.    *)
LEMMA ScannedOK ==
  ASSUME IInv, pc = "commit", UNCHANGED chainVars, st' = Scanned
  PROVE  StateOK'
<1>1. /\ v.from \in 0..MaxHeight /\ v.end \in v.from..MaxHeight
      /\ v.from = IF st.height # Nil THEN st.height + 1 ELSE Start
      /\ Tracked(v.anchor, v.end)
  BY LateLocals DEF Closing
<1>2. Done
  BY DEF IInv, ScanOK
<1>3. st'.height = v.end /\ st'.hash = v.anchor /\ st'.auth = v.auth /\ st'.subs = st.subs \cup v.subs
  BY DEF Scanned
<1>4. v.from \in Nat /\ v.end \in Nat /\ v.from >= Start /\ v.end >= Start /\ v.end # Nil
      /\ Start <= (v.from - 1) + 1 /\ v.from - 1 <= v.end /\ v.from - 1 \in Int /\ v.end \in Int
      /\ (v.from - 1) + 1 = v.from /\ v.end \in Nil..MaxHeight
  BY <1>1, AuthChainAssumption, AuthConfigAssumption DEF IInv, StateOK, Nil
<1>5. st.subs = SubsIn(v.anchor, Start, v.from - 1)
  <2>1. CASE st.height = Nil
    <3>1. st.subs = {} /\ v.from = Start
      BY <1>1, <2>1 DEF IInv, StateOK, NoState
    <3>2. SubsIn(v.anchor, Start, Start - 1) = {}
      <4>1. Start \in Nat /\ Start <= Start
        BY AuthConfigAssumption
      <4> QED
        BY <4>1, SubsJoin
    <3> QED
      BY <3>1, <3>2
  <2>2. CASE st.height # Nil
    <3>1. st.height \in Nat /\ st.height <= v.end /\ v.from - 1 = st.height
          /\ Tracked(st.hash, st.height) /\ st.subs = RightSubs(st.hash, st.height)
      BY <1>1, <2>2, AuthChainAssumption, AuthConfigAssumption DEF IInv, StateOK, Nil
    <3>2. \A k \in 0..st.height : v.anchor[k] = st.hash[k]
      BY <1>2, <2>2 DEF Done, Extends
    <3>3. DOMAIN st.hash = 0..st.height /\ DOMAIN v.anchor = 0..v.end
      BY <1>1, <3>1 DEF Tracked, WellFormed, Shaped
    <3>4. SubsIn(v.anchor, Start, st.height) = SubsIn(st.hash, Start, st.height)
      <4> DEFINE c == v.anchor
                 d == st.hash
                 n == st.height
                 h == v.end
      <4>1. /\ n \in Nat /\ n \in Int /\ n <= n /\ Start \in Nat /\ h \in Nat /\ n <= h
            /\ DOMAIN c = 0..h /\ DOMAIN d = 0..n /\ \A k \in 0..n : c[k] = d[k]
        BY <1>4, <3>1, <3>2, <3>3, AuthConfigAssumption
      <4> HIDE DEF c, d, n, h
      <4>2. SubsIn(c, Start, n) = SubsIn(d, Start, n)
        BY <4>1, SubsAgree
      <4> QED
        BY <4>2 DEF c, d, n
    <3> QED
      BY <3>1, <3>4, RightSubsIs
  <2> QED
    BY <2>1, <2>2
<1>6. st'.subs = RightSubs(v.anchor, v.end)
  <2>1. SubsIn(v.anchor, Start, v.end)
          = SubsIn(v.anchor, Start, v.from - 1) \cup SubsIn(v.anchor, v.from, v.end)
    <3>1. Start \in Nat /\ v.from \in Nat /\ v.end \in Nat /\ Start <= v.from /\ v.from <= v.end
      BY <1>1, <1>4, AuthConfigAssumption
    <3>2. Joins(SubsIn(v.anchor, Start, v.end), SubsIn(v.anchor, Start, v.from - 1),
                SubsIn(v.anchor, v.from, v.end))
      BY <3>1, SubsJoin
    <3> QED
      BY <3>2 DEF Joins
  <2>2. v.subs = SubsIn(v.anchor, v.from, v.end)
    BY <1>2 DEF Done
  <2> QED
    BY <1>3, <1>4, <1>5, <2>1, <2>2, RightSubsIs
<1>7. Tracked(st.hash, st.height)'
  BY <1>1, <1>3, SameChain
<1>8. st'.auth = AuthOf(v.anchor, v.end)
  BY <1>2, <1>3 DEF Done
<1>9. /\ AuthOf(st.hash, st.height)' = AuthOf(st'.hash, st'.height)
      /\ RightSubs(st.hash, st.height)' = RightSubs(st'.hash, st'.height)
  BY DEF AuthOf, RightSubs, RightSender, LogsIn
<1> QED
  BY <1>3, <1>4, <1>6, <1>7, <1>8, <1>9 DEF StateOK

(* The commit of a window, and one that fails with or without having written.     *)
LEMMA CommitOK == IInv /\ (CommitScan \/ CommitFails) => IInv'
<1> SUFFICES ASSUME IInv, CommitScan \/ CommitFails PROVE IInv'
  OBVIOUS
<1>1. pc = "commit" /\ UNCHANGED chainVars /\ st' \in {st, Scanned} /\ epoch' = epoch
  BY DEF CommitScan, CommitFails, chainVars
<1>2. ChainOK' /\ Firm
  BY <1>1, SameChain, StillFirm DEF IInv
<1>3. StateOK'
  BY <1>1, <1>2, ScannedOK, KeepState DEF IInv
<1>4. CASE CommitScan
  <2>1. boot' = NoBoot /\ back' = {} /\ blobReady' = (v.end = v.target)
    BY <1>4, Zenon DEF CommitScan, SetBlobReady
  <2>2. \E l \in {"wait", "idle"} : Return(l)
    BY <1>4 DEF CommitScan
  <2>3. blobReady' \in BOOLEAN
    BY <2>1, Zenon
  <2>4. LocalsOK' /\ ScanOK' /\ pc' # "halt"
    BY <2>2, <2>3, ReturnOK DEF Idle
  <2> QED
    BY <1>2, <1>3, <2>1, <2>4 DEF IInv, BootOK, BackOK, CalmOK
<1>5. CASE CommitFails
  <2>1. boot' = boot /\ back' = back /\ blobReady' = blobReady /\ Return("invalid")
    BY <1>5 DEF CommitFails, memVars
  <2>2. blobReady' \in BOOLEAN
    BY <2>1, Zenon DEF IInv, LocalsOK
  <2>3. LocalsOK' /\ ScanOK' /\ pc' = "invalid"
    BY <2>1, <2>2, ReturnOK DEF Idle
  <2>4. BootOK' /\ BackOK'
    BY <1>2, <2>1, KeepBoot, KeepBack DEF IInv
  <2> QED
    BY <1>2, <1>3, <2>3, <2>4 DEF IInv, CalmOK
<1> QED
  BY <1>4, <1>5

(* What a Step stands on does not come back once it is gone.                      *)
LEMMA SoundFirm ==
  ASSUME IInv, Firm, st' = st, boot' = boot, v' = v, pc \in Working
  PROVE  /\ BaseLive' => BaseLive
         /\ BootLive' => BootLive
         /\ pc # "anchor" /\ Sound' => Sound
<1>1. RangeOK /\ BootOK /\ StateOK
  BY DEF IInv, LocalsOK
<1>2. st.height # Nil /\ Live(st.hash, st.height)' => Live(st.hash, st.height)
  BY <1>1 DEF Firm, StateOK
<1>3. st.height = Nil /\ Start > 0 => boot # NoBoot
  BY <1>1, Zenon DEF RangeOK
<1>4. st.height = Nil /\ Start > 0 /\ Live(boot.anchor, Start - 1)' => Live(boot.anchor, Start - 1)
  BY <1>1, <1>3 DEF Firm, BootOK
<1>5. Anchor' = Anchor /\ Top' = Top
  BY Zenon DEF Anchor, Top
<1>6. pc # "anchor" /\ Live(Anchor, Top)' => Live(Anchor, Top)
  <2>1. pc # "anchor" => Tracked(Anchor, Top)
    BY <1>1, SoundAnchor
  <2>2. \A c, h : Tracked(c, h) /\ Live(c, h)' => Live(c, h)
    BY DEF Firm
  <2> QED
    BY <1>5, <2>1, <2>2
<1>7. (BaseLive' => BaseLive) /\ (BootLive' => BootLive)
  BY <1>2, <1>4 DEF BaseLive, BootLive
<1> QED
  BY <1>6, <1>7 DEF Sound

(* The chain moves under the worker.                                              *)
LEMMA StandOK ==
  ASSUME IInv, ChainOK', Firm, epoch' = 0 => epoch = 0, UNCHANGED <<st, memVars, pc, v, blobReady>>
  PROVE  IInv'
<1>1. /\ st' = st /\ boot' = boot /\ back' = back /\ pc' = pc /\ v' = v
      /\ blobReady' = blobReady
  BY DEF memVars
<1>2. ChainOK' /\ Firm
  OBVIOUS
<1>3. StateOK' /\ BootOK' /\ BackOK'
  BY <1>1, <1>2, KeepState, KeepBoot, KeepBack DEF IInv
<1>5. CalmOK'
  BY <1>1 DEF IInv, CalmOK
<1>6. RangeOK /\ pc \in Working => RangeOK'
  <2>1. RangeOK /\ Tracked(v.anchor, v.end) => Tracked(v.anchor, v.end)'
    BY <1>1, <1>2 DEF Firm
  <2> QED
    BY <1>1, <2>1, Zenon DEF RangeOK
<1>7. LocalsOK'
  <2>1. (Progress(v.m))' = Progress(v.m)
    BY <1>1 DEF Progress
  <2> QED
    BY <1>1, <1>6, <2>1, Zenon DEF IInv, LocalsOK
<1>8. ScanOK'
  <2>1. CASE pc \in Working
    <3>1. /\ BaseLive' => BaseLive
          /\ BootLive' => BootLive
          /\ pc # "anchor" /\ Sound' => Sound
      BY <1>1, <1>2, <2>1, SoundFirm
    <3>2. Anchor' = Anchor
      BY <1>1, Zenon DEF Anchor
    <3>3. BaseAuth' = BaseAuth
      BY <1>1 DEF BaseAuth, AuthOf, LogsIn
    <3>4. Done' <=> Done
      BY <1>1 DEF Done, Extends, AuthOf, SubsIn, RightAt, RightSender, LogsIn
    <3>5. HistoryOK'
      <4>1. ASSUME pc \in Reading, Sound'
            PROVE  /\ Learned(v.auth, Anchor, v.from, v.end)
                   /\ pc # "changes" => v.logs = Names(LogsIn(Anchor, v.from, v.end))
        <5>1. pc # "anchor"
          BY <4>1 DEF Reading, Backing
        <5> QED
          BY <3>1, <4>1, <5>1 DEF IInv, ScanOK, HistoryOK
      <4> QED
        BY <1>1, <3>2, <4>1 DEF HistoryOK
    <3>6. PageOK'
      <4>1. (Progress(v.m))' = Progress(v.m)
        BY <1>1 DEF Progress
      <4>2. ASSUME NEW b \in Progress(v.m), Live(b.anchor, b.before - 1)'
            PROVE  Live(b.anchor, b.before - 1)
        <5>1. Tracked(b.anchor, b.before - 1)
          BY ProgressIs
        <5> QED
          BY <1>2, <4>2, <5>1 DEF Firm
      <4> QED
        BY <1>1, <4>1, <4>2 DEF IInv, ScanOK, PageOK
    <3>7. BlockOK'
      <4>1. ASSUME pc = "block", Sound'
            PROVE  /\ v.logs = Select(LogsIn(v.anchor, v.from, v.end), Named(Hist(v.anchor, v.end)))
                   /\ v.auth = AuthFrom(Hist(v.anchor, v.at - 1), Named(Hist(v.anchor, v.end)))
                   /\ v.subs = SubsIn(v.anchor, v.from, v.at - 1)
        BY <3>1, <4>1 DEF IInv, ScanOK, BlockOK
      <4> QED
        BY <1>1, <4>1 DEF BlockOK
    <3>8. pc' = "bootpage" /\ Sound' => v'.auth = AuthOf(boot'.anchor, v'.end)
      BY <1>1, <3>1 DEF IInv, ScanOK
    <3>9. /\ pc' = "anchor" /\ BaseLive' => v'.auth = BaseAuth'
          /\ pc' = "end" /\ Sound' => Done'
          /\ pc' = "height2" /\ BaseLive' => Done'
          /\ pc' = "bootend" /\ BootLive' => Done'
          /\ pc' = "commit" => Done'
      BY <1>1, <3>1, <3>3, <3>4 DEF IInv, ScanOK
    <3> QED
      BY <3>5, <3>6, <3>7, <3>8, <3>9 DEF ScanOK
  <2>2. CASE pc \notin Working
    BY <1>1, <2>2 DEF ScanOK, HistoryOK, PageOK, BlockOK, Working, Reading, Backing, Closing
  <2> QED
    BY <2>1, <2>2
<1> QED
  BY <1>2, <1>3, <1>5, <1>7, <1>8 DEF IInv

(* A new block, or a reorganisation, under a Step that is under way.              *)
LEMMA ChainStepOK == IInv /\ Chain => IInv'
<1> SUFFICES ASSUME IInv, Chain PROVE IInv'
  OBVIOUS
<1>1. ChainNext /\ UNCHANGED <<st, memVars, pc, v, blobReady>>
  BY DEF Chain
<1>2. epoch' = 0 => epoch = 0
  <2>1. epoch \in Nat
    BY DEF IInv, ChainOK
  <2> QED
    BY <1>1, <2>1 DEF ChainNext, Mine, Reorg
<1> QED
  BY <1>1, <1>2, ChainFirm, StandOK DEF IInv

(* On the first fork a Step stands on the chain.                                  *)
LEMMA FirstForkSound ==
  ASSUME IInv, epoch = 0
  PROVE  /\ st.height # Nil => Live(st.hash, st.height)
         /\ boot # NoBoot => Live(boot.anchor, Start - 1)
         /\ \A b \in back : Live(b.anchor, b.before - 1)
         /\ pc \in Working => BaseLive
         /\ pc \in Working \ {"anchor"} => Sound
<1>1. st.height # Nil => Live(st.hash, st.height)
  BY FirstForkLive DEF IInv, StateOK
<1>2. boot # NoBoot => Live(boot.anchor, Start - 1)
  BY FirstForkLive DEF IInv, BootOK
<1>3. \A b \in back : Live(b.anchor, b.before - 1)
  BY FirstForkLive DEF IInv, BackOK
<1>4. ASSUME pc \in Working PROVE BaseLive
  <2>1. st.height = Nil /\ Start > 0 => boot # NoBoot
    BY <1>4, Zenon DEF IInv, LocalsOK, RangeOK
  <2> QED
    BY <1>1, <1>2, <2>1 DEF BaseLive, BootLive
<1>5. ASSUME pc \in Working \ {"anchor"} PROVE Sound
  <2>1. Tracked(Anchor, Top)
    BY <1>5, SoundAnchor DEF IInv, LocalsOK
  <2>2. Live(Anchor, Top)
    BY <2>1, FirstForkLive
  <2> QED
    BY <1>4, <1>5, <2>2 DEF Sound
<1> QED
  BY <1>1, <1>2, <1>3, <1>4, <1>5

(* An integrity halt, which needs a reorganisation.                               *)
LEMMA HaltsOK == IInv /\ (AnchorChanged \/ LogRefused) => IInv'
<1> SUFFICES ASSUME IInv, AnchorChanged \/ LogRefused PROVE IInv'
  OBVIOUS
<1>1. UNCHANGED <<chainVars, st, memVars>> /\ blobReady' = blobReady /\ Return("halt")
  BY DEF AnchorChanged, LogRefused
<1>2. blobReady' \in BOOLEAN
  BY <1>1, Zenon DEF IInv, LocalsOK
<1>3. LocalsOK' /\ ScanOK'
  BY <1>1, <1>2, ReturnOK DEF Idle
<1>4. ChainOK' /\ StateOK' /\ BootOK' /\ BackOK' /\ epoch' = epoch
  BY <1>1, QuietOK
<1>5. ASSUME epoch = 0 PROVE FALSE
  <2>1. \A n, c : Refutes(n, c) => ~Live(c, n)
    BY DEF Refutes, AnchorHolds, Live
  <2>2. /\ st.height # Nil => Live(st.hash, st.height)
        /\ boot # NoBoot => Live(boot.anchor, Start - 1)
        /\ \A b \in back : Live(b.anchor, b.before - 1)
        /\ pc \in Working \ {"anchor"} => Sound
    BY <1>5, FirstForkSound
  <2>3. ASSUME AnchorChanged PROVE FALSE
    <3>1. \/ st.height # Nil /\ Refutes(st.height, st.hash)
          \/ pc \in {"boot", "bootpage"} /\ Refutes(Start - 1, boot.anchor)
          \/ \E b \in Progress(v.m) : Refutes(b.before - 1, b.anchor)
          \/ pc = "end" /\ Refutes(v.end, v.anchor)
          \/ pc = "bootend" /\ st.height = Nil /\ Start > 0 /\ Refutes(Start - 1, boot.anchor)
      BY <2>3 DEF AnchorChanged
    <3>2. pc \in {"boot", "bootpage"} => boot # NoBoot
      <4>1. pc = "boot" => boot # NoBoot
        BY DEF IInv, LocalsOK
      <4>2. ASSUME pc = "bootpage" PROVE boot # NoBoot
        <5>1. RangeOK
          BY <4>2 DEF IInv, LocalsOK, Working
        <5> QED
          BY <4>2, <5>1, Zenon DEF RangeOK
      <4> QED
        BY <4>1, <4>2
    <3>3. pc = "bootend" /\ st.height = Nil /\ Start > 0 => boot # NoBoot
      BY LateLocals DEF Closing
    <3>4. pc = "end" => Live(v.anchor, v.end)
      BY <2>2, LateLocals DEF Closing, Working, Sound
    <3>5. \A b \in Progress(v.m) : b \in back
      BY DEF Progress
    <3> QED
      BY <2>1, <2>2, <3>1, <3>2, <3>3, <3>4, <3>5
  <2>4. ASSUME LogRefused PROVE FALSE
    <3>1. CASE pc = "block" /\ ~Applies(v.auth, BlockLogs)
      <4>1. pc \in Working \ {"anchor"}
        BY <3>1 DEF Working
      <4> QED
        BY <2>2, <3>1, <4>1, BlockKnown
    <3>2. CASE /\ pc = "managers" /\ v.boot /\ Unknown = {}
               /\ ~Applies(v.auth, v.logs \cup Grants(LogsIn(chain, v.from, v.end), v.auth.known))
      <4>1. pc \in Working \ {"anchor"}
        BY <3>2 DEF Working, Reading
      <4> DEFINE K == Named(Hist(Anchor, v.end))
      <4>2. /\ v.logs \cup Grants(LogsIn(chain, v.from, v.end), v.auth.known)
                 = Select(LogsIn(Anchor, v.from, v.end), K)
            /\ v.auth = AuthFrom(Hist(Anchor, v.from - 1), K)
            /\ WellFormed(Anchor, Top) /\ v.end <= Top /\ v.from \in Nat /\ v.end \in Nat
            /\ v.from <= v.end + 1
        BY <2>2, <3>2, <4>1, SendersKnown
      <4>3. Applies(AuthFrom(Hist(Anchor, v.from - 1), K), Select(LogsIn(Anchor, v.from, v.end), K))
        <5> HIDE DEF K
        <5> QED
          BY <4>2, WindowApplies
      <4> QED
        BY <3>2, <4>2, <4>3
    <3> QED
      BY <2>4, <3>1, <3>2 DEF LogRefused
  <2> QED
    BY <2>3, <2>4
<1> QED
  BY <1>3, <1>4, <1>5 DEF IInv, CalmOK

(* A step that changes nothing.                                                   *)
LEMMA StutterOK == IInv /\ UNCHANGED vars => IInv'
<1> SUFFICES ASSUME IInv, UNCHANGED vars PROVE IInv'
  OBVIOUS
<1>1. UNCHANGED chainVars /\ UNCHANGED <<st, memVars, pc, v, blobReady>> /\ epoch' = epoch
  BY DEF vars, chainVars, memVars
<1> QED
  BY <1>1, SameChain, StillFirm, StandOK DEF IInv

(* Every step of the specification keeps the invariant.                           *)
LEMMA NextOK == IInv /\ [Next]_vars => IInv'
<1> SUFFICES ASSUME IInv, [Next]_vars PROVE IInv'
  OBVIOUS
<1>1. CASE Chain
  BY <1>1, ChainStepOK
<1>2. CASE Prepare
  <2>1. CheckHeight => pc \in {"height1", "height2"}
    BY DEF CheckHeight, AfterHeight
  <2> QED
    BY <1>2, <2>1, PrepareOK, ClosingOK, FirstCheckOK DEF Prepare
<1>3. CASE History
  BY <1>3, InitializeOK, BootAnchorOK, BootStepOK, AnchorWindowOK, ReadChangesOK,
     NextManagerOK, BackAnchorOK, BackStepOK, ReadBackOK, FinishPageOK, ReadSendersOK,
     BootPageOK DEF History
<1>4. CASE Scan
  BY <1>4, ScanBlockOK, HaltsOK, ClosingOK, CommitOK DEF Scan
<1>5. CASE AnchorChanged \/ Retry \/ Halt \/ Poll
  BY <1>5, HaltsOK, PrepareOK
<1>6. CASE Faults
  BY <1>6, FailureOK, CommitOK, RestartOK DEF Faults
<1>7. CASE Stopped \/ UNCHANGED vars
  BY <1>7, StutterOK DEF Stopped
<1> QED
  BY <1>1, <1>2, <1>3, <1>4, <1>5, <1>6, <1>7 DEF Next, Worker

(* The invariant holds in every reachable state.                                  *)
LEMMA Invariance == Spec => []IInv
<1>1. Init => IInv
  BY InitOK
<1>2. IInv /\ [Next]_vars => IInv'
  BY NextOK
<1> QED
  BY <1>1, <1>2, PTL DEF Spec

(* What the history of a block gives passes decodeAuth, in all and per manager.   *)
LEMMA HistDecodes ==
  ASSUME NEW c, NEW h, WellFormed(c, h), NEW n \in Int
  PROVE  /\ Decodes(AuthOf(c, n))
         /\ \A K : Named(Hist(c, n)) \subseteq K /\ NoAddr \notin K => Decodes(AuthFrom(Hist(c, n), K))
         /\ \A m : m # NoAddr => Decodes(Schedule(Hist(c, n), m))
<1>1. Proper(Hist(c, n)) /\ \A l \in Hist(c, n) : l.kind = "grant" => l.sender # NoAddr
  <2>1. Shaped(c, h) /\ 0 \in Nat
    BY DEF WellFormed
  <2> QED
    BY <2>1, LogsProper DEF Hist
<1>2. \A K : Named(Hist(c, n)) \subseteq K /\ NoAddr \notin K => Decodes(AuthFrom(Hist(c, n), K))
  BY <1>1, FromDecodes
<1>3. ASSUME NEW m, m # NoAddr PROVE Decodes(Schedule(Hist(c, n), m))
  <2>1. NoAddr \notin {m} /\ m \in {m}
    BY <1>3
  <2> QED
    BY <1>1, <2>1, FromDecodes
<1>4. NoAddr \notin Named(Hist(c, n))
  BY DEF Named
<1> QED
  BY <1>2, <1>3, <1>4, AuthOfIs

(* The empty authorisation passes decodeAuth.                                     *)
LEMMA NewDecodes == Decodes(NewAuthorization)
BY DEF Decodes, NewAuthorization

(* The authorisation a Step works with passes decodeAuth on the first fork.       *)
LEMMA WorkDecodes ==
  ASSUME IInv, epoch = 0
  PROVE  Decodes(v.auth)
<1>1. CASE pc \in Idle \cup Preparing
  BY <1>1, FreshFields, NewDecodes DEF IInv, LocalsOK
<1>2. CASE pc = "anchor"
  <2>1. v.auth = BaseAuth
    BY <1>2, FirstForkSound DEF IInv, ScanOK, Working
  <2>2. CASE st.height # Nil
    BY <2>1, <2>2, HistDecodes, AuthChainAssumption DEF BaseAuth, IInv, StateOK, Tracked, Nil
  <2>3. CASE st.height = Nil /\ Start = 0
    BY <2>1, <2>3, NewDecodes DEF BaseAuth
  <2>4. CASE st.height = Nil /\ Start # 0
    <3>1. boot # NoBoot /\ Start - 1 \in Int
      <4>1. pc \in Working /\ pc \notin Reading \cup {"bootpage"} /\ Start > 0 /\ Start - 1 \in Int
        BY <1>2, <2>4, AuthConfigAssumption DEF Working, Reading, Backing
      <4>2. boot # NoBoot
        BY <2>4, <4>1, Zenon DEF IInv, LocalsOK, RangeOK
      <4> QED
        BY <4>1, <4>2
    <3> QED
      BY <2>1, <2>4, <3>1, HistDecodes DEF BaseAuth, IInv, BootOK, Tracked
  <2> QED
    BY <2>2, <2>3, <2>4
<1>3. CASE pc \in Reading
  <2>1. pc \in Working \ {"anchor"} /\ RangeOK /\ BootOK
    BY <1>3 DEF Working, Reading, Backing, IInv, LocalsOK
  <2>2. Sound /\ Tracked(Anchor, Top) /\ v.from \in Nat
    BY <2>1, FirstForkSound, SoundAnchor
  <2>3. Learned(v.auth, Anchor, v.from, v.end)
    BY <1>3, <2>2 DEF IInv, ScanOK, HistoryOK
  <2> DEFINE K == v.auth.known
             n == v.from - 1
  <2>4. /\ v.auth = AuthFrom(Hist(Anchor, n), K) /\ Named(Hist(Anchor, n)) \subseteq K
        /\ NoAddr \notin K /\ n \in Int
    BY <2>2, <2>3 DEF Learned, Named
  <2> HIDE DEF K, n
  <2>5. WellFormed(Anchor, Top)
    BY <2>2 DEF Tracked
  <2> QED
    BY <2>4, <2>5, HistDecodes
<1>4. CASE pc = "bootpage"
  <2>1. pc \in Working \ {"anchor"}
    BY <1>4 DEF Working
  <2>2. v.auth = AuthOf(boot.anchor, v.end)
    BY <1>4, <2>1, FirstForkSound DEF IInv, ScanOK
  <2>3. RangeOK
    BY <2>1 DEF IInv, LocalsOK
  <2>4. boot # NoBoot /\ v.end \in v.from..MaxHeight
    BY <1>4, <2>3, Zenon DEF RangeOK
  <2>5. v.end \in Int /\ WellFormed(boot.anchor, Start - 1)
    BY <2>4 DEF IInv, BootOK, Tracked
  <2> QED
    BY <2>2, <2>5, HistDecodes
<1>5. CASE pc = "block"
  <2>1. pc \in Working \ {"anchor"}
    BY <1>5 DEF Working
  <2> DEFINE K == Named(Hist(v.anchor, v.end))
             n == v.at - 1
  <2>2. v.auth = AuthFrom(Hist(v.anchor, n), K)
    BY <1>5, <2>1, FirstForkSound DEF IInv, ScanOK, BlockOK
  <2>3. WellFormed(v.anchor, v.end) /\ v.from \in 0..MaxHeight /\ v.end \in v.from..MaxHeight
    BY <1>5, LateLocals DEF Tracked
  <2>4. v.at \in v.from..v.end
    BY <1>5 DEF IInv, LocalsOK
  <2>5. v.at \in Nat /\ v.end \in Nat /\ v.at <= v.end + 1 /\ v.end <= v.end /\ n \in Int
    BY <2>3, <2>4, AuthChainAssumption
  <2>6. Named(Hist(v.anchor, n)) \subseteq K /\ NoAddr \notin K
    <3>1. Named(Hist(v.anchor, v.end)) = Named(Hist(v.anchor, v.at - 1)) \cup Named(LogsIn(v.anchor, v.at, v.end))
      BY <2>3, <2>5, HistGrows
    <3> QED
      BY <3>1 DEF Named
  <2> HIDE DEF K, n
  <2> QED
    BY <2>2, <2>3, <2>5, <2>6, HistDecodes
<1>6. CASE pc \in Closing
  <2>1. pc \in Working \ {"anchor"}
    BY <1>6 DEF Working, Closing
  <2>2. Sound /\ BaseLive /\ BootLive
    BY <2>1, FirstForkSound DEF Sound, BaseLive
  <2>3. Done
    BY <1>6, <2>2 DEF IInv, ScanOK, Closing
  <2>4. WellFormed(v.anchor, v.end) /\ v.end \in Int
    BY <1>6, LateLocals DEF Tracked
  <2> QED
    BY <2>3, <2>4, HistDecodes DEF Done
<1> QED
  BY <1>1, <1>2, <1>3, <1>4, <1>5, <1>6 DEF IInv, LocalsOK, Working

(* The types.                                                                     *)
THEOREM TypeCorrect == Spec => []TypeOK
<1>1. IInv => TypeOK
  <2> SUFFICES ASSUME IInv PROVE TypeOK
    OBVIOUS
  <2>1. tip \in 0..MaxHeight /\ DOMAIN chain = 0..tip /\ epoch \in 0..MaxReorgs
    BY DEF IInv, ChainOK, WellFormed, Shaped
  <2>2. st.height \in Nil..MaxHeight /\ (boot = NoBoot \/ boot.next \in 0..Start)
    BY DEF IInv, StateOK, BootOK
  <2>3. \A b \in back : b.before \in 1..MaxHeight /\ b.next \in 0..b.before
    BY DEF IInv, BackOK
  <2>4. DOMAIN v = DOMAIN Fresh /\ v.target \in 0..MaxHeight /\ v.at \in 0..MaxHeight + 1
        /\ blobReady \in BOOLEAN
    BY Zenon DEF IInv, LocalsOK
  <2>5. v.from \in 0..MaxHeight /\ v.end \in 0..MaxHeight
    <3>1. CASE pc \in Working
      <4>1. v.from \in 0..MaxHeight /\ v.end \in v.from..MaxHeight
        BY <3>1 DEF IInv, LocalsOK, RangeOK
      <4> QED
        BY <4>1, AuthChainAssumption
    <3>2. CASE pc \in Idle \cup Preparing
      <4>1. v = [Fresh EXCEPT !.target = v.target]
        BY <3>2 DEF IInv, LocalsOK
      <4> QED
        BY <4>1, FreshFields, AuthChainAssumption
    <3> QED
      BY <3>1, <3>2 DEF IInv, LocalsOK
  <2>6. {v.target, v.end} \subseteq 0..MaxHeight
    BY <2>4, <2>5
  <2> QED
    BY <2>1, <2>2, <2>3, <2>4, <2>5, <2>6, Zenon DEF TypeOK
<1> QED
  BY <1>1, Invariance, PTL

(* The committed authorisation is the one the whole history of the committed      *)
(* block gives, and the submissions taken are those of the senders in force.      *)
THEOREM Authorised == Spec => []AuthFaithful
<1>1. IInv => AuthFaithful
  BY DEF IInv, StateOK, AuthFaithful
<1> QED
  BY <1>1, Invariance, PTL

(* Without a reorganisation no integrity check halts the worker, and every        *)
(* authorisation it holds passes decodeAuth.                                      *)
THEOREM Calm == Spec => []NoFalseAlarm
<1>1. IInv => NoFalseAlarm
  <2> SUFFICES ASSUME IInv, epoch = 0
               PROVE  /\ pc # "halt"
                      /\ \A a \in {st.auth, v.auth, v.page} \cup {b.auth : b \in back}
                                   \cup (IF boot = NoBoot THEN {} ELSE {boot.auth}) : Decodes(a)
    BY DEF NoFalseAlarm
  <2>1. pc # "halt"
    BY DEF IInv, CalmOK
  <2>2. Decodes(st.auth)
    <3>1. CASE st.height = Nil
      BY <3>1, NewDecodes DEF IInv, StateOK, NoState
    <3>2. CASE st.height # Nil
      BY <3>2, HistDecodes DEF IInv, StateOK, Tracked, Nil
    <3> QED
      BY <3>1, <3>2
  <2>3. Decodes(v.auth)
    BY WorkDecodes
  <2>4. ASSUME NEW b \in back PROVE Decodes(b.auth)
    <3>1. /\ b.auth = Schedule(Hist(b.anchor, b.next - 1), b.m) /\ b.m # NoAddr
          /\ WellFormed(b.anchor, b.before - 1) /\ b.before \in 1..MaxHeight /\ b.next \in 0..b.before
      BY FirstForkSound DEF IInv, BackOK, Tracked
    <3>2. b.next - 1 \in Int
      BY <3>1
    <3> QED
      BY <3>1, <3>2, HistDecodes
  <2>5. Decodes(v.page)
    <3>1. CASE pc # "backend"
      BY <3>1, NewDecodes DEF IInv, LocalsOK
    <3>2. CASE pc = "backend"
      <4>1. PICK b \in Progress(v.m) : TRUE
        BY <3>2 DEF IInv, LocalsOK
      <4>2. /\ b \in back /\ b.m # NoAddr /\ WellFormed(b.anchor, b.before - 1)
            /\ b.before \in 1..MaxHeight /\ b.next \in 0..b.before /\ b.next < b.before
        BY <3>2, ProgressIs DEF IInv, LocalsOK
      <4>3. v.page = Schedule(Hist(b.anchor, PageEnd(b.next, b.before - 1)), b.m)
        BY <3>2, <4>2, FirstForkSound DEF IInv, ScanOK, PageOK
      <4>4. PageEnd(b.next, b.before - 1) \in Int
        <5>1. b.next \in Nat /\ b.before - 1 \in Int /\ b.next <= b.before - 1
          BY <4>2
        <5>2. PageEnd(b.next, b.before - 1) \in b.next..(b.before - 1)
          BY <5>1, PageEndIn
        <5> QED
          BY <5>2
      <4> QED
        BY <4>2, <4>3, <4>4, HistDecodes
    <3> QED
      BY <3>1, <3>2
  <2>6. ASSUME boot # NoBoot PROVE Decodes(boot.auth)
    <3>1. /\ boot.auth = AuthOf(boot.anchor, boot.next - 1) /\ boot.next \in 0..Start
          /\ WellFormed(boot.anchor, Start - 1)
      BY <2>6, FirstForkSound DEF IInv, BootOK, Tracked
    <3>2. boot.next - 1 \in Int
      BY <3>1
    <3> QED
      BY <3>1, <3>2, HistDecodes
  <2> QED
    BY <2>1, <2>2, <2>3, <2>4, <2>5, <2>6
<1> QED
  BY <1>1, Invariance, PTL
===============================================================================
