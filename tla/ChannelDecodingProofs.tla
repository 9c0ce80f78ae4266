------------------------- MODULE ChannelDecodingProofs -------------------------
(***************************************************************************)
(* The collection of frames, the decoding of a span and the comparison     *)
(* with the commitment, for any frames, lengths, timestamps and spans.     *)
(*                                                                         *)
(* A span needs no induction over its blocks: what the encoder writes is   *)
(* given by counting (Offset, Rank), and the state of deriveBlocks is      *)
(* given by how many transactions it has derived (Progress).               *)
(***************************************************************************)
EXTENDS ChannelDecoding, FiniteSetTheorems, TLAPS

(* The facts about a frame that the proofs use. *)
LEMMA FrameType ==
  ASSUME NEW f \in Frames
  PROVE  f.n \in Nat /\ f.len \in Nat /\ f.last \in BOOLEAN /\ Time[f.src] \in Nat
BY ChannelAssumption

-------------------------------------------------------------------------------
(* The data of frames. *)

(* The numbers from 1 to n are n. *)
LEMMA IntervalCount ==
  ASSUME NEW n \in Nat
  PROVE  IsFiniteSet(1..n) /\ Cardinality(1..n) = n
BY FS_Interval

(* A frame has as many bytes as its length says. *)
LEMMA FrameBytes ==
  ASSUME NEW f \in Frames
  PROVE  IsFiniteSet({f} \X (1..f.len)) /\ Cardinality({f} \X (1..f.len)) = f.len
<1>1. IsFiniteSet({f}) /\ Cardinality({f}) = 1
  BY FS_Singleton
<1>2. f.len \in Nat
  BY FrameType
<1>3. IsFiniteSet(1..f.len) /\ Cardinality(1..f.len) = f.len
  BY <1>2, IntervalCount
<1>4. /\ IsFiniteSet({f} \X (1..f.len))
      /\ Cardinality({f} \X (1..f.len)) = Cardinality({f}) * Cardinality(1..f.len)
  BY <1>1, <1>3, FS_Product
<1> QED
  BY <1>1, <1>2, <1>3, <1>4

(* Finitely many frames have finitely many bytes. *)
LEMMA DataFinite ==
  ASSUME NEW F \in SUBSET Frames, IsFiniteSet(F)
  PROVE  IsFiniteSet(Data(F)) /\ Bytes(F) \in Nat
<1> DEFINE B(f) == {f} \X (1..f.len)
           g == [f \in F |-> B(f)]
           S == {B(f) : f \in F}
<1>a. \A f \in F : IsFiniteSet(B(f))
  BY FrameBytes
<1>b. Data(F) = UNION S
  BY DEF Data
<1> HIDE DEF B
<1>1. g \in Surjection(F, S)
  BY DEF Surjection
<1>2. IsFiniteSet(S)
  BY <1>1, FS_Surjection
<1>3. \A T \in S : IsFiniteSet(T)
  BY <1>a
<1>4. IsFiniteSet(UNION S)
  BY <1>2, <1>3, FS_UNION
<1> QED
  BY <1>b, <1>4, FS_CardinalityType DEF Bytes

(* A byte belongs to one frame. *)
LEMMA DataOf ==
  ASSUME NEW F, NEW x
  PROVE  x \in Data(F) <=> \E f \in F : \E i \in 1..f.len : x = <<f, i>>
BY DEF Data

(* More frames have no less data. *)
LEMMA BytesMonotonic ==
  ASSUME NEW F \in SUBSET Frames, IsFiniteSet(F), NEW G \in SUBSET F
  PROVE  Bytes(G) <= Bytes(F)
<1>1. Data(G) \subseteq Data(F)
  BY DataOf
<1> QED
  BY <1>1, DataFinite, FS_Subset DEF Bytes

(* A new frame adds its length. *)
LEMMA BytesAdd ==
  ASSUME NEW F \in SUBSET Frames, IsFiniteSet(F), NEW f \in Frames, f \notin F
  PROVE  Bytes(F \cup {f}) = Bytes(F) + f.len
<1> DEFINE B == {f} \X (1..f.len)
           U == Data(F) \cup B
           I == Data(F) \cap B
<1>0. \A x : x \in B <=> \E i \in 1..f.len : x = <<f, i>>
  OBVIOUS
<1>4. IsFiniteSet(B) /\ Cardinality(B) = f.len
  BY FrameBytes
<1> HIDE DEF B
<1>1. Data(F \cup {f}) = U
  BY <1>0, DataOf
<1>2. I = {}
  BY <1>0, DataOf
<1>5. IsFiniteSet(Data(F)) /\ Cardinality(Data(F)) \in Nat
  BY DataFinite DEF Bytes
<1>6. Cardinality(U) = Cardinality(Data(F)) + Cardinality(B) - Cardinality(I)
  BY <1>4, <1>5, FS_Union
<1>7. Cardinality(I) = 0
  BY <1>2, FS_EmptySet
<1>8. f.len \in Nat
  BY FrameType
<1> HIDE DEF U, I
<1> QED
  BY <1>1, <1>4, <1>5, <1>6, <1>7, <1>8 DEF Bytes

(* Frames that are taken away take their data with them. *)
LEMMA BytesDrop ==
  ASSUME NEW F \in SUBSET Frames, IsFiniteSet(F), NEW D \in SUBSET F
  PROVE  Bytes(F \ D) = Bytes(F) - Bytes(D)
<1> DEFINE M == Data(F) \ Data(D)
           I == Data(F) \cap Data(D)
<1>1. Data(F \ D) = M
  BY DataOf
<1>2. I = Data(D)
  BY DataOf
<1>3. IsFiniteSet(Data(F))
  BY DataFinite
<1>4. Cardinality(M) = Cardinality(Data(F)) - Cardinality(I)
  BY <1>3, FS_Difference
<1> HIDE DEF M, I
<1> QED
  BY <1>1, <1>2, <1>4 DEF Bytes

(* A nonempty set of natural numbers has a least element. *)
LEMMA MinLeast ==
  ASSUME NEW T \in SUBSET Nat, T # {}
  PROVE  Min(T) \in T /\ \A t \in T : Min(T) <= t
<1> DEFINE R == {p \in Nat \X Nat : p[1] < p[2]}
<1>1. IsWellFoundedOn(R, Nat)
  BY NatLessThanWellFounded, Zenon DEF OpToRel
<1>2. \A a, b \in Nat : a < b => <<a, b>> \in R
  OBVIOUS
<1> HIDE DEF R
<1>3. PICK x \in T : \A y \in T : ~(<<y, x>> \in R)
  BY <1>1, WFMin
<1>4. x \in Nat /\ \A y \in T : y \in Nat /\ ~(y < x)
  BY <1>2, <1>3
<1>5. \A y \in T : x <= y
  BY <1>4
<1> QED
  BY <1>5 DEF Min

-------------------------------------------------------------------------------
(* What holds of the frames collected. *)

\* The frames of the input: finitely many, each given to add at most once.
InputOK ==
  /\ left \subseteq Frames /\ added \subseteq Frames
  /\ IsFiniteSet(left) /\ IsFiniteSet(added)
  /\ left \cap added = {}

\* KeepsByContent, with the closing frame named.
ContentOK ==
  /\ frames = Kept(added)
  /\ \A c, d \in Closing(added) : c = d
  /\ \A f, g \in frames : f.n = g.n => f = g
  /\ \A c \in Closing(added) : end = c.n
  /\ Closing(added) = {} => end = Nil
  /\ size = Bytes(frames) /\ size <= MaxBytes

\* An assembled channel is closed and has no gap.
WholeOK ==
  result = "whole" => end # Nil /\ \A n \in 0..end : \E f \in frames : f.n = n

ChannelInv == InputOK /\ ContentOK /\ WholeOK /\ ProperAccepted

-------------------------------------------------------------------------------
(* Collecting the frames. *)

(* The frames kept are finitely many, and are of the input. *)
LEMMA KeptFinite ==
  ASSUME InputOK, ContentOK
  PROVE  frames \subseteq added /\ frames \subseteq Frames /\ IsFiniteSet(frames)
<1>1. frames \subseteq added
  BY DEF ContentOK, Kept
<1> QED
  BY <1>1, FS_Subset DEF InputOK

(* A channel is closed by a frame it keeps, and keeps nothing beyond it. *)
LEMMA Closed ==
  ASSUME InputOK, ContentOK
  PROVE  /\ end # Nil => \E c \in Closing(added) : end = c.n /\ c \in frames
         /\ end # Nil => end \in Nat /\ \A f \in frames : f.n \in 0..end
         /\ end = Nil => Closing(added) = {} /\ frames = added
<1>1. \A f \in added : f.n \in Nat
  BY FrameType DEF InputOK
<1>2. ASSUME end # Nil
      PROVE  /\ \E c \in Closing(added) : end = c.n /\ c \in frames
             /\ end \in Nat /\ \A f \in frames : f.n \in 0..end
  <2>1. PICK c \in Closing(added) : end = c.n
    BY <1>2 DEF ContentOK
  <2>2. c \in added
    BY DEF Closing
  <2>3. c \in frames
    BY <1>1, <2>1, <2>2 DEF ContentOK, Kept
  <2>4. \A f \in frames : f \in added /\ f.n <= end
    BY <2>1 DEF ContentOK, Kept
  <2> QED
    BY <1>1, <2>1, <2>2, <2>3, <2>4
<1>3. ASSUME end = Nil PROVE Closing(added) = {} /\ frames = added
  <2>1. \A c \in Closing(added) : c \in added /\ c.n = -1
    BY <1>3 DEF ContentOK, Closing, Nil
  <2>2. Closing(added) = {}
    BY <1>1, <2>1
  <2> QED
    BY <2>2 DEF ContentOK, Kept
<1> QED
  BY <1>2, <1>3

(* The size after a frame is that of the frames then kept: dropped ones are        *)
(* counted no more, and the frame itself once.                                     *)
LEMMA SizeExact ==
  ASSUME InputOK, ContentOK, NEW f \in Frames, ~Duplicate(f)
  PROVE  SizeAfter(f) = Bytes((frames \ Dropped(f)) \cup {f})
<1>1. frames \subseteq Frames /\ IsFiniteSet(frames)
  BY KeptFinite
<1>2. Dropped(f) \subseteq frames
  BY DEF Dropped
<1> DEFINE R == frames \ Dropped(f)
<1>3. R \subseteq Frames /\ IsFiniteSet(R) /\ f \notin R
  BY <1>1, FS_Difference DEF Duplicate
<1>4. Bytes(R) = Bytes(frames) - Bytes(Dropped(f))
  BY <1>1, <1>2, BytesDrop
<1>5. Bytes(R \cup {f}) = Bytes(R) + f.len
  BY <1>3, BytesAdd
<1> QED
  BY <1>4, <1>5 DEF SizeAfter, ContentOK

(* add keeps what the closing frame delimits, whenever it comes. *)
LEMMA AddContent ==
  ASSUME ChannelInv, NEW f \in Frames, Add(f)
  PROVE  InputOK' /\ ContentOK'
<1> USE DEF ChannelInv
<1>0. /\ f \in left /\ f \notin added /\ Acceptable(f)
      /\ added' = added \cup {f} /\ left' = left \ {f}
      /\ frames' = (frames \ Dropped(f)) \cup {f}
      /\ end' = IF f.last THEN f.n ELSE end
  BY DEF Add, InputOK
<1>1. InputOK'
  <2>1. IsFiniteSet(added \cup {f}) /\ IsFiniteSet(left \ {f})
    BY FS_AddElement, FS_Difference DEF InputOK
  <2> QED
    BY <1>0, <2>1 DEF InputOK
<1>2. \A g \in added' : g.n \in Nat /\ g.last \in BOOLEAN
  BY <1>1, FrameType DEF InputOK
<1>3. size' = Bytes(frames') /\ size' <= MaxBytes
  <2>1. size' = SizeAfter(f) /\ SizeAfter(f) <= MaxBytes /\ ~Duplicate(f)
    BY <1>0 DEF Add, Acceptable
  <2>2. SizeAfter(f) = Bytes((frames \ Dropped(f)) \cup {f})
    BY <2>1, SizeExact
  <2> QED
    BY <1>0, <2>1, <2>2, Zenon
<1>4. \A g, h \in frames' : g.n = h.n => g = h
  BY <1>0 DEF Acceptable, Duplicate, ContentOK
<1>5. CASE f.last
  <2>1. end = Nil
    BY <1>0, <1>5 DEF Acceptable, PastEnd
  <2>2. Closing(added) = {} /\ frames = added
    BY <2>1, Closed
  <2>3. Closing(added') = {f}
    BY <1>0, <1>5, <2>2 DEF Closing
  <2>4. Kept(added') = {g \in added' : g.n <= f.n}
    BY <2>3 DEF Kept
  <2>5. frames' = Kept(added')
    <3>1. Dropped(f) = {g \in added : g.n > f.n}
      BY <1>5, <2>2 DEF Dropped
    <3>2. \A g \in added' : g.n > f.n <=> ~(g.n <= f.n)
      <4> TAKE g \in added'
      <4>1. g.n \in Nat /\ f.n \in Nat
        BY <1>0, <1>2
      <4> QED
        BY <4>1
    <3>a. f.n <= f.n
      BY <1>0, <1>2
    <3>3. \A g : g \in frames' <=> g \in Kept(added')
      BY <1>0, <2>2, <2>4, <3>1, <3>2, <3>a
    <3> QED
      BY <3>3
  <2> QED
    BY <1>0, <1>1, <1>3, <1>4, <1>5, <2>3, <2>5 DEF ContentOK
<1>6. CASE ~f.last
  <2>1. Closing(added') = Closing(added)
    BY <1>0, <1>6 DEF Closing
  <2>2. \A c \in Closing(added) : f.n <= c.n
    <3> TAKE c \in Closing(added)
    <3>1. c \in added /\ end = c.n /\ c.n \in Nat
      BY <1>0, <1>2 DEF Closing, ContentOK
    <3> QED
      BY <1>0, <1>2, <3>1 DEF Acceptable, PastEnd, Nil
  <2>3. frames' = Kept(added')
    BY <1>0, <1>6, <2>1, <2>2 DEF Kept, Dropped, ContentOK
  <2> QED
    BY <1>0, <1>1, <1>3, <1>4, <1>6, <2>1, <2>3 DEF ContentOK
<1> QED
  BY <1>5, <1>6

(* Frames of a proper input are never refused, and what they give is neither too   *)
(* large nor, when it is closed and has as many frames as numbers, without one.    *)
LEMMA ProperFits ==
  ASSUME ChannelInv, Proper(left \cup added), NEW f \in left
  PROVE  Acceptable(f)
<1> USE DEF ChannelInv
<1>0. /\ f \in Frames /\ f \notin added /\ f.n \in Nat
      /\ \A g \in added : g \in Frames /\ g.n \in Nat
      /\ frames \subseteq added
  BY FrameType, KeptFinite DEF InputOK
<1>1. ~Duplicate(f)
  BY <1>0 DEF Duplicate, Proper
<1>2. ~PastEnd(f)
  <2> SUFFICES ASSUME end # Nil, f.last \/ f.n >= end PROVE FALSE
    BY DEF PastEnd
  <2>1. PICK c \in Closing(added) : end = c.n
    BY Closed
  <2>2. c \in added /\ c \in Closing(left \cup added)
    BY DEF Closing
  <2>3. f.n <= c.n
    BY <2>2 DEF Proper
  <2>4. f.last => c.n <= f.n
    <3> SUFFICES ASSUME f.last PROVE c.n <= f.n
      OBVIOUS
    <3>1. f \in Closing(left \cup added)
      BY DEF Closing
    <3> QED
      BY <2>2, <3>1 DEF Proper
  <2>5. f.n = c.n
    BY <1>0, <2>1, <2>2, <2>3, <2>4
  <2> QED
    BY <1>0, <2>2, <2>5 DEF Proper
<1>3. SizeAfter(f) <= MaxBytes
  <2> DEFINE K == (frames \ Dropped(f)) \cup {f}
             A == left \cup added
  <2>1. SizeAfter(f) = Bytes(K)
    BY <1>0, <1>1, SizeExact
  <2>2. K \subseteq A /\ A \subseteq Frames
    BY <1>0 DEF InputOK
  <2>3. IsFiniteSet(A)
    BY FS_Union DEF InputOK
  <2> HIDE DEF K, A
  <2>4. Bytes(K) <= Bytes(A) /\ Bytes(A) \in Nat /\ IsFiniteSet(K)
    BY <2>2, <2>3, BytesMonotonic, DataFinite, FS_Subset
  <2>5. Bytes(K) \in Nat
    BY <2>2, <2>4, DataFinite
  <2>6. Bytes(A) <= MaxBytes
    BY DEF Proper, A
  <2> QED
    BY <2>1, <2>4, <2>5, <2>6, ChannelAssumption
<1> QED
  BY <1>1, <1>2, <1>3 DEF Acceptable

(* A closed channel has as many frames as numbers exactly when it has no gap. *)
LEMMA CountIsCoverage ==
  ASSUME InputOK, ContentOK, end # Nil
  PROVE  Ready <=> \A n \in 0..end : \E f \in frames : f.n = n
<1> DEFINE num == [f \in frames |-> f.n]
<1>1. end \in Nat /\ \A f \in frames : f.n \in 0..end
  BY Closed
<1>2. num \in Injection(frames, 0..end)
  BY <1>1 DEF Injection, IsInjective, ContentOK
<1>3. IsFiniteSet(0..end) /\ Cardinality(0..end) = end + 1
  BY <1>1, FS_Interval
<1>4. Cardinality(frames) = Cardinality(0..end) <=> num \in Surjection(frames, 0..end)
  BY <1>2, <1>3, FS_Injection
<1>5. num \in Surjection(frames, 0..end) <=> \A n \in 0..end : \E f \in frames : f.n = n
  BY <1>1 DEF Surjection
<1> QED
  BY <1>3, <1>4, <1>5 DEF Ready

(* Every step of DecodeChannels preserves the channel's invariant. *)
LEMMA ChannelOK == ASSUME ChannelInv, ChannelNext PROVE ChannelInv'
<1>1. ASSUME NEW f \in Frames, Add(f) PROVE ChannelInv'
  <2>1. InputOK' /\ ContentOK'
    BY <1>1, AddContent
  <2>2. result' = "adding"
    BY <1>1 DEF Add
  <2> QED
    BY <2>1, <2>2 DEF ChannelInv, WholeOK, ProperAccepted
<1>2. ASSUME NEW f \in Frames, Refuse(f) PROVE ChannelInv'
  <2>1. ~Proper(left \cup added)
    BY <1>2, ProperFits DEF Refuse
  <2>2. ~Proper(left' \cup added')
    BY <1>2, <2>1 DEF Refuse
  <2> QED
    BY <1>2, <2>2 DEF Refuse, ChannelInv, InputOK, ContentOK, WholeOK, ProperAccepted
<1>3. CASE Decode
  <2>0. InputOK /\ ContentOK
    BY DEF ChannelInv
  <2>1. InputOK' /\ ContentOK'
    BY <1>3, <2>0 DEF Decode, InputOK, ContentOK
  <2>2. result' # "error"
    <3>1. Ready => \A n \in 0..end : \E f \in frames : f.n = n
      BY <2>0, CountIsCoverage DEF Ready
    <3> QED
      BY <1>3, <3>1 DEF Decode
  <2>3. result' = "whole" => end # Nil /\ \A n \in 0..end : \E f \in frames : f.n = n
    BY <1>3 DEF Decode, Ready
  <2>4. ASSUME result' = "partial", NEW c \in Closing(added)
        PROVE  \E n \in 0..c.n : \A f \in added : f.n # n
    <3>1. end = c.n /\ c \in added
      BY <2>0 DEF ContentOK, Closing
    <3>2. end \in Nat
      BY <2>0, <3>1, FrameType DEF InputOK
    <3>3. ~Ready
      BY <1>3, <2>4 DEF Decode
    <3>4. PICK n \in 0..end : \A f \in frames : f.n # n
      BY <2>0, <3>2, <3>3, CountIsCoverage DEF Nil
    <3>5. \A f \in added : f.n = n => f \in frames
      BY <2>0, <3>1, <3>2, <3>4 DEF ContentOK, Kept
    <3> QED
      BY <3>1, <3>4, <3>5
  <2>5. WholeOK'
    BY <1>3, <2>3 DEF WholeOK, Decode
  <2>6. ProperAccepted'
    BY <1>3, <2>2, <2>4 DEF ProperAccepted, Decode
  <2> QED
    BY <2>1, <2>5, <2>6 DEF ChannelInv
<1> QED
  BY <1>1, <1>2, <1>3 DEF ChannelNext

(* No frames have no data. *)
LEMMA NoBytes == Data({}) = {} /\ Bytes({}) = 0
<1>1. Data({}) = {}
  BY DEF Data
<1> QED
  BY <1>1, FS_EmptySet DEF Bytes

-------------------------------------------------------------------------------
(* Counting. *)

(* Appending to a sequence gives one that is longer by an element ... *)
LEMMA AppendLonger ==
  \A s, t, e : s \in Seq(Range(s)) /\ t = Append(s, e) =>
    /\ t \in Seq(Range(t))
    /\ DOMAIN t = 1..(Len(s) + 1)
    /\ t[Len(s) + 1] = e
<1> SUFFICES ASSUME NEW s, NEW t, NEW e, s \in Seq(Range(s)), t = Append(s, e)
             PROVE  /\ t \in Seq(Range(t))
                    /\ DOMAIN t = 1..(Len(s) + 1)
                    /\ t[Len(s) + 1] = e
  BY Zenon
<1> DEFINE S == Range(s) \cup {e}
<1>1. s \in Seq(S)
  OBVIOUS
<1> HIDE DEF S
<1>2. e \in S
  BY DEF S
<1>3. t \in Seq(S) /\ Len(t) = Len(s) + 1 /\ t[Len(s) + 1] = e
  BY <1>1, <1>2
<1>4. \A i \in 1..Len(t) : t[i] \in Range(t)
  BY <1>3 DEF Range
<1> QED
  BY <1>3, <1>4

(* ... and leaves the others where they are. *)
LEMMA AppendKeeps ==
  \A s, t, e : s \in Seq(Range(s)) /\ t = Append(s, e) => \A i \in 1..Len(s) : t[i] = s[i]
<1> SUFFICES ASSUME NEW s, NEW t, NEW e, s \in Seq(Range(s)), t = Append(s, e)
             PROVE  \A i \in 1..Len(s) : t[i] = s[i]
  OBVIOUS
<1>1. s \in Seq(Range(s) \cup {e})
  OBVIOUS
<1> QED
  BY <1>1

\* S is a set of positions up to n.
Positions(S, n) == n \in Nat /\ \A j \in S : j \in 1..n

(* Positions are numbers. *)
LEMMA PositionType ==
  ASSUME NEW n, NEW S, Positions(S, n), NEW j \in S
  PROVE  j \in Int /\ 1 <= j /\ j <= n /\ n \in Nat
BY DEF Positions

(* Positions up to n are finitely many, and so are those of them up to k. *)
LEMMA RankFinite ==
  ASSUME NEW n, NEW S, Positions(S, n), NEW k
  PROVE  /\ IsFiniteSet(S) /\ Cardinality(S) \in Nat /\ Cardinality(S) <= n
         /\ IsFiniteSet({j \in S : j <= k}) /\ Rank(S, k) \in 0..Cardinality(S)
<1>0. n \in Nat /\ S \in SUBSET (1..n)
  BY DEF Positions
<1>1. IsFiniteSet(1..n) /\ Cardinality(1..n) = n
  BY <1>0, IntervalCount
<1>2. IsFiniteSet(S) /\ Cardinality(S) <= n /\ Cardinality(S) \in Nat
  BY <1>0, <1>1, FS_Subset, FS_CardinalityType
<1> DEFINE U == {j \in S : j <= k}
<1>3. U \in SUBSET S
  OBVIOUS
<1> HIDE DEF U
<1>4. IsFiniteSet(U) /\ Cardinality(U) <= Cardinality(S) /\ Cardinality(U) \in Nat
  BY <1>2, <1>3, FS_Subset, FS_CardinalityType
<1> QED
  BY <1>0, <1>2, <1>4 DEF U, Rank

(* Counting starts at 0 and ends at all of them. *)
LEMMA RankEnds ==
  ASSUME NEW n, NEW S, Positions(S, n)
  PROVE  Rank(S, 0) = 0 /\ Rank(S, n) = Cardinality(S)
<1>0. \A j \in S : j \in Int /\ 1 <= j /\ j <= n
  BY PositionType
<1>a. \A j \in S : ~(j <= 0)
  BY <1>0
<1>1. {j \in S : j <= 0} = {}
  BY <1>a, Zenon
<1>2. {j \in S : j <= n} = S
  <2>1. \A j : j \in {i \in S : i <= n} <=> j \in S
    BY <1>0, Zenon
  <2> QED
    BY <2>1, Zenon
<1> QED
  BY <1>1, <1>2, FS_EmptySet DEF Rank

(* A position counts if it is in the set. *)
LEMMA RankStep ==
  ASSUME NEW n, NEW S, Positions(S, n), NEW k \in Nat
  PROVE  Rank(S, k + 1) = Rank(S, k) + (IF k + 1 \in S THEN 1 ELSE 0)
<1> DEFINE U == {j \in S : j <= k}
<1>0. \A j \in S : j <= k + 1 <=> (j <= k \/ j = k + 1)
  BY PositionType
<1>1. IsFiniteSet(U) /\ Rank(S, k) = Cardinality(U) /\ Cardinality(U) \in Nat
  BY RankFinite DEF Rank
<1>2. CASE k + 1 \in S
  <2>1. {j \in S : j <= k + 1} = U \cup {k + 1}
    BY <1>0, <1>2, Zenon
  <2>3. k + 1 \notin U
    OBVIOUS
  <2> HIDE DEF U
  <2>2. Cardinality(U \cup {k + 1}) = Cardinality(U) + 1
    BY <1>1, <2>3, FS_AddElement
  <2>4. Rank(S, k + 1) = Cardinality(U) + 1
    BY <2>1, <2>2, Zenon DEF Rank
  <2> QED
    BY <1>1, <1>2, <2>4
<1>3. CASE k + 1 \notin S
  <2>1. {j \in S : j <= k + 1} = U
    BY <1>0, <1>3, Zenon
  <2> HIDE DEF U
  <2>2. Rank(S, k + 1) = Cardinality(U)
    BY <2>1, Zenon DEF Rank
  <2> QED
    BY <1>1, <1>3, <2>2
<1> QED
  BY <1>2, <1>3

(* A later position of the set has a higher rank. *)
LEMMA RankMonotonic ==
  ASSUME NEW n, NEW S, Positions(S, n), NEW j \in S, NEW k \in S, j < k
  PROVE  Rank(S, j) < Rank(S, k)
<1> DEFINE U == {i \in S : i <= j}
           V == {i \in S : i <= k}
<1>0. \A i \in S : i <= j => i <= k
  BY PositionType
<1>a. k <= k /\ ~(k <= j)
  BY PositionType
<1>1. U \in SUBSET V /\ V # U
  BY <1>0, <1>a, Zenon
<1>2. /\ IsFiniteSet(U) /\ Rank(S, j) = Cardinality(U) /\ Cardinality(U) \in Nat
      /\ IsFiniteSet(V) /\ Rank(S, k) = Cardinality(V) /\ Cardinality(V) \in Nat
  BY RankFinite DEF Rank
<1> HIDE DEF U, V
<1>3. Cardinality(U) <= Cardinality(V) /\ Cardinality(V) # Cardinality(U)
  BY <1>1, <1>2, FS_Subset, Zenon
<1> QED
  BY <1>2, <1>3

(* The rank of a member finds it again. *)
LEMMA NthRank ==
  ASSUME NEW n, NEW S, Positions(S, n), NEW k \in S
  PROVE  Rank(S, k) \in 1..Cardinality(S) /\ Nth(S, Rank(S, k)) = k
<1>1. Rank(S, k) \in 1..Cardinality(S)
  <2>1. /\ Cardinality(S) \in Nat
        /\ Rank(S, k - 1) \in 0..Cardinality(S) /\ Rank(S, k) \in 0..Cardinality(S)
    BY RankFinite
  <2>2. k - 1 \in Nat /\ k - 1 + 1 = k
    BY PositionType
  <2>3. Rank(S, k) = Rank(S, k - 1) + 1
    BY <2>2, RankStep
  <2> QED
    BY <2>1, <2>3
<1>2. ASSUME NEW j \in S, Rank(S, j) = Rank(S, k) PROVE j = k
  <2>1. Rank(S, k) \in Int /\ j \in Int /\ k \in Int
    BY <1>1, PositionType
  <2>2. ~(j < k)
    BY <1>2, <2>1, RankMonotonic
  <2>3. ~(k < j)
    BY <1>2, <2>1, RankMonotonic
  <2> QED
    BY <2>1, <2>2, <2>3
<1> QED
  BY <1>1, <1>2 DEF Nth

-------------------------------------------------------------------------------
(* The transactions of blocks one after another. *)
PlacesBefore(B, i) == UNION {{j} \X DOMAIN B[j] : j \in 1..(i - 1)}

(* A place names one transaction of one block. *)
LEMMA PlaceOf ==
  ASSUME NEW B, NEW i, NEW x
  PROVE  x \in PlacesBefore(B, i) <=> \E j \in 1..(i - 1) : \E k \in DOMAIN B[j] : x = <<j, k>>
BY DEF PlacesBefore

(* They are finitely many. *)
LEMMA PlacesFinite ==
  ASSUME NEW B \in Seq(Seq(Transactions)), NEW i \in 1..(Len(B) + 1)
  PROVE  IsFiniteSet(PlacesBefore(B, i)) /\ Offset(B, i) = Cardinality(PlacesBefore(B, i))
         /\ Offset(B, i) \in Nat
<1> DEFINE P(j) == {j} \X DOMAIN B[j]
           g == [j \in 1..(i - 1) |-> P(j)]
           S == {P(j) : j \in 1..(i - 1)}
<1>1. \A j \in 1..(i - 1) : IsFiniteSet(P(j))
  <2> TAKE j \in 1..(i - 1)
  <2>1. B[j] \in Seq(Transactions)
    OBVIOUS
  <2>2. DOMAIN B[j] = 1..Len(B[j]) /\ Len(B[j]) \in Nat
    BY <2>1
  <2>a. IsFiniteSet(1..Len(B[j]))
    BY <2>2, IntervalCount, Zenon
  <2>3. IsFiniteSet(DOMAIN B[j]) /\ IsFiniteSet({j})
    BY <2>a, <2>2, FS_Singleton, Zenon
  <2> QED
    BY <2>3, FS_Product
<1>2. IsFiniteSet(1..(i - 1))
  BY FS_Interval
<1>3. PlacesBefore(B, i) = UNION S
  BY DEF PlacesBefore
<1> HIDE DEF P
<1>4. g \in Surjection(1..(i - 1), S)
  BY DEF Surjection
<1>5. IsFiniteSet(S)
  BY <1>2, <1>4, FS_Surjection
<1>6. \A T \in S : IsFiniteSet(T)
  BY <1>1
<1>7. IsFiniteSet(UNION S)
  BY <1>5, <1>6, FS_UNION
<1> QED
  BY <1>3, <1>7, FS_CardinalityType DEF Offset, PlacesBefore

(* A block's transactions come after those of the blocks before it. *)
LEMMA OffsetStep ==
  ASSUME NEW B \in Seq(Seq(Transactions)), NEW i \in DOMAIN B
  PROVE  Offset(B, i + 1) = Offset(B, i) + Len(B[i])
<1> DEFINE P == PlacesBefore(B, i)
           Q == {i} \X DOMAIN B[i]
           U == P \cup Q
           I == P \cap Q
<1>0. i \in 1..Len(B) /\ i \in 1..(Len(B) + 1) /\ i + 1 \in 1..(Len(B) + 1) /\ Len(B) \in Nat
  OBVIOUS
<1>1. IsFiniteSet(P) /\ Offset(B, i) = Cardinality(P) /\ Offset(B, i) \in Nat
  BY <1>0, PlacesFinite
<1>2. IsFiniteSet(Q) /\ Cardinality(Q) = Len(B[i])
  <2>1. B[i] \in Seq(Transactions)
    OBVIOUS
  <2>2. DOMAIN B[i] = 1..Len(B[i]) /\ Len(B[i]) \in Nat
    BY <2>1
  <2>a. IsFiniteSet(1..Len(B[i])) /\ Cardinality(1..Len(B[i])) = Len(B[i])
    BY <2>2, IntervalCount, Zenon
  <2>3. IsFiniteSet(DOMAIN B[i]) /\ Cardinality(DOMAIN B[i]) = Len(B[i])
    BY <2>a, <2>2, Zenon
  <2>4. IsFiniteSet({i}) /\ Cardinality({i}) = 1
    BY FS_Singleton
  <2>5. IsFiniteSet(Q) /\ Cardinality(Q) = Cardinality({i}) * Cardinality(DOMAIN B[i])
    BY <2>3, <2>4, FS_Product
  <2> QED
    BY <2>2, <2>3, <2>4, <2>5
<1>3. \A x : x \in Q <=> \E k \in DOMAIN B[i] : x = <<i, k>>
  OBVIOUS
<1> HIDE DEF Q
<1>4. PlacesBefore(B, i + 1) = U
  <2>1. 1..(i + 1 - 1) = (1..(i - 1)) \cup {i}
    BY <1>0
  <2> QED
    BY <1>3, <2>1, PlaceOf
<1>5. I = {}
  <2> SUFFICES ASSUME NEW x \in P, x \in Q PROVE FALSE
    OBVIOUS
  <2>1. PICK j \in 1..(i - 1) : \E k \in DOMAIN B[j] : x = <<j, k>>
    BY PlaceOf
  <2>2. PICK k : x = <<i, k>>
    BY <1>3
  <2> QED
    BY <1>0, <2>1, <2>2
<1>6. Cardinality(U) = Cardinality(P) + Cardinality(Q) - Cardinality(I)
  BY <1>1, <1>2, FS_Union
<1>7. Cardinality(I) = 0
  BY <1>5, FS_EmptySet
<1>8. Offset(B, i + 1) = Cardinality(U)
  BY <1>0, <1>4, PlacesFinite
<1>9. Len(B[i]) \in Nat
  OBVIOUS
<1> HIDE DEF U, I, P
<1> QED
  BY <1>1, <1>2, <1>6, <1>7, <1>8, <1>9

(* No less comes before a later block. *)
LEMMA OffsetMonotonic ==
  ASSUME NEW B \in Seq(Seq(Transactions)),
         NEW i \in 1..(Len(B) + 1), NEW j \in 1..(Len(B) + 1), i <= j
  PROVE  Offset(B, i) <= Offset(B, j)
<1>1. PlacesBefore(B, i) \subseteq PlacesBefore(B, j)
  <2>1. 1..(i - 1) \subseteq 1..(j - 1)
    OBVIOUS
  <2> QED
    BY <2>1, PlaceOf
<1> QED
  BY <1>1, PlacesFinite, FS_Subset

(* Nothing comes before the first block. *)
LEMMA OffsetFirst == ASSUME NEW B \in Seq(Seq(Transactions)) PROVE Offset(B, 1) = 0
<1>1. 1 - 1 = 0 /\ 1..0 = {}
  OBVIOUS
<1>2. PlacesBefore(B, 1) = {}
  BY <1>1, PlaceOf
<1>3. 1 \in 1..(Len(B) + 1)
  OBVIOUS
<1> QED
  BY <1>2, <1>3, PlacesFinite, FS_EmptySet

(* Each transaction of each block is where its block's offset says. *)
LEMMA TxsPlace ==
  ASSUME NEW B \in Seq(Seq(Transactions)), NEW i \in DOMAIN B, NEW k \in DOMAIN B[i]
  PROVE  /\ Offset(B, i) + k \in 1..Offset(B, Len(B) + 1)
         /\ Txs(B)[Offset(B, i) + k] = B[i][k]
<1> DEFINE p == Offset(B, i) + k
<1>0. /\ i \in 1..Len(B) /\ i + 1 \in 1..(Len(B) + 1) /\ i \in 1..(Len(B) + 1)
      /\ Len(B) \in Nat /\ Len(B) + 1 \in 1..(Len(B) + 1)
      /\ k \in 1..Len(B[i]) /\ Len(B[i]) \in Nat
  OBVIOUS
<1>1. /\ Offset(B, i) \in Nat /\ Offset(B, i + 1) \in Nat /\ Offset(B, Len(B) + 1) \in Nat
      /\ Offset(B, i + 1) = Offset(B, i) + Len(B[i])
      /\ Offset(B, i + 1) <= Offset(B, Len(B) + 1)
  BY <1>0, PlacesFinite, OffsetStep, OffsetMonotonic
<1>2. p \in 1..Offset(B, Len(B) + 1) /\ Offset(B, i) < p /\ p <= Offset(B, i + 1)
  BY <1>0, <1>1
<1>3. ASSUME NEW j \in DOMAIN B, Offset(B, j) < p, p <= Offset(B, j + 1) PROVE j = i
  <2>0. j \in 1..Len(B) /\ j \in 1..(Len(B) + 1) /\ j + 1 \in 1..(Len(B) + 1)
    BY <1>0
  <2>1. Offset(B, j) \in Nat /\ Offset(B, j + 1) \in Nat
    BY <2>0, PlacesFinite
  <2>2. CASE j < i
    <3>1. Offset(B, j + 1) <= Offset(B, i)
      BY <1>0, <2>0, <2>2, OffsetMonotonic
    <3> QED
      BY <1>1, <1>2, <1>3, <2>1, <3>1
  <2>3. CASE i < j
    <3>1. Offset(B, i + 1) <= Offset(B, j)
      BY <1>0, <2>0, <2>3, OffsetMonotonic
    <3> QED
      BY <1>1, <1>2, <1>3, <2>1, <3>1
  <2> QED
    BY <1>0, <2>0, <2>2, <2>3
<1>4. (CHOOSE j \in DOMAIN B : Offset(B, j) < p /\ p <= Offset(B, j + 1)) = i
  BY <1>2, <1>3
<1>5. p - Offset(B, i) = k
  BY <1>0, <1>1
<1>6. Txs(B)[p] = B[CHOOSE j \in DOMAIN B : Offset(B, j) < p /\ p <= Offset(B, j + 1)]
                   [p - Offset(B, CHOOSE j \in DOMAIN B : Offset(B, j) < p /\ p <= Offset(B, j + 1))]
  BY <1>2 DEF Txs
<1> QED
  BY <1>2, <1>4, <1>5, <1>6

-------------------------------------------------------------------------------
(* The stream of a span. *)

\* s is a sequence.
IsSeq(s) == s \in Seq(Range(s))

(* A function on 1..n is a sequence. *)
LEMMA FunctionSeq ==
  ASSUME NEW n \in Nat, NEW s, s = [i \in 1..n |-> s[i]]
  PROVE  IsSeq(s) /\ Len(s) = n
<1>1. \A i \in 1..n : s[i] \in Range(s)
  BY DEF Range
<1>2. s \in [1..n -> Range(s)]
  BY <1>1
<1>3. s \in Seq(Range(s))
  BY <1>2
<1>4. DOMAIN s = 1..n
  OBVIOUS
<1> QED
  BY <1>3, <1>4 DEF IsSeq

(* What a sequence is. *)
LEMMA SeqFunction ==
  ASSUME NEW s, IsSeq(s)
  PROVE  Len(s) \in Nat /\ DOMAIN s = 1..Len(s) /\ s = [i \in 1..Len(s) |-> s[i]]
BY DEF IsSeq

(* One sequence after another. *)
LEMMA ConcatParts ==
  ASSUME NEW s, NEW t, IsSeq(s), IsSeq(t)
  PROVE  /\ IsSeq(s \o t) /\ Len(s \o t) = Len(s) + Len(t)
         /\ \A i \in 1..Len(s) : (s \o t)[i] = s[i]
         /\ \A i \in 1..Len(t) : (s \o t)[Len(s) + i] = t[i]
<1> DEFINE S == Range(s) \cup Range(t)
           u == s \o t
<1>1. s \in Seq(S) /\ t \in Seq(S)
  BY DEF IsSeq
<1> HIDE DEF S
<1>2. /\ u \in Seq(S) /\ Len(u) = Len(s) + Len(t)
      /\ \A i \in 1..Len(s) : u[i] = s[i]
      /\ \A i \in 1..Len(t) : u[Len(s) + i] = t[i]
  BY <1>1
<1> HIDE DEF u
<1>3. IsSeq(u)
  BY <1>2, FunctionSeq
<1> QED
  BY <1>2, <1>3 DEF u

\* u is s followed by t.
Joins(u, s, t) == u = s \o t

(* The parts of a joined sequence, by position. *)
LEMMA ConcatSeq ==
  ASSUME NEW s, NEW t, NEW u, NEW m \in Nat, NEW n \in Nat,
         IsSeq(s), IsSeq(t), Len(s) = m, Len(t) = n, Joins(u, s, t)
  PROVE  /\ IsSeq(u) /\ Len(u) = m + n
         /\ \A i \in 1..m : u[i] = s[i]
         /\ \A i \in 1..n : u[m + i] = t[i]
<1> DEFINE w == s \o t
<1>1. /\ IsSeq(w) /\ Len(w) = Len(s) + Len(t)
      /\ \A i \in 1..Len(s) : w[i] = s[i]
      /\ \A i \in 1..Len(t) : w[Len(s) + i] = t[i]
  BY ConcatParts
<1>2. u = w
  BY DEF Joins
<1> HIDE DEF w
<1> QED
  BY <1>1, <1>2

(* A column has one item for each transaction of its set, at its rank. *)
LEMMA ColumnItems ==
  ASSUME NEW n, NEW S, Positions(S, n), NEW f, NEW v
  PROVE  /\ IsSeq(Column(f, S, v)) /\ Len(Column(f, S, v)) = Cardinality(S)
         /\ \A k \in S : Column(f, S, v)[Rank(S, k)].x = v[k]
<1> DEFINE c == Column(f, S, v)
<1>1. Cardinality(S) \in Nat
  BY RankFinite
<1>2. c = [r \in 1..Cardinality(S) |-> c[r]]
  BY DEF Column
<1>3. \A r \in 1..Cardinality(S) : c[r].x = v[Nth(S, r)]
  BY DEF Column
<1> HIDE DEF c
<1>4. IsSeq(c) /\ Len(c) = Cardinality(S)
  BY <1>1, <1>2, FunctionSeq
<1>5. ASSUME NEW k \in S PROVE c[Rank(S, k)].x = v[k]
  BY <1>3, NthRank
<1> QED
  BY <1>4, <1>5 DEF c

(* ... and of a column that all transactions have, the k-th is that of the k-th. *)
LEMMA WholeColumn ==
  ASSUME NEW n \in Nat, NEW f, NEW v
  PROVE  /\ IsSeq(Column(f, 1..n, v)) /\ Len(Column(f, 1..n, v)) = n
         /\ \A k \in 1..n : Column(f, 1..n, v)[k].x = v[k]
<1>1. Positions(1..n, n)
  BY DEF Positions
<1>2. Cardinality(1..n) = n
  BY IntervalCount
<1>3. \A k \in 1..n : Rank(1..n, k) = k
  <2> TAKE k \in 1..n
  <2>1. {j \in 1..n : j <= k} = 1..k
    OBVIOUS
  <2>2. Cardinality(1..k) = k
    BY IntervalCount
  <2> QED
    BY <2>1, <2>2, Zenon DEF Rank
<1> QED
  BY <1>1, <1>2, <1>3, ColumnItems

(* The transactions with a target, a protected bit, an origin are positions. *)
LEMMA TxSets ==
  ASSUME NEW B \in Seq(Seq(Transactions))
  PROVE  LET T == Txs(B)
             n == Offset(B, Len(B) + 1)
         IN  /\ n \in Nat /\ DOMAIN T = 1..n
             /\ Positions(Calls(T), n) /\ Positions(Legacies(T), n) /\ Positions(Deposits(T), n)
<1>1. Len(B) + 1 \in 1..(Len(B) + 1)
  OBVIOUS
<1>2. Offset(B, Len(B) + 1) \in Nat
  BY <1>1, PlacesFinite
<1>3. DOMAIN Txs(B) = 1..Offset(B, Len(B) + 1)
  BY DEF Txs
<1> QED
  BY <1>2, <1>3 DEF Positions, Calls, Legacies, Deposits

\* Stream s holds the fields of the n transactions T.
Holds(s, T, n) ==
  LET a == Cardinality(Calls(T))
      l == Cardinality(Legacies(T))
      At(p, x) == s[p].x = x
  IN  /\ \A k \in 1..n : At(k, T[k].to = None)
      /\ \A k \in Calls(T) : At(n + Rank(Calls(T), k), T[k].to)
      /\ \A k \in 1..n : At(n + a + k, Payload(T[k]))
      /\ \A k \in Legacies(T) : At(n + a + n + Rank(Legacies(T), k), T[k].kind = "protected")
      /\ \A k \in 1..n : At(n + a + n + l + k, T[k].origin # None)
      /\ \A k \in Deposits(T) : At(n + a + n + l + n + Rank(Deposits(T), k), T[k].origin)

EncodedLen(T, n) ==
  n + Cardinality(Calls(T)) + n + Cardinality(Legacies(T)) + n + Cardinality(Deposits(T))

(* The encoder writes the fields of all transactions. *)
LEMMA EncodeHolds ==
  ASSUME NEW B \in Seq(Seq(Transactions))
  PROVE  LET n == Offset(B, Len(B) + 1)
         IN  /\ IsSeq(Encode(B)) /\ Len(Encode(B)) = EncodedLen(Txs(B), n)
             /\ Holds(Encode(B), Txs(B), n)
<1> DEFINE T == Txs(B)
           n == Offset(B, Len(B) + 1)
           v1 == [k \in 1..n |-> T[k].to = None]
           v2 == [k \in 1..n |-> T[k].to]
           v3 == [k \in 1..n |-> Payload(T[k])]
           v4 == [k \in 1..n |-> T[k].kind = "protected"]
           v5 == [k \in 1..n |-> T[k].origin # None]
           v6 == [k \in 1..n |-> T[k].origin]
           c1 == Column("creation", 1..n, v1)
           c2 == Column("to", Calls(T), v2)
           c3 == Column("payload", 1..n, v3)
           c4 == Column("protected", Legacies(T), v4)
           c5 == Column("queue", 1..n, v5)
           c6 == Column("origin", Deposits(T), v6)
           a == Cardinality(Calls(T))
           l == Cardinality(Legacies(T))
           o == Cardinality(Deposits(T))
           RC(k) == Rank(Calls(T), k)
           RL(k) == Rank(Legacies(T), k)
           RD(k) == Rank(Deposits(T), k)
<1>1. /\ n \in Nat /\ DOMAIN T = 1..n
      /\ Positions(Calls(T), n) /\ Positions(Legacies(T), n) /\ Positions(Deposits(T), n)
  BY TxSets
<1>2. Encode(B) = c1 \o c2 \o c3 \o c4 \o c5 \o c6
  BY <1>1, Zenon DEF Encode
<1> HIDE DEF n, T
<1>3. /\ \A k \in 1..n : v1[k] = (T[k].to = None) /\ v2[k] = T[k].to
      /\ \A k \in 1..n : v3[k] = Payload(T[k]) /\ v4[k] = (T[k].kind = "protected")
      /\ \A k \in 1..n : v5[k] = (T[k].origin # None) /\ v6[k] = T[k].origin
  OBVIOUS
<1> HIDE DEF v1, v2, v3, v4, v5, v6
<1>4. /\ IsSeq(c1) /\ Len(c1) = n /\ \A k \in 1..n : c1[k].x = v1[k]
      /\ IsSeq(c3) /\ Len(c3) = n /\ \A k \in 1..n : c3[k].x = v3[k]
      /\ IsSeq(c5) /\ Len(c5) = n /\ \A k \in 1..n : c5[k].x = v5[k]
  BY <1>1, WholeColumn
<1>b. IsSeq(c2) /\ Len(c2) = a /\ \A k \in Calls(T) : c2[RC(k)].x = v2[k]
  BY <1>1, ColumnItems
<1>c. IsSeq(c4) /\ Len(c4) = l /\ \A k \in Legacies(T) : c4[RL(k)].x = v4[k]
  BY <1>1, ColumnItems
<1>d. IsSeq(c6) /\ Len(c6) = o /\ \A k \in Deposits(T) : c6[RD(k)].x = v6[k]
  BY <1>1, ColumnItems
<1>6. /\ a \in Nat /\ \A k \in Calls(T) : k \in 1..n /\ RC(k) \in 1..a
      /\ l \in Nat /\ \A k \in Legacies(T) : k \in 1..n /\ RL(k) \in 1..l
      /\ o \in Nat /\ \A k \in Deposits(T) : k \in 1..n /\ RD(k) \in 1..o
  <2>1. a \in Nat /\ l \in Nat /\ o \in Nat
    BY <1>1, RankFinite
  <2> QED
    BY <1>1, <2>1, NthRank DEF Positions
<1> HIDE DEF c1, c2, c3, c4, c5, c6, a, l, o, RC, RL, RD
<1> DEFINE d2 == c1 \o c2
           d3 == d2 \o c3
           d4 == d3 \o c4
           d5 == d4 \o c5
           d6 == d5 \o c6
<1>12. Encode(B) = d6
  BY <1>2
<1>a. /\ Joins(d2, c1, c2) /\ Joins(d3, d2, c3) /\ Joins(d4, d3, c4)
      /\ Joins(d5, d4, c5) /\ Joins(d6, d5, c6)
  BY DEF Joins
<1> HIDE DEF d2, d3, d4, d5, d6
<1> DEFINE e2 == n + a
           e3 == e2 + n
           e4 == e3 + l
           e5 == e4 + n
<1>e. /\ n \in Nat /\ a \in Nat /\ l \in Nat /\ o \in Nat
      /\ e2 = n + a /\ e3 = e2 + n /\ e4 = e3 + l /\ e5 = e4 + n
      /\ e2 \in Nat /\ e3 \in Nat /\ e4 \in Nat /\ e5 \in Nat
  BY <1>1, <1>6
<1> HIDE DEF e2, e3, e4, e5
<1>7. /\ IsSeq(d2) /\ Len(d2) = e2
      /\ \A i \in 1..n : d2[i] = c1[i]
      /\ \A i \in 1..a : d2[n + i] = c2[i]
  <2>1. IsSeq(c1) /\ IsSeq(c2) /\ Len(c1) = n /\ Len(c2) = a /\ Joins(d2, c1, c2)
    BY <1>a, <1>4, <1>b
  <2>2. /\ IsSeq(d2) /\ Len(d2) = n + a
        /\ \A i \in 1..n : d2[i] = c1[i]
        /\ \A i \in 1..a : d2[n + i] = c2[i]
    BY <2>1, <1>e, ConcatSeq
  <2> QED
    BY <2>2, <1>e
<1>8. /\ IsSeq(d3) /\ Len(d3) = e3
      /\ \A i \in 1..e2 : d3[i] = d2[i]
      /\ \A i \in 1..n : d3[e2 + i] = c3[i]
  <2>1. IsSeq(d2) /\ IsSeq(c3) /\ Len(d2) = e2 /\ Len(c3) = n /\ Joins(d3, d2, c3)
    BY <1>a, <1>7, <1>4
  <2>2. /\ IsSeq(d3) /\ Len(d3) = e2 + n
        /\ \A i \in 1..e2 : d3[i] = d2[i]
        /\ \A i \in 1..n : d3[e2 + i] = c3[i]
    BY <2>1, <1>e, ConcatSeq
  <2> QED
    BY <2>2, <1>e
<1>9. /\ IsSeq(d4) /\ Len(d4) = e4
      /\ \A i \in 1..e3 : d4[i] = d3[i]
      /\ \A i \in 1..l : d4[e3 + i] = c4[i]
  <2>1. IsSeq(d3) /\ IsSeq(c4) /\ Len(d3) = e3 /\ Len(c4) = l /\ Joins(d4, d3, c4)
    BY <1>a, <1>8, <1>c
  <2>2. /\ IsSeq(d4) /\ Len(d4) = e3 + l
        /\ \A i \in 1..e3 : d4[i] = d3[i]
        /\ \A i \in 1..l : d4[e3 + i] = c4[i]
    BY <2>1, <1>e, ConcatSeq
  <2> QED
    BY <2>2, <1>e
<1>10. /\ IsSeq(d5) /\ Len(d5) = e5
       /\ \A i \in 1..e4 : d5[i] = d4[i]
       /\ \A i \in 1..n : d5[e4 + i] = c5[i]
  <2>1. IsSeq(d4) /\ IsSeq(c5) /\ Len(d4) = e4 /\ Len(c5) = n /\ Joins(d5, d4, c5)
    BY <1>a, <1>9, <1>4
  <2>2. /\ IsSeq(d5) /\ Len(d5) = e4 + n
        /\ \A i \in 1..e4 : d5[i] = d4[i]
        /\ \A i \in 1..n : d5[e4 + i] = c5[i]
    BY <2>1, <1>e, ConcatSeq
  <2> QED
    BY <2>2, <1>e
<1>11. /\ IsSeq(d6) /\ Len(d6) = e5 + o
       /\ \A i \in 1..e5 : d6[i] = d5[i]
       /\ \A i \in 1..o : d6[e5 + i] = c6[i]
  <2>1. IsSeq(d5) /\ IsSeq(c6) /\ Len(d5) = e5 /\ Len(c6) = o /\ Joins(d6, d5, c6)
    BY <1>a, <1>10, <1>d
  <2>2. /\ IsSeq(d6) /\ Len(d6) = e5 + o
        /\ \A i \in 1..e5 : d6[i] = d5[i]
        /\ \A i \in 1..o : d6[e5 + i] = c6[i]
    BY <2>1, <1>e, ConcatSeq
  <2> QED
    BY <2>2, <1>e
<1>13. ASSUME NEW k \in 1..n
       PROVE  /\ d6[k].x = (T[k].to = None)
              /\ d6[e2 + k].x = Payload(T[k])
              /\ d6[e4 + k].x = (T[k].origin # None)
  <2>1. k \in 1..e2 /\ k \in 1..e3 /\ k \in 1..e4 /\ k \in 1..e5
        /\ e2 + k \in 1..e3 /\ e2 + k \in 1..e4 /\ e2 + k \in 1..e5 /\ e4 + k \in 1..e5
    BY <1>e
  <2>2. d6[k] = c1[k]
    BY <2>1, <1>7, <1>8, <1>9, <1>10, <1>11
  <2>3. d6[e2 + k] = c3[k]
    BY <2>1, <1>8, <1>9, <1>10, <1>11
  <2>4. d6[e4 + k] = c5[k]
    BY <2>1, <1>10, <1>11
  <2> QED
    BY <1>3, <1>4, <2>2, <2>3, <2>4
<1>14. ASSUME NEW k \in Calls(T) PROVE d6[n + RC(k)].x = T[k].to
  <2>1. /\ k \in 1..n /\ RC(k) \in 1..a /\ n + RC(k) \in 1..e2 /\ n + RC(k) \in 1..e3
        /\ n + RC(k) \in 1..e4 /\ n + RC(k) \in 1..e5
    BY <1>e, <1>6
  <2>2. d6[n + RC(k)] = c2[RC(k)]
    BY <2>1, <1>7, <1>8, <1>9, <1>10, <1>11
  <2> QED
    BY <2>1, <2>2, <1>3, <1>b
<1>15. ASSUME NEW k \in Legacies(T) PROVE d6[e3 + RL(k)].x = (T[k].kind = "protected")
  <2>1. k \in 1..n /\ RL(k) \in 1..l /\ e3 + RL(k) \in 1..e4 /\ e3 + RL(k) \in 1..e5
    BY <1>e, <1>6
  <2>2. d6[e3 + RL(k)] = c4[RL(k)]
    BY <2>1, <1>9, <1>10, <1>11
  <2> QED
    BY <2>1, <2>2, <1>3, <1>c
<1>16. ASSUME NEW k \in Deposits(T) PROVE d6[e5 + RD(k)].x = T[k].origin
  <2>1. k \in 1..n /\ RD(k) \in 1..o
    BY <1>6
  <2>2. d6[e5 + RD(k)] = c6[RD(k)]
    BY <2>1, <1>e, <1>11
  <2> QED
    BY <2>1, <2>2, <1>3, <1>d
<1>17. Len(d6) = EncodedLen(T, n)
  BY <1>11, <1>e DEF EncodedLen, a, l, o
<1>18. Holds(d6, T, n)
  BY <1>13, <1>14, <1>15, <1>16, Zenon DEF Holds, a, l, RC, RL, RD, e2, e3, e4, e5
<1> QED
  BY <1>11, <1>12, <1>17, <1>18, Zenon DEF T, n

-------------------------------------------------------------------------------
(* readTransactions. *)

(* What is taken of the stream. *)
LEMMA TakeItems ==
  ASSUME IsSeq(stream), NEW p \in Nat, NEW m \in Nat, p <= Len(stream)
  PROVE  LET c == Take(p, m)
             e == IF p + m <= Len(stream) THEN m ELSE Len(stream) - p
         IN  /\ Len(c) = e /\ DOMAIN c = 1..e
             /\ \A k \in 1..e : c[k] = stream[p + k]
<1> DEFINE e == IF p + m <= Len(stream) THEN m ELSE Len(stream) - p
           c == SubSeq(stream, p + 1, p + e)
<1>1. Len(stream) \in Nat /\ stream \in Seq(Range(stream))
  BY DEF IsSeq
<1>2. e \in Nat /\ p + e <= Len(stream)
  BY <1>1
<1>3. Take(p, m) = c
  BY <1>1 DEF Take
<1> HIDE DEF e
<1>4. Len(c) = e /\ DOMAIN c = 1..e /\ \A k \in 1..e : c[k] = stream[p + k]
  BY <1>1, <1>2
<1> HIDE DEF c
<1> QED
  BY <1>3, <1>4 DEF e

\* u is s, whole, with an item too many, or without its last one.
Sent(u, s) ==
  \/ u = s
  \/ \E e : u = Append(s, e)
  \/ s # <<>> /\ u = Front(s)

(* What is sent agrees with what was encoded as far as it goes, and lacks at most   *)
(* one item.                                                                        *)
LEMMA SentItems ==
  ASSUME NEW s, NEW u, IsSeq(s), Sent(u, s)
  PROVE  /\ IsSeq(u)
         /\ Len(u) + 1 >= Len(s)
         /\ Len(u) = Len(s) => u = s
         /\ \A p \in 1..Len(s) : p <= Len(u) => u[p] = s[p]
<1>0. Len(s) \in Nat /\ DOMAIN s = 1..Len(s) /\ s \in Seq(Range(s))
  BY DEF IsSeq
<1>1. CASE u = s
  BY <1>0, <1>1
<1>2. ASSUME NEW e, u = Append(s, e)
      PROVE  IsSeq(u) /\ Len(u) = Len(s) + 1 /\ \A p \in 1..Len(s) : u[p] = s[p]
  <2>1. s \in Seq(Range(s) \cup {e})
    BY <1>0
  <2>2. /\ u \in Seq(Range(s) \cup {e}) /\ Len(u) = Len(s) + 1
        /\ \A p \in 1..Len(s) : u[p] = s[p]
    BY <1>2, <2>1
  <2>3. IsSeq(u)
    BY <2>2, FunctionSeq
  <2> QED
    BY <2>2, <2>3
<1>3. ASSUME s # <<>>, u = Front(s)
      PROVE  IsSeq(u) /\ Len(u) = Len(s) - 1 /\ \A p \in 1..(Len(s) - 1) : u[p] = s[p]
  <2>1. Len(s) # 0
    BY <1>0, <1>3
  <2> DEFINE m == Len(s) - 1
  <2>2. m \in Nat /\ m <= Len(s) /\ u = SubSeq(s, 1, m)
    BY <1>0, <1>3, <2>1 DEF Front
  <2> HIDE DEF m
  <2>3. u \in Seq(Range(s)) /\ Len(u) = m /\ \A p \in 1..m : u[p] = s[p]
    BY <1>0, <2>2
  <2>4. IsSeq(u)
    BY <2>3, FunctionSeq
  <2> QED
    BY <2>3, <2>4 DEF m
<1>4. u = s \/ Len(u) = Len(s) + 1 \/ Len(u) = Len(s) - 1
  BY <1>2, <1>3 DEF Sent
<1>5. IsSeq(u)
  BY <1>1, <1>2, <1>3 DEF Sent
<1>6. \A p \in 1..Len(s) : p <= Len(u) => u[p] = s[p]
  <2> SUFFICES ASSUME NEW p \in 1..Len(s), p <= Len(u) PROVE u[p] = s[p]
    OBVIOUS
  <2>1. ASSUME NEW e, u = Append(s, e) PROVE u[p] = s[p]
    BY <1>2, <2>1
  <2>2. ASSUME s # <<>>, u = Front(s) PROVE u[p] = s[p]
    <3>1. Len(u) = Len(s) - 1 /\ \A q \in 1..(Len(s) - 1) : u[q] = s[q]
      BY <1>3, <2>2
    <3>2. p \in 1..(Len(s) - 1)
      BY <1>0, <3>1
    <3> QED
      BY <3>1, <3>2
  <2> QED
    BY <2>1, <2>2 DEF Sent
<1>7. Len(u) \in Nat
  BY <1>5, SeqFunction
<1>a. Len(s) \in Nat
  BY <1>0
<1>b. u = s => Len(u) = Len(s)
  OBVIOUS
<1>8. Len(u) + 1 >= Len(s)
  <2>1. Len(u) = Len(s) \/ Len(u) = Len(s) + 1 \/ Len(u) = Len(s) - 1
    BY <1>4, <1>b
  <2> QED
    BY <1>a, <1>7, <2>1
<1>9. Len(u) = Len(s) => u = s
  <2>1. Len(s) # Len(s) + 1 /\ Len(s) # Len(s) - 1
    BY <1>a
  <2> QED
    BY <1>4, <2>1, Zenon
<1> QED
  BY <1>5, <1>6, <1>8, <1>9

(* The counts that readTransactions derives from the bits it has read are those of  *)
(* the encoder, also if the last item is missing.                                   *)
LEMMA LayoutCounts ==
  ASSUME NEW B \in Seq(Seq(Transactions)), stream \in Streams(B)
  PROVE  LET n == Offset(B, Len(B) + 1)
             T == Txs(B)
             a == Cardinality(Calls(T))
             l == Cardinality(Legacies(T))
         IN  /\ Layout(n) =
                  [creation |-> Take(0, n), to |-> Take(n, a), payload |-> Take(n + a, n),
                   protected |-> Take(2 * n + a, l), queue |-> Take(2 * n + a + l, n),
                   origin |-> Take(3 * n + a + l, Cardinality(Deposits(T))),
                   length |-> EncodedLen(T, n)]
             /\ EncodedLen(T, n) = Len(Encode(B)) /\ IsSeq(stream)
             /\ Len(stream) = Len(Encode(B)) => stream = Encode(B)
<1> DEFINE T == Txs(B)
           n == Offset(B, Len(B) + 1)
           s == Encode(B)
           C == Calls(T)
           L == Legacies(T)
           D == Deposits(T)
           a == Cardinality(C)
           l == Cardinality(L)
           o == Cardinality(D)
           m == Len(s)
<1>1. /\ n \in Nat /\ DOMAIN T = 1..n
      /\ Positions(C, n) /\ Positions(L, n) /\ Positions(D, n)
  BY TxSets
<1>2. /\ a \in Nat /\ l \in Nat /\ o \in Nat /\ IsFiniteSet(D)
      /\ a <= n /\ l <= n /\ o <= n
  BY <1>1, RankFinite
<1>3. IsSeq(s) /\ m = EncodedLen(T, n) /\ Holds(s, T, n)
  BY EncodeHolds
<1>4. m = n + a + n + l + n + o
  BY <1>3 DEF EncodedLen
<1>5. /\ \A k \in 1..n : s[k].x = (T[k].to = None)
      /\ \A k \in 1..n : s[n + a + k].x = Payload(T[k])
      /\ \A k \in 1..n : s[n + a + n + l + k].x = (T[k].origin # None)
  BY <1>3, Zenon DEF Holds
<1>6. /\ IsSeq(stream) /\ Len(stream) + 1 >= m /\ (Len(stream) = m => stream = s)
      /\ \A p \in 1..m : p <= Len(stream) => stream[p] = s[p]
      /\ Len(stream) \in Nat
  <2>1. Sent(stream, s)
    BY Zenon DEF Streams, Sent
  <2> HIDE DEF s
  <2> QED
    BY <1>3, <2>1, SentItems, SeqFunction
<1>7. /\ C = {k \in 1..n : T[k].to # None}
      /\ L = {k \in 1..n : T[k].kind # "typed"}
      /\ D = {k \in 1..n : T[k].origin # None}
  BY <1>1, Zenon DEF Calls, Legacies, Deposits
<1> HIDE DEF T, n, s, C, L, D, a, l, o, m
<1> DEFINE cr == Take(0, n)
           pa == Take(n + a, n)
           qu == Take(2 * n + a + l, n)
<1>8. Cardinality({k \in DOMAIN cr : cr[k].x = FALSE}) = a
  <2>1. n <= Len(stream)
    BY <1>1, <1>2, <1>4, <1>6
  <2>2. DOMAIN cr = 1..n /\ \A k \in 1..n : cr[k] = stream[0 + k]
    BY <1>1, <1>6, <2>1, TakeItems
  <2>3. \A k \in 1..n : cr[k].x = (T[k].to = None)
    <3> TAKE k \in 1..n
    <3>1. k \in 1..m /\ k <= Len(stream) /\ 0 + k = k
      BY <1>1, <1>2, <1>4, <2>1
    <3> QED
      BY <1>5, <1>6, <2>2, <3>1
  <2> HIDE DEF cr
  <2>4. {k \in DOMAIN cr : cr[k].x = FALSE} = C
    BY <1>7, <2>2, <2>3
  <2> QED
    BY <2>4 DEF a
<1>9. Cardinality({k \in DOMAIN pa : pa[k].x.legacy}) = l
  <2>1. n + a + n <= Len(stream) /\ n + a \in Nat /\ n + a <= Len(stream)
    BY <1>1, <1>2, <1>4, <1>6
  <2>2. DOMAIN pa = 1..n /\ \A k \in 1..n : pa[k] = stream[n + a + k]
    BY <1>1, <1>2, <1>6, <2>1, TakeItems
  <2>3. \A k \in 1..n : pa[k].x = Payload(T[k])
    <3> TAKE k \in 1..n
    <3>1. n + a + k \in 1..m /\ n + a + k <= Len(stream)
      BY <1>1, <1>2, <1>4, <2>1
    <3> QED
      BY <1>5, <1>6, <2>2, <3>1
  <2> HIDE DEF pa
  <2>a. \A k \in 1..n : pa[k].x.legacy = (T[k].kind # "typed")
    <3>1. \A k \in 1..n : Payload(T[k]).legacy = (T[k].kind # "typed")
      BY DEF Payload
    <3> QED
      BY <2>3, <3>1, Zenon
  <2>b. {k \in DOMAIN pa : pa[k].x.legacy} = {k \in 1..n : T[k].kind # "typed"}
    BY <2>2, <2>a, Zenon
  <2>4. {k \in DOMAIN pa : pa[k].x.legacy} = L
    BY <1>7, <2>b, Zenon
  <2> QED
    BY <2>4 DEF l
<1>10. Cardinality({k \in DOMAIN qu : qu[k].x = TRUE}) = o
  <2> DEFINE z == 2 * n + a + l
             e == IF z + n <= Len(stream) THEN n ELSE Len(stream) - z
  <2>0. z = n + a + n + l /\ z \in Nat
    BY <1>1, <1>2
  <2> HIDE DEF z
  <2>1. z <= Len(stream)
    BY <1>1, <1>2, <1>4, <1>6, <2>0
  <2>2. DOMAIN qu = 1..e /\ \A k \in 1..e : qu[k] = stream[z + k]
    <3>1. qu = Take(z, n)
      BY DEF z
    <3> HIDE DEF qu
    <3> QED
      BY <1>1, <1>6, <2>0, <2>1, <3>1, TakeItems
  <2>3. e \in 0..n /\ (e # n => o = 0)
    BY <1>1, <1>2, <1>4, <1>6, <2>0, <2>1
  <2>4. \A k \in 1..e : qu[k].x = (T[k].origin # None)
    <3> TAKE k \in 1..e
    <3>1. z + k \in 1..m /\ z + k <= Len(stream) /\ k \in 1..n
      BY <1>1, <1>2, <1>4, <1>6, <2>0, <2>1
    <3> QED
      BY <1>5, <1>6, <2>0, <2>2, <3>1
  <2>5. o = 0 => D = {}
    BY <1>2, FS_EmptySet DEF o
  <2> HIDE DEF e, qu
  <2>6. {k \in DOMAIN qu : qu[k].x = TRUE} = {k \in 1..e : T[k].origin # None}
    BY <2>2, <2>4
  <2>7. {k \in 1..e : T[k].origin # None} = D
    <3>1. CASE e = n
      BY <1>7, <3>1
    <3>2. CASE e # n
      <4>1. \A k \in 1..e : k \in 1..n
        BY <1>1, <2>3
      <4> QED
        BY <1>7, <2>3, <2>5, <3>2, <4>1
    <3> QED
      BY <3>1, <3>2
  <2> QED
    BY <2>6, <2>7 DEF o
<1>11. EncodedLen(T, n) = 3 * n + a + l + o
  BY <1>1, <1>2, <1>3, <1>4
<1> HIDE DEF cr, pa, qu
<1>12. Layout(n) =
         [creation |-> Take(0, n), to |-> Take(n, a), payload |-> Take(n + a, n),
          protected |-> Take(2 * n + a, l), queue |-> Take(2 * n + a + l, n),
          origin |-> Take(3 * n + a + l, o), length |-> 3 * n + a + l + o]
  BY <1>8, <1>9, <1>10, Zenon DEF Layout, cr, pa, qu
<1> QED
  BY <1>3, <1>6, <1>11, <1>12, Zenon DEF T, n, s, C, L, D, a, l, o, m

\* The fields F are those of the n transactions T.
FieldsOf(F, T, n) ==
  /\ Len(F.payload) = n
  /\ Len(F.to) = Cardinality(Calls(T)) /\ DOMAIN F.to = 1..Cardinality(Calls(T))
  /\ Len(F.protected) = Cardinality(Legacies(T)) /\ DOMAIN F.protected = 1..Cardinality(Legacies(T))
  /\ Len(F.origin) = Cardinality(Deposits(T)) /\ DOMAIN F.origin = 1..Cardinality(Deposits(T))
  /\ \A k \in 1..n : /\ F.creation[k].x = (T[k].to = None)
                     /\ F.payload[k].x = Payload(T[k])
                     /\ F.queue[k].x = (T[k].origin # None)
  /\ \A k \in Calls(T) : F.to[Rank(Calls(T), k)].x = T[k].to
  /\ \A k \in Legacies(T) : F.protected[Rank(Legacies(T), k)].x = (T[k].kind = "protected")
  /\ \A k \in Deposits(T) : F.origin[Rank(Deposits(T), k)].x = T[k].origin

(* readTransactions reads from a whole stream the fields that were encoded. *)
LEMMA FieldsRead ==
  ASSUME NEW B \in Seq(Seq(Transactions)), stream = Encode(B), stream \in Streams(B)
  PROVE  FieldsOf(Layout(Offset(B, Len(B) + 1)), Txs(B), Offset(B, Len(B) + 1))
<1> DEFINE T == Txs(B)
           n == Offset(B, Len(B) + 1)
           C == Calls(T)
           L == Legacies(T)
           D == Deposits(T)
           a == Cardinality(C)
           l == Cardinality(L)
           o == Cardinality(D)
           F == Layout(n)
           RC(k) == Rank(C, k)
           RL(k) == Rank(L, k)
           RD(k) == Rank(D, k)
<1>1. n \in Nat /\ Positions(C, n) /\ Positions(L, n) /\ Positions(D, n)
  BY TxSets
<1>2. a \in Nat /\ l \in Nat /\ o \in Nat
  BY <1>1, RankFinite
<1>3. /\ \A k \in C : RC(k) \in 1..a
      /\ \A k \in L : RL(k) \in 1..l
      /\ \A k \in D : RD(k) \in 1..o
  BY <1>1, NthRank
<1>4. IsSeq(stream) /\ Len(stream) = EncodedLen(T, n) /\ Holds(stream, T, n)
  BY EncodeHolds, Zenon
<1>5. F = [creation |-> Take(0, n), to |-> Take(n, a), payload |-> Take(n + a, n),
           protected |-> Take(2 * n + a, l), queue |-> Take(2 * n + a + l, n),
           origin |-> Take(3 * n + a + l, o), length |-> EncodedLen(T, n)]
  BY LayoutCounts, Zenon
<1>6. /\ \A k \in 1..n : stream[k].x = (T[k].to = None)
      /\ \A k \in C : stream[n + RC(k)].x = T[k].to
      /\ \A k \in 1..n : stream[n + a + k].x = Payload(T[k])
      /\ \A k \in L : stream[n + a + n + RL(k)].x = (T[k].kind = "protected")
      /\ \A k \in 1..n : stream[n + a + n + l + k].x = (T[k].origin # None)
      /\ \A k \in D : stream[n + a + n + l + n + RD(k)].x = T[k].origin
  BY <1>4, Zenon DEF Holds
<1>7. Len(stream) = n + a + n + l + n + o
  BY <1>4 DEF EncodedLen
<1> HIDE DEF T, n, C, L, D, a, l, o, F, RC, RL, RD
<1> DEFINE c1 == Take(0, n)
           c2 == Take(n, a)
           c3 == Take(n + a, n)
           c4 == Take(2 * n + a, l)
           c5 == Take(2 * n + a + l, n)
           c6 == Take(3 * n + a + l, o)
<1>8. ASSUME NEW p \in Nat, NEW q \in Nat, p + q <= Len(stream), NEW c, c = Take(p, q)
      PROVE  Len(c) = q /\ DOMAIN c = 1..q /\ \A k \in 1..q : c[k] = stream[p + k]
  <2>1. p <= Len(stream)
    BY <1>1, <1>2, <1>7, <1>8
  <2> QED
    BY <1>4, <1>8, <2>1, TakeItems
<1>9. /\ 2 * n + a = n + a + n /\ 2 * n + a + l = n + a + n + l
      /\ 3 * n + a + l = n + a + n + l + n
  BY <1>1, <1>2
<1>10. /\ 0 + n <= Len(stream) /\ n + a <= Len(stream) /\ n + a + n <= Len(stream)
       /\ n + a + n + l <= Len(stream) /\ n + a + n + l + n <= Len(stream)
       /\ n + a + n + l + n + o <= Len(stream) /\ 0 \in Nat /\ n + a \in Nat
       /\ n + a + n \in Nat /\ n + a + n + l \in Nat /\ n + a + n + l + n \in Nat
  BY <1>1, <1>2, <1>7
<1>11. /\ c4 = Take(n + a + n, l) /\ c5 = Take(n + a + n + l, n)
       /\ c6 = Take(n + a + n + l + n, o)
  BY <1>9
<1>12. F.creation = c1 /\ F.to = c2 /\ F.payload = c3 /\ F.protected = c4 /\ F.queue = c5
       /\ F.origin = c6
  BY <1>5
<1>a. c1 = Take(0, n) /\ c2 = Take(n, a) /\ c3 = Take(n + a, n)
  OBVIOUS
<1> HIDE DEF c1, c2, c3, c4, c5, c6
<1>13. \A k \in 1..n : c1[k] = stream[0 + k]
  BY <1>1, <1>8, <1>10, <1>a
<1>14. Len(c2) = a /\ DOMAIN c2 = 1..a /\ \A k \in 1..a : c2[k] = stream[n + k]
  <2>1. n \in Nat /\ a \in Nat /\ n + a <= Len(stream) /\ c2 = Take(n, a)
    BY <1>1, <1>2, <1>10, <1>a
  <2> QED
    BY <2>1, <1>8
<1>15. Len(c3) = n /\ \A k \in 1..n : c3[k] = stream[n + a + k]
  BY <1>1, <1>8, <1>10, <1>a
<1>16. Len(c4) = l /\ DOMAIN c4 = 1..l /\ \A k \in 1..l : c4[k] = stream[n + a + n + k]
  BY <1>2, <1>8, <1>10, <1>11
<1>17. \A k \in 1..n : c5[k] = stream[n + a + n + l + k]
  BY <1>1, <1>8, <1>10, <1>11
<1>18. Len(c6) = o /\ DOMAIN c6 = 1..o /\ \A k \in 1..o : c6[k] = stream[n + a + n + l + n + k]
  BY <1>2, <1>8, <1>10, <1>11
<1>19. ASSUME NEW k \in 1..n
       PROVE  /\ F.creation[k].x = (T[k].to = None) /\ F.payload[k].x = Payload(T[k])
              /\ F.queue[k].x = (T[k].origin # None)
  <2>1. 0 + k = k
    OBVIOUS
  <2> QED
    BY <1>6, <1>12, <1>13, <1>15, <1>17, <2>1
<1>20. \A k \in C : F.to[RC(k)].x = T[k].to
  BY <1>3, <1>6, <1>12, <1>14
<1>21. \A k \in L : F.protected[RL(k)].x = (T[k].kind = "protected")
  BY <1>3, <1>6, <1>12, <1>16
<1>22. \A k \in D : F.origin[RD(k)].x = T[k].origin
  BY <1>3, <1>6, <1>12, <1>18
<1>23. FieldsOf(F, T, n)
  BY <1>12, <1>14, <1>15, <1>16, <1>18, <1>19, <1>20, <1>21, <1>22, Zenon
     DEF FieldsOf, C, L, D, a, l, o, RC, RL, RD
<1> QED
  BY <1>23 DEF F, T, n

-------------------------------------------------------------------------------
(* deriveBlocks. *)

\* How many transactions have been derived.
DerivedCount == Offset(span.blocks, Len(blocks) + 1) - todo

\* The cursors when the first d transactions of T have been derived.
CursorAt(T, d) ==
  [tx |-> d + 1, to |-> Rank(Calls(T), d) + 1, origin |-> Rank(Deposits(T), d) + 1,
   legacy |-> Rank(Legacies(T), d) + 1]

\* How many transactions of block i are still to be derived.
Missing(i) == IF i = Len(blocks) THEN todo ELSE 0

IsBlock(b) == b = [index |-> b.index, time |-> b.time, txs |-> b.txs]

\* The blocks derived so far are those encoded, the current one without its last todo
\* transactions, and the cursors stand behind them.
Progress ==
  LET B == span.blocks
  IN  /\ Len(blocks) <= Len(B) /\ todo \in Nat
      /\ Len(blocks) = 0 => todo = 0
      /\ Len(blocks) # 0 => todo <= Len(B[Len(blocks)])
      /\ cursor = CursorAt(Txs(B), DerivedCount)
      /\ \A i \in 1..Len(blocks) :
           /\ IsBlock(blocks[i])
           /\ blocks[i].txs = [k \in 1..(Len(B[i]) - Missing(i)) |-> Entry(B[i][k])]
           /\ B[i] # <<>> => blocks[i].time = Stamp(i)

Fresh == blocks = <<>> /\ todo = 0 /\ cursor = [tx |-> 1, to |-> 1, origin |-> 1, legacy |-> 1]

SpanInv ==
  /\ stage # "idle" => span \in Spans /\ stream \in Streams(span.blocks)
  /\ stage \in {"idle", "header", "fields"} => Fresh
  /\ stage \in {"fields", "block", "done"} => RangeOK
  /\ stage \in {"block", "done"} =>
       /\ stream = Encode(span.blocks)
       /\ FieldsOf(fields, Txs(span.blocks), Total)
       /\ Progress
  /\ stage = "done" => Len(blocks) = Count /\ todo = 0
  /\ IndexesRise
  /\ IsSeq(blocks)

(* The facts about a span that is being decoded. *)
LEMMA SpanType ==
  ASSUME span \in Spans
  PROVE  /\ span.blocks \in Seq(Seq(Transactions)) /\ span.start \in Nat
         /\ Count = Len(span.blocks) /\ Count \in Nat
         /\ Total = Offset(span.blocks, Len(span.blocks) + 1) /\ MaxU64 \in Nat
<1>1. span.blocks \in Seq(Seq(Transactions)) /\ span.start \in 0..MaxU64 /\ MaxU64 \in Nat
  BY SpanAssumption
<1> QED
  BY <1>1 DEF Count, Total

(* A number below the modulus is its own remainder. *)
LEMMA ModSmall == ASSUME NEW m \in Nat, NEW x \in 0..m PROVE x % (m + 1) = x
OBVIOUS

(* The sets of transactions, and the cursors before the first one. *)
LEMMA CursorStart ==
  ASSUME NEW B \in Seq(Seq(Transactions))
  PROVE  CursorAt(Txs(B), 0) = [tx |-> 1, to |-> 1, origin |-> 1, legacy |-> 1]
<1>1. /\ Rank(Calls(Txs(B)), 0) = 0 /\ Rank(Legacies(Txs(B)), 0) = 0
      /\ Rank(Deposits(Txs(B)), 0) = 0
  BY TxSets, RankEnds
<1> QED
  BY <1>1 DEF CursorAt

(* The transaction at the cursors is the next one of the current block. *)
LEMMA AtCursor ==
  ASSUME SpanInv, stage = "block", todo > 0
  PROVE  LET B == span.blocks
             c == Len(blocks)
             k == Len(B[c]) - todo + 1
             d == DerivedCount
         IN  /\ span \in Spans /\ Progress /\ c \in DOMAIN B /\ k \in DOMAIN B[c]
             /\ c \in 1..Len(blocks) /\ todo \in Nat
             /\ d \in Nat /\ d + 1 \in 1..Total
             /\ Txs(B)[d + 1] = B[c][k] /\ B[c][k] \in Transactions
             /\ cursor = CursorAt(Txs(B), d)
<1> DEFINE B == span.blocks
           c == Len(blocks)
           k == Len(B[c]) - todo + 1
           d == DerivedCount
<1>1. span \in Spans /\ Progress /\ Len(blocks) \in Nat
  BY SeqFunction DEF SpanInv
<1>2. B \in Seq(Seq(Transactions)) /\ Total = Offset(B, Len(B) + 1) /\ Len(B) \in Nat
  BY <1>1, SpanType
<1>3. todo \in Nat /\ c <= Len(B) /\ (c = 0 => todo = 0) /\ (c # 0 => todo <= Len(B[c]))
  BY <1>1 DEF Progress
<1>4. c \in 1..Len(B) /\ c # 0
  BY <1>1, <1>2, <1>3
<1> HIDE DEF B, c
<1>5. c \in DOMAIN B /\ B[c] \in Seq(Transactions) /\ Len(B[c]) \in Nat
  BY <1>2, <1>4
<1>6. k \in 1..Len(B[c])
  BY <1>3, <1>4, <1>5
<1>7. k \in DOMAIN B[c] /\ B[c][k] \in Transactions
  <2> HIDE DEF k
  <2> QED
    BY <1>5, <1>6
<1>8. Offset(B, c + 1) = Offset(B, c) + Len(B[c])
  BY <1>2, <1>5, OffsetStep
<1>9. Offset(B, c) \in Nat
  <2>1. c \in 1..(Len(B) + 1)
    BY <1>2, <1>4
  <2> QED
    BY <1>2, <2>1, PlacesFinite
<1>10. d = Offset(B, c + 1) - todo
  BY DEF DerivedCount, B, c
<1>11. d \in Nat /\ d + 1 = Offset(B, c) + k
  BY <1>3, <1>4, <1>5, <1>8, <1>9, <1>10
<1>12. d + 1 \in 1..Total /\ Txs(B)[d + 1] = B[c][k]
  <2> HIDE DEF k, d
  <2> QED
    BY <1>2, <1>5, <1>7, <1>11, TxsPlace
<1>13. cursor = CursorAt(Txs(B), d)
  BY <1>1 DEF Progress, B
<1>14. c \in 1..Len(blocks)
  BY <1>1, <1>4 DEF c
<1> QED
  BY <1>1, <1>3, <1>5, <1>7, <1>11, <1>12, <1>13, <1>14 DEF B, c

(* What the bits at the cursors say, and that all lookups are in range. *)
LEMMA Lookups ==
  ASSUME SpanInv, stage = "block", todo > 0
  PROVE  LET t == Txs(span.blocks)[DerivedCount + 1]
         IN  /\ Creates = (t.to = None) /\ Legacy = (t.kind # "typed")
             /\ Queued = (t.origin # None)
             /\ InRange
             /\ Derived = Entry(t)
             /\ Advanced = CursorAt(Txs(span.blocks), DerivedCount + 1)
<1> DEFINE T == Txs(span.blocks)
           d == DerivedCount
           t == T[d + 1]
           C == Calls(T)
           L == Legacies(T)
           D == Deposits(T)
           RC(k) == Rank(C, k)
           RL(k) == Rank(L, k)
           RD(k) == Rank(D, k)
<1>1. /\ span \in Spans /\ d \in Nat /\ d + 1 \in 1..Total /\ t \in Transactions
      /\ cursor = CursorAt(T, d)
  BY AtCursor
<1>2. /\ FieldsOf(fields, T, Total)
      /\ Total \in Nat /\ DOMAIN T = 1..Total
      /\ Positions(C, Total) /\ Positions(L, Total) /\ Positions(D, Total)
  BY <1>1, SpanType, TxSets DEF SpanInv
<1>3. /\ cursor.tx = d + 1 /\ cursor.to = RC(d) + 1 /\ cursor.origin = RD(d) + 1
      /\ cursor.legacy = RL(d) + 1
  BY <1>1 DEF CursorAt
<1>4. /\ RC(d + 1) = RC(d) + (IF d + 1 \in C THEN 1 ELSE 0)
      /\ RL(d + 1) = RL(d) + (IF d + 1 \in L THEN 1 ELSE 0)
      /\ RD(d + 1) = RD(d) + (IF d + 1 \in D THEN 1 ELSE 0)
  <2>1. d \in Nat
    BY <1>1
  <2>2. Positions(C, Total) /\ Positions(L, Total) /\ Positions(D, Total)
    BY <1>2
  <2> HIDE DEF d, C, L, D
  <2>3. ASSUME NEW S, Positions(S, Total)
        PROVE  Rank(S, d + 1) = Rank(S, d) + (IF d + 1 \in S THEN 1 ELSE 0)
    BY <2>1, <2>3, RankStep
  <2> QED
    BY <2>2, <2>3, Zenon
<1>5. RC(d) \in Nat /\ RL(d) \in Nat /\ RD(d) \in Nat
  <2>1. /\ Cardinality(C) \in Nat /\ RC(d) \in 0..Cardinality(C)
        /\ Cardinality(L) \in Nat /\ RL(d) \in 0..Cardinality(L)
        /\ Cardinality(D) \in Nat /\ RD(d) \in 0..Cardinality(D)
    BY <1>2, RankFinite
  <2> QED
    BY <2>1
<1>6. /\ d + 1 \in C <=> t.to # None
      /\ d + 1 \in L <=> t.kind # "typed"
      /\ d + 1 \in D <=> t.origin # None
  BY <1>1, <1>2 DEF Calls, Legacies, Deposits
<1>7. /\ d + 1 \in C => RC(d + 1) \in 1..Cardinality(C)
      /\ d + 1 \in L => RL(d + 1) \in 1..Cardinality(L)
      /\ d + 1 \in D => RD(d + 1) \in 1..Cardinality(D)
  BY <1>2, NthRank
<1>8. /\ fields.creation[d + 1].x = (t.to = None)
      /\ fields.payload[d + 1].x = Payload(t)
      /\ fields.queue[d + 1].x = (t.origin # None)
  BY <1>1, <1>2 DEF FieldsOf
<1>9. /\ d + 1 \in C => fields.to[RC(d + 1)].x = t.to /\ RC(d + 1) \in DOMAIN fields.to
      /\ d + 1 \in L => /\ fields.protected[RL(d + 1)].x = (t.kind = "protected")
                        /\ RL(d + 1) \in DOMAIN fields.protected
      /\ d + 1 \in D => fields.origin[RD(d + 1)].x = t.origin /\ RD(d + 1) \in DOMAIN fields.origin
  BY <1>2, <1>7, Zenon DEF FieldsOf
<1> HIDE DEF T, d, C, L, D, RC, RL, RD
<1>10. Payload(t).legacy = (t.kind # "typed") /\ Payload(t).id = t.id
  BY DEF Payload
<1>11. /\ Creates = (t.to = None) /\ Legacy = (t.kind # "typed") /\ Queued = (t.origin # None)
  BY <1>3, <1>8, <1>10, Zenon DEF Creates, Legacy, Queued
<1> HIDE DEF t
<1>12. /\ ~Creates => cursor.to = RC(d + 1) /\ d + 1 \in C
       /\ Legacy => cursor.legacy = RL(d + 1) /\ d + 1 \in L
       /\ Queued => cursor.origin = RD(d + 1) /\ d + 1 \in D
  BY <1>3, <1>4, <1>6, <1>11
<1>13. InRange
  BY <1>9, <1>12, Zenon DEF InRange
<1>14. Derived = Entry(t)
  <2>1. fields.payload[cursor.tx].x.id = t.id
    BY <1>3, <1>8, <1>10, Zenon
  <2>2. CASE Queued
    <3>1. Derived = Deposit(t.id, fields.origin[cursor.origin].x)
      BY <2>1, <2>2, Zenon DEF Derived
    <3>2. fields.origin[cursor.origin].x = t.origin /\ t.origin # None
      BY <1>9, <1>11, <1>12, <2>2, Zenon
    <3> QED
      BY <3>1, <3>2, Zenon DEF Entry
  <2>3. CASE ~Queued
    <3> DEFINE to == IF Creates THEN None ELSE fields.to[cursor.to].x
               kind == Restored(IF Legacy THEN fields.protected[cursor.legacy].x ELSE TRUE)
    <3>1. Derived = Sequenced(t.id, to, kind)
      BY <2>1, <2>3, Zenon DEF Derived
    <3>2. to = t.to
      BY <1>9, <1>11, <1>12, Zenon
    <3>3. kind = t.kind
      <4>1. t.kind \in {"typed", "protected", "bare"}
        BY <1>1, SpanAssumption DEF t
      <4>2. Legacy => fields.protected[cursor.legacy].x = (t.kind = "protected")
        BY <1>9, <1>12, Zenon
      <4>3. CASE ~Legacy
        BY <1>11, <4>3 DEF Restored
      <4>4. CASE Legacy
        <5>1. kind = IF t.kind = "protected" THEN "protected" ELSE "bare"
          BY <4>2, <4>4, Zenon DEF Restored
        <5>2. t.kind # "typed"
          BY <1>11, <4>4
        <5> HIDE DEF kind
        <5> QED
          BY <4>1, <5>1, <5>2
      <4> QED
        BY <4>3, <4>4
    <3>4. ~(t.origin # None)
      BY <1>11, <2>3, Zenon
    <3> HIDE DEF to, kind
    <3> QED
      BY <3>1, <3>2, <3>3, <3>4, Zenon DEF Entry
  <2> QED
    BY <2>2, <2>3
<1>15. Advanced = CursorAt(T, d + 1)
  <2>1. /\ RC(d + 1) + 1 = cursor.to + (IF Creates THEN 0 ELSE 1)
        /\ RL(d + 1) + 1 = cursor.legacy + (IF Legacy THEN 1 ELSE 0)
        /\ RD(d + 1) + 1 = cursor.origin + (IF Queued THEN 1 ELSE 0)
        /\ d + 1 + 1 = cursor.tx + 1
    <3> DEFINE ic == IF d + 1 \in C THEN 1 ELSE 0
               il == IF d + 1 \in L THEN 1 ELSE 0
               id == IF d + 1 \in D THEN 1 ELSE 0
    <3>1. /\ ic = IF Creates THEN 0 ELSE 1
          /\ il = IF Legacy THEN 1 ELSE 0
          /\ id = IF Queued THEN 1 ELSE 0
      BY <1>6, <1>11, Zenon
    <3>2. ic \in Nat /\ il \in Nat /\ id \in Nat
      OBVIOUS
    <3>3. RC(d + 1) = RC(d) + ic /\ RL(d + 1) = RL(d) + il /\ RD(d + 1) = RD(d) + id
      BY <1>4
    <3> HIDE DEF ic, il, id
    <3>4. /\ RC(d + 1) + 1 = cursor.to + ic /\ RL(d + 1) + 1 = cursor.legacy + il
          /\ RD(d + 1) + 1 = cursor.origin + id /\ d + 1 + 1 = cursor.tx + 1
      BY <1>3, <1>5, <3>2, <3>3
    <3> QED
      BY <3>1, <3>4, Zenon
  <2>2. CursorAt(T, d + 1) = [tx |-> d + 1 + 1, to |-> RC(d + 1) + 1,
                              origin |-> RD(d + 1) + 1, legacy |-> RL(d + 1) + 1]
    BY DEF CursorAt, RC, RL, RD, C, L, D
  <2>3. Advanced = [tx |-> d + 1 + 1, to |-> RC(d + 1) + 1,
                    origin |-> RD(d + 1) + 1, legacy |-> RL(d + 1) + 1]
    BY <2>1 DEF Advanced
  <2> QED
    BY <2>2, <2>3
<1> QED
  BY <1>11, <1>13, <1>14, <1>15 DEF t, T, d

(* A block begins: its number does not wrap around. *)
LEMMA NextBlockOK == ASSUME SpanInv, NextBlock PROVE SpanInv'
<1> DEFINE B == span.blocks
           c == Len(blocks)
<1>0. /\ stage = "block" /\ todo = 0 /\ span' = span /\ stream' = stream /\ fields' = fields
      /\ cursor' = cursor
  BY DEF NextBlock
<1>1. /\ span \in Spans /\ stream \in Streams(B) /\ RangeOK /\ stream = Encode(B)
      /\ FieldsOf(fields, Txs(B), Total) /\ Progress /\ IndexesRise /\ IsSeq(blocks)
      /\ c \in Nat /\ DOMAIN blocks = 1..c
  BY <1>0, SeqFunction DEF SpanInv
<1>2. /\ B \in Seq(Seq(Transactions)) /\ Count = Len(B) /\ Count \in Nat
      /\ span.start \in Nat /\ MaxU64 \in Nat
  BY <1>1, SpanType
<1>3. CASE Len(blocks) = Count
  <2>1. stage' = "done" /\ todo' = todo /\ blocks' = blocks
    BY <1>3 DEF NextBlock
  <2>2. IndexesRise' /\ RangeOK' /\ Total' = Total /\ Count' = Count
    BY <1>0, <1>1, <2>1 DEF IndexesRise, RangeOK, Total, Count
  <2>3. Progress'
    BY <1>0, <1>1, <2>1 DEF Progress, DerivedCount, Missing
  <2> QED
    BY <1>0, <1>1, <1>3, <2>1, <2>2, <2>3 DEF SpanInv
<1>4. CASE Len(blocks) # Count
  <2> DEFINE b == [index |-> Index(c), time |-> IF B[c + 1] = <<>> THEN 0 ELSE Stamp(c + 1),
                   txs |-> <<>>]
  <2>1. blocks' = Append(blocks, b) /\ todo' = Len(B[c + 1]) /\ stage' = "block"
    BY <1>0, <1>4 DEF NextBlock
  <2>2. /\ b.index = Index(c) /\ (B[c + 1] # <<>> => b.time = Stamp(c + 1)) /\ b.txs = <<>>
        /\ IsBlock(b)
    BY DEF IsBlock
  <2> HIDE DEF b
  <2>3. /\ IsSeq(blocks') /\ Len(blocks') = c + 1 /\ DOMAIN blocks' = 1..(c + 1)
        /\ \A i \in 1..c : blocks'[i] = blocks[i]
        /\ blocks'[c + 1] = b
    <3>1. /\ blocks' \in Seq(Range(blocks')) /\ DOMAIN blocks' = 1..(c + 1)
          /\ blocks'[c + 1] = b
      BY <1>1, <2>1, AppendLonger, Zenon DEF IsSeq
    <3>2. \A i \in 1..c : blocks'[i] = blocks[i]
      BY <1>1, <2>1, AppendKeeps, Zenon DEF IsSeq
    <3>3. Len(blocks') = c + 1
      BY <1>1, <3>1
    <3> QED
      BY <3>1, <3>2, <3>3 DEF IsSeq
  <2>4. c < Len(B) /\ c + 1 \in 1..Len(B)
    <3>1. c <= Len(B)
      BY <1>1 DEF Progress
    <3> QED
      BY <1>1, <1>2, <1>4, <3>1
  <2> HIDE DEF B, c
  <2>5. c + 1 \in DOMAIN B /\ B[c + 1] \in Seq(Transactions) /\ Len(B[c + 1]) \in Nat
    BY <1>2, <2>4
  <2>6. IndexesRise'
    <3>1. Index(c) = span.start + c - 1
      <4>1. span.start + c - 1 \in 0..MaxU64
        <5>1. span.start # 0 /\ Count - 1 <= MaxU64 - span.start
          BY <1>1 DEF RangeOK
        <5>2. span.start \in Nat /\ Count \in Nat /\ MaxU64 \in Nat /\ c \in Nat
          BY <1>1, <1>2
        <5>3. c + 1 <= Count
          BY <1>2, <2>4, <5>2
        <5> QED
          BY <5>1, <5>2, <5>3
      <4> QED
        BY <1>2, <4>1, ModSmall DEF Index
    <3>2. ASSUME NEW i \in 1..(c + 1) PROVE blocks'[i].index = span.start + i - 2
      <4>1. CASE i = c + 1
        BY <1>1, <1>2, <2>2, <2>3, <3>1, <4>1
      <4>2. CASE i \in 1..c
        <5>1. blocks[i].index = span.start + i - 2
          BY <1>1, <4>2 DEF IndexesRise
        <5> QED
          BY <2>3, <4>2, <5>1
      <4> QED
        BY <1>1, <4>1, <4>2
    <3> QED
      BY <1>0, <2>3, <3>2, Zenon DEF IndexesRise
  <2>7. DerivedCount' = DerivedCount
    <3>1. Offset(B, c + 1 + 1) = Offset(B, c + 1) + Len(B[c + 1])
      BY <1>2, <2>5, OffsetStep
    <3>2. Offset(B, c + 1) \in Nat
      <4>1. c + 1 \in 1..(Len(B) + 1)
        BY <1>2, <2>4
      <4> QED
        BY <1>2, <4>1, PlacesFinite
    <3>3. DerivedCount = Offset(B, c + 1)
      BY <1>0, <3>2 DEF DerivedCount, B, c
    <3>4. DerivedCount' = Offset(B, c + 1 + 1) - Len(B[c + 1])
      BY <1>0, <2>1, <2>3 DEF DerivedCount, B
    <3> QED
      BY <2>5, <3>1, <3>2, <3>3, <3>4
  <2>8. ASSUME NEW i \in 1..(c + 1)
        PROVE  /\ IsBlock(blocks'[i])
               /\ blocks'[i].txs = [k \in 1..(Len(B[i]) - Missing(i)') |-> Entry(B[i][k])]
               /\ B[i] # <<>> => blocks'[i].time = Stamp(i)
    <3>1. CASE i = c + 1
      <4>1. Missing(i)' = Len(B[i])
        BY <2>1, <2>3, <3>1 DEF Missing
      <4>2. 1..(Len(B[i]) - Missing(i)') = {}
        BY <2>5, <3>1, <4>1
      <4>3. [k \in {} |-> Entry(B[i][k])] = <<>>
        OBVIOUS
      <4>4. [k \in 1..(Len(B[i]) - Missing(i)') |-> Entry(B[i][k])] = <<>>
        BY <4>2, <4>3, Zenon
      <4> QED
        BY <2>2, <2>3, <3>1, <4>4
    <3>2. CASE i \in 1..c
      <4>1. Missing(i)' = 0 /\ Missing(i) = 0
        BY <1>0, <1>1, <2>3, <3>2 DEF Missing
      <4>2. /\ IsBlock(blocks[i])
            /\ blocks[i].txs = [k \in 1..(Len(B[i]) - Missing(i)) |-> Entry(B[i][k])]
            /\ B[i] # <<>> => blocks[i].time = Stamp(i)
        BY <1>1, <3>2 DEF Progress, B, c
      <4> QED
        BY <2>3, <3>2, <4>1, <4>2
    <3> QED
      BY <1>1, <3>1, <3>2
  <2>9. Progress'
    <3>1. Len(blocks') <= Len(B) /\ todo' \in Nat /\ Len(blocks') # 0 /\ todo' <= Len(B[Len(blocks')])
      BY <1>1, <2>1, <2>3, <2>4, <2>5
    <3>2. cursor' = CursorAt(Txs(B), DerivedCount')
      BY <1>0, <1>1, <2>7, Zenon DEF Progress, B
    <3>3. span'.blocks = B
      BY <1>0 DEF B
    <3> QED
      BY <2>3, <2>8, <3>1, <3>2, <3>3, ZenonT(30) DEF Progress
  <2>10. RangeOK' /\ Total' = Total
    BY <1>0, <1>1 DEF RangeOK, Total, Count
  <2> QED
    BY <1>0, <1>1, <2>1, <2>3, <2>6, <2>9, <2>10 DEF SpanInv, B
<1> QED
  BY <1>3, <1>4

(* The transactions of a block are replaced. *)
LEMMA BlockUpdate ==
  ASSUME NEW b, IsBlock(b), NEW v
  PROVE  [b EXCEPT !.txs = v] = [index |-> b.index, time |-> b.time, txs |-> v]
BY DEF IsBlock

(* A transaction is derived: it is the next one of its block, and every cursor that *)
(* has an item for it moves.                                                        *)
LEMMA DeriveOK == ASSUME SpanInv, DeriveTransaction PROVE SpanInv'
<1> DEFINE B == span.blocks
           c == Len(blocks)
           m == Len(B[c]) - todo
           d == DerivedCount
           e == Entry(B[c][m + 1])
           u == [blocks[c] EXCEPT !.txs = Append(blocks[c].txs, e)]
<1>0. /\ stage = "block" /\ todo > 0 /\ span' = span /\ stream' = stream /\ fields' = fields
      /\ stage' = "block" /\ todo' = todo - 1 /\ cursor' = Advanced
      /\ blocks' = [blocks EXCEPT ![c].txs = Append(@, Derived)]
  BY DEF DeriveTransaction
<1>1. /\ span \in Spans /\ stream \in Streams(B) /\ RangeOK /\ stream = Encode(B)
      /\ FieldsOf(fields, Txs(B), Total) /\ Progress /\ IndexesRise /\ IsSeq(blocks)
      /\ c \in Nat /\ DOMAIN blocks = 1..c /\ blocks = [i \in 1..c |-> blocks[i]]
  BY <1>0, SeqFunction DEF SpanInv
<1>2. B \in Seq(Seq(Transactions))
  BY <1>1, SpanType
<1>3. /\ c \in 1..c /\ c \in DOMAIN B /\ m + 1 \in DOMAIN B[c]
      /\ todo \in Nat /\ d \in Nat /\ Txs(B)[d + 1] = B[c][m + 1]
  BY <1>0, AtCursor
<1>4. /\ Derived = Entry(Txs(B)[d + 1]) /\ Advanced = CursorAt(Txs(B), d + 1)
  BY <1>0, Lookups
<1>5. Derived = e
  BY <1>3, <1>4, Zenon
<1>6. blocks' = [blocks EXCEPT ![c] = u]
  BY <1>0, <1>5
<1>7. /\ IsBlock(blocks[c])
      /\ blocks[c].txs = [k \in 1..m |-> Entry(B[c][k])]
      /\ B[c] # <<>> => blocks[c].time = Stamp(c)
      /\ c <= Len(B) /\ todo <= Len(B[c])
  <2>1. Missing(c) = todo
    BY DEF Missing
  <2>2. c # 0
    BY <1>1, <1>3
  <2> QED
    BY <1>1, <1>3, <2>1, <2>2, Zenon DEF Progress
<1> DEFINE s == blocks[c].txs
           s2 == Append(s, e)
<1>8. IsBlock(u) /\ u.index = blocks[c].index /\ u.time = blocks[c].time /\ u.txs = s2
  <2> DEFINE b == blocks[c]
  <2>1. IsBlock(b) /\ u = [b EXCEPT !.txs = s2]
    BY <1>7
  <2> HIDE DEF u, s2, b
  <2>2. u = [index |-> b.index, time |-> b.time, txs |-> s2]
    BY <2>1, BlockUpdate
  <2>3. IsBlock(u) /\ u.index = b.index /\ u.time = b.time /\ u.txs = s2
    BY <2>2 DEF IsBlock
  <2> QED
    BY <2>3 DEF b
<1> HIDE DEF e, u, c, B
<1>9. B[c] \in Seq(Transactions) /\ Len(B[c]) \in Nat
  BY <1>2, <1>3
<1>10. m \in Nat /\ m + 1 = Len(B[c]) - todo' /\ todo' \in Nat /\ todo' <= Len(B[c])
  BY <1>0, <1>3, <1>7, <1>9
<1> HIDE DEF m, d
<1>11. u.txs = [k \in 1..(m + 1) |-> Entry(B[c][k])]
  <2>1. s = [k \in 1..m |-> Entry(B[c][k])]
    BY <1>7
  <2> HIDE DEF s
  <2>2. DOMAIN s = 1..m /\ s = [k \in 1..m |-> s[k]] /\ \A k \in 1..m : s[k] = Entry(B[c][k])
    BY <2>1, Zenon
  <2>3. IsSeq(s) /\ Len(s) = m
    BY <1>10, <2>2, FunctionSeq
  <2>4. /\ s2 \in Seq(Range(s2)) /\ DOMAIN s2 = 1..(m + 1) /\ s2[m + 1] = e
        /\ \A k \in 1..m : s2[k] = s[k]
    <3>1. /\ s2 \in Seq(Range(s2)) /\ DOMAIN s2 = 1..(m + 1) /\ s2[m + 1] = e
      BY <2>3, AppendLonger DEF IsSeq
    <3>2. \A k \in 1..m : s2[k] = s[k]
      BY <2>3, AppendKeeps DEF IsSeq
    <3> QED
      BY <3>1, <3>2
  <2> HIDE DEF s2
  <2>5. ASSUME NEW k \in 1..(m + 1) PROVE s2[k] = Entry(B[c][k])
    <3>1. CASE k = m + 1
      BY <2>4, <3>1 DEF e
    <3>2. CASE k \in 1..m
      BY <2>2, <2>4, <3>2
    <3> QED
      BY <1>10, <3>1, <3>2
  <2>6. Len(s2) = m + 1
    BY <1>10, <2>4
  <2>7. s2 = [k \in 1..(m + 1) |-> s2[k]]
    BY <2>4, <2>6, SeqFunction, Zenon DEF IsSeq
  <2>8. s2 = [k \in 1..(m + 1) |-> Entry(B[c][k])]
    BY <2>5, <2>7, Zenon
  <2> QED
    BY <1>8, <2>8
<1>12. /\ DOMAIN blocks' = 1..c /\ blocks' = [i \in 1..c |-> blocks'[i]]
       /\ blocks'[c] = u /\ \A i \in 1..c : i # c => blocks'[i] = blocks[i]
  <2> HIDE DEF s2
  <2> QED
    BY <1>1, <1>3, <1>6 DEF c
<1>13. IsSeq(blocks') /\ Len(blocks') = c /\ c \in Nat
  <2>1. c \in Nat
    BY <1>1 DEF c
  <2> QED
    BY <1>12, <2>1, FunctionSeq
<1>14. IndexesRise'
  <2>1. \A i \in 1..c : blocks'[i].index = blocks[i].index
    BY <1>8, <1>12
  <2>2. DOMAIN blocks = 1..c
    BY <1>1 DEF c
  <2> QED
    BY <1>0, <1>1, <1>12, <2>1, <2>2, Zenon DEF IndexesRise
<1>15. DerivedCount' = d + 1
  <2>1. d = Offset(B, c + 1) - todo
    BY DEF d, DerivedCount, B, c
  <2>2. DerivedCount' = Offset(B, c + 1) - (todo - 1)
    BY <1>0, <1>13 DEF DerivedCount, B
  <2>3. Offset(B, c + 1) \in Nat
    <3>1. c + 1 \in 1..(Len(B) + 1) /\ Len(B) \in Nat
      BY <1>2, <1>3
    <3> QED
      BY <1>2, <3>1, PlacesFinite
  <2> QED
    BY <1>3, <2>1, <2>2, <2>3
<1>16. ASSUME NEW i \in 1..c
       PROVE  /\ IsBlock(blocks'[i])
              /\ blocks'[i].txs = [k \in 1..(Len(B[i]) - Missing(i)') |-> Entry(B[i][k])]
              /\ B[i] # <<>> => blocks'[i].time = Stamp(i)
  <2>1. CASE i = c
    <3>1. Missing(i)' = todo'
      BY <1>13, <2>1 DEF Missing
    <3>2. m + 1 = Len(B[i]) - Missing(i)'
      BY <1>10, <2>1, <3>1
    <3>3. blocks'[i].txs = [k \in 1..(Len(B[i]) - Missing(i)') |-> Entry(B[i][k])]
      BY <1>11, <1>12, <2>1, <3>2, Zenon
    <3> QED
      BY <1>7, <1>8, <1>12, <2>1, <3>3, Zenon DEF c
  <2>2. CASE i # c
    <3>1. Missing(i)' = 0 /\ Missing(i) = 0
      BY <1>13, <2>2 DEF Missing, c
    <3>2. /\ IsBlock(blocks[i])
          /\ blocks[i].txs = [k \in 1..(Len(B[i]) - Missing(i)) |-> Entry(B[i][k])]
          /\ B[i] # <<>> => blocks[i].time = Stamp(i)
      BY <1>1 DEF Progress, B, c
    <3> QED
      BY <1>12, <2>2, <3>1, <3>2
  <2> QED
    BY <2>1, <2>2
<1>17. Progress'
  <2>1. Len(blocks') <= Len(B) /\ todo' \in Nat /\ Len(blocks') # 0 /\ todo' <= Len(B[Len(blocks')])
    BY <1>3, <1>7, <1>10, <1>13 DEF c, B
  <2>2. cursor' = CursorAt(Txs(B), DerivedCount')
    BY <1>0, <1>4, <1>15, Zenon DEF B, d
  <2>3. span'.blocks = B
    BY <1>0 DEF B
  <2> QED
    BY <1>13, <1>16, <2>1, <2>2, <2>3, ZenonT(30) DEF Progress
<1>18. RangeOK' /\ Total' = Total
  BY <1>0, <1>1 DEF RangeOK, Total, Count
<1> QED
  BY <1>0, <1>1, <1>13, <1>14, <1>17, <1>18 DEF SpanInv, B

(* Before the first block there is nothing to say of blocks. *)
LEMMA FreshBlocks == Fresh => IsSeq(blocks) /\ IndexesRise
BY DEF Fresh, IsSeq, IndexesRise

(* Between two spans nothing is left of the last one. *)
LEMMA ClearOK == Clear => SpanInv'
<1> SUFFICES ASSUME Clear PROVE SpanInv'
  OBVIOUS
<1>1. stage' = "idle" /\ Fresh'
  BY DEF Clear, Fresh
<1>2. IsSeq(blocks') /\ IndexesRise'
  BY <1>1 DEF Fresh, IsSeq, IndexesRise
<1> QED
  BY <1>1, <1>2 DEF SpanInv

(* At first there is no span. *)
LEMMA SpanInitOK == SpanInit => SpanInv
<1> SUFFICES ASSUME SpanInit PROVE SpanInv
  OBVIOUS
<1>1. stage = "idle" /\ Fresh
  BY DEF SpanInit, Fresh
<1> QED
  BY <1>1, FreshBlocks DEF SpanInv

(* A span arrives. *)
LEMMA ReceiveOK == ASSUME SpanInv, ReceiveSpan PROVE SpanInv'
<1>1. /\ stage' = "header" /\ span' \in Spans /\ stream' \in Streams(span'.blocks) /\ Fresh'
  BY DEF ReceiveSpan, SpanInv, Fresh
<1>2. IsSeq(blocks') /\ IndexesRise'
  BY <1>1 DEF Fresh, IsSeq, IndexesRise
<1> QED
  BY <1>1, <1>2 DEF SpanInv

(* The header of a span bounds its block numbers. *)
LEMMA HeaderOK == ASSUME SpanInv, ReadHeader PROVE SpanInv'
<1>1. /\ stage = "header" /\ stage' \in {"fields", "error"} /\ (stage' = "fields" => RangeOK)
      /\ UNCHANGED <<span, stream, fields, cursor, todo, blocks>>
  BY DEF ReadHeader
<1>2. Fresh' /\ IsSeq(blocks') /\ IndexesRise' /\ span' \in Spans /\ stream' \in Streams(span'.blocks)
  BY <1>1 DEF SpanInv, Fresh, IsSeq, IndexesRise
<1>3. stage' = "fields" => RangeOK'
  BY <1>1 DEF RangeOK, Count
<1> QED
  BY <1>1, <1>2, <1>3 DEF SpanInv

(* A stream of the length its own bits call for is the one that was encoded. *)
LEMMA ReadOK == ASSUME SpanInv, ReadTransactions PROVE SpanInv'
<1> DEFINE B == span.blocks
<1>0. /\ stage = "fields" /\ fields' = Layout(Total) /\ stage' \in {"block", "error"}
      /\ stage' = "block" => Layout(Total).length = Len(stream)
      /\ span' = span /\ stream' = stream /\ cursor' = cursor /\ todo' = todo /\ blocks' = blocks
  BY DEF ReadTransactions
<1>1. /\ span \in Spans /\ stream \in Streams(B) /\ Fresh /\ RangeOK /\ IndexesRise
      /\ IsSeq(blocks)
  BY <1>0 DEF SpanInv
<1>2. /\ B \in Seq(Seq(Transactions)) /\ Total = Offset(B, Len(B) + 1)
  BY <1>1, SpanType
<1>3. RangeOK' /\ IndexesRise' /\ IsSeq(blocks') /\ Total' = Total
  BY <1>0, <1>1 DEF RangeOK, IndexesRise, Count, Total
<1>4. CASE stage' = "error"
  BY <1>0, <1>1, <1>3, <1>4 DEF SpanInv
<1>5. CASE stage' = "block"
  <2>1. stream = Encode(B)
    <3>1. Layout(Total).length = EncodedLen(Txs(B), Total)
      <4> DEFINE n == Offset(B, Len(B) + 1)
                 T == Txs(B)
                 a == Cardinality(Calls(T))
                 l == Cardinality(Legacies(T))
      <4>1. Layout(n) =
              [creation |-> Take(0, n), to |-> Take(n, a), payload |-> Take(n + a, n),
               protected |-> Take(2 * n + a, l), queue |-> Take(2 * n + a + l, n),
               origin |-> Take(3 * n + a + l, Cardinality(Deposits(T))),
               length |-> EncodedLen(T, n)]
        BY <1>1, <1>2, LayoutCounts, Zenon
      <4>2. Layout(n).length = EncodedLen(T, n)
        BY <4>1
      <4> QED
        BY <1>2, <4>2
    <3>2. /\ EncodedLen(Txs(B), Total) = Len(Encode(B))
          /\ Len(stream) = Len(Encode(B)) => stream = Encode(B)
      BY <1>1, <1>2, LayoutCounts, Zenon
    <3> QED
      BY <1>0, <1>5, <3>1, <3>2
  <2>2. FieldsOf(fields', Txs(B), Total)
    BY <1>0, <1>1, <1>2, <2>1, FieldsRead
  <2>3. Progress'
    <3>1. /\ blocks' = <<>> /\ Len(blocks') = 0 /\ todo' = 0
          /\ cursor' = [tx |-> 1, to |-> 1, origin |-> 1, legacy |-> 1]
      BY <1>0, <1>1 DEF Fresh
    <3>2. DerivedCount' = 0
      <4>1. DerivedCount' = Offset(B, 0 + 1) - 0
        BY <1>0, <3>1 DEF DerivedCount
      <4> QED
        BY <1>2, <4>1, OffsetFirst
    <3>3. cursor' = CursorAt(Txs(B), DerivedCount')
      BY <1>2, <3>1, <3>2, CursorStart
    <3>4. 1..Len(blocks') = {} /\ Len(blocks') <= Len(B) /\ todo' \in Nat
      BY <1>2, <3>1
    <3> QED
      BY <1>0, <3>1, <3>3, <3>4 DEF Progress
  <2> QED
    BY <1>0, <1>1, <1>3, <1>5, <2>1, <2>2, <2>3 DEF SpanInv
<1> QED
  BY <1>0, <1>4, <1>5

(* A transaction does not decode. *)
LEMMA InvalidOK == ASSUME SpanInv, InvalidTransaction PROVE SpanInv'
<1>1. /\ stage = "block" /\ stage' = "error"
      /\ UNCHANGED <<span, stream, fields, cursor, todo, blocks>>
  BY DEF InvalidTransaction
<1>2. IsSeq(blocks') /\ IndexesRise' /\ span' \in Spans /\ stream' \in Streams(span'.blocks)
  BY <1>1 DEF SpanInv, IsSeq, IndexesRise
<1> QED
  BY <1>1, <1>2 DEF SpanInv

(* Nothing happens to the span. *)
LEMMA SpanSame == ASSUME SpanInv, UNCHANGED spanVars PROVE SpanInv'
<1>1. /\ span' = span /\ stream' = stream /\ fields' = fields /\ cursor' = cursor
      /\ todo' = todo /\ blocks' = blocks /\ stage' = stage
  BY DEF spanVars
<1>2. /\ Total' = Total /\ Count' = Count
      /\ Fresh => Fresh'
      /\ RangeOK => RangeOK'
      /\ IndexesRise => IndexesRise'
      /\ IsSeq(blocks) => IsSeq(blocks')
  BY <1>1 DEF Fresh, RangeOK, Total, Count, IndexesRise
<1>3. Progress => Progress'
  BY <1>1 DEF Progress, DerivedCount, Missing
<1> QED
  BY <1>1, <1>2, <1>3 DEF SpanInv

(* Every step of the channel keeps the invariant of its span. *)
LEMMA SpanStep == ASSUME SpanInv, [Next]_vars PROVE SpanInv'
<1>1. CASE NextSpan
  BY <1>1, ReceiveOK DEF NextSpan
<1>2. CASE DecodeSpan
  <2>1. SpanNext
    BY <1>2 DEF DecodeSpan
  <2> QED
    BY <2>1, HeaderOK, ReadOK, NextBlockOK, DeriveOK, InvalidOK DEF SpanNext
<1>3. CASE TakeBlocks \/ RefuseData
  BY <1>3, ClearOK DEF TakeBlocks, RefuseData
<1>4. CASE CollectFrames \/ OpenChannel \/ CompareWithCommitment \/ Over \/ UNCHANGED vars
  <2>1. UNCHANGED spanVars
    BY <1>4 DEF CollectFrames, OpenChannel, CompareWithCommitment, Over, vars
  <2> QED
    BY <2>1, SpanSame
<1> QED
  BY <1>1, <1>2, <1>3, <1>4 DEF Next

(* At the end every cursor is behind the last item of its field. *)
LEMMA CursorsEnd ==
  ASSUME SpanInv, stage = "done"
  PROVE  /\ cursor.tx = Len(fields.payload) + 1 /\ cursor.to = Len(fields.to) + 1
         /\ cursor.legacy = Len(fields.protected) + 1 /\ cursor.origin = Len(fields.origin) + 1
<1> DEFINE B == span.blocks
           T == Txs(B)
<1>1. /\ span \in Spans /\ FieldsOf(fields, T, Total) /\ Progress /\ Len(blocks) = Count /\ todo = 0
  BY DEF SpanInv
<1>2. /\ B \in Seq(Seq(Transactions)) /\ Total = Offset(B, Len(B) + 1) /\ Count = Len(B)
  BY <1>1, SpanType
<1>3. /\ Positions(Calls(T), Total) /\ Positions(Legacies(T), Total)
      /\ Positions(Deposits(T), Total) /\ Total \in Nat
  BY <1>2, TxSets
<1>4. DerivedCount = Total
  BY <1>1, <1>2, <1>3 DEF DerivedCount
<1>5. cursor = CursorAt(T, Total)
  BY <1>1, <1>4, Zenon DEF Progress
<1>6. /\ Rank(Calls(T), Total) = Cardinality(Calls(T))
      /\ Rank(Legacies(T), Total) = Cardinality(Legacies(T))
      /\ Rank(Deposits(T), Total) = Cardinality(Deposits(T))
  BY <1>3, RankEnds
<1>7. /\ Len(fields.payload) = Total /\ Len(fields.to) = Cardinality(Calls(T))
      /\ Len(fields.protected) = Cardinality(Legacies(T))
      /\ Len(fields.origin) = Cardinality(Deposits(T))
  BY <1>1 DEF FieldsOf
<1> HIDE DEF T, B
<1> QED
  BY <1>5, <1>6, <1>7 DEF CursorAt

(* The invariant at the end of a span is what decodeSpan promises. *)
LEMMA SpanDecoded == SpanInv => RoundTrip
<1> SUFFICES ASSUME SpanInv PROVE RoundTrip
  OBVIOUS
<1>1. CursorsAligned
  BY Lookups, CursorsEnd DEF CursorsAligned
<1>2. ASSUME stage = "done"
      PROVE  /\ stream = Encode(span.blocks) /\ Len(blocks) = Len(span.blocks)
             /\ \A i \in DOMAIN blocks :
                  LET B == span.blocks[i]
                  IN  /\ blocks[i].txs = [k \in DOMAIN B |-> Entry(B[k])]
                      /\ B # <<>> => blocks[i].time = Stamp(i)
  <2>1. /\ span \in Spans /\ stream = Encode(span.blocks) /\ Progress /\ Len(blocks) = Count
        /\ todo = 0 /\ IsSeq(blocks)
    BY <1>2 DEF SpanInv
  <2>2. span.blocks \in Seq(Seq(Transactions)) /\ Count = Len(span.blocks)
    BY <2>1, SpanType
  <2>3. ASSUME NEW i \in DOMAIN blocks
        PROVE  /\ blocks[i].txs = [k \in DOMAIN span.blocks[i] |-> Entry(span.blocks[i][k])]
               /\ span.blocks[i] # <<>> => blocks[i].time = Stamp(i)
    <3>1. i \in 1..Len(blocks)
      BY <2>1, SeqFunction
    <3>2. /\ blocks[i].txs = [k \in 1..(Len(span.blocks[i]) - Missing(i)) |-> Entry(span.blocks[i][k])]
          /\ span.blocks[i] # <<>> => blocks[i].time = Stamp(i)
      BY <2>1, <3>1, Zenon DEF Progress
    <3>3. Missing(i) = 0
      BY <2>1 DEF Missing
    <3>4. span.blocks[i] \in Seq(Transactions)
      BY <2>1, <2>2, <3>1
    <3>5. 1..(Len(span.blocks[i]) - Missing(i)) = DOMAIN span.blocks[i]
      <4> HIDE DEF Missing
      <4> QED
        BY <3>3, <3>4
    <3> QED
      BY <3>2, <3>5, Zenon
  <2> QED
    BY <2>1, <2>2, <2>3, Zenon
<1>3. IndexesRise
  BY DEF SpanInv
<1> QED
  BY <1>1, <1>2, <1>3, Zenon DEF RoundTrip

-------------------------------------------------------------------------------
(* Decoding the channel: the inductive invariant. *)

\* The block numbers are numbers, and the commitment is compared at the end.
BlocksOK ==
  /\ indexes \in Seq(Int)
  /\ at \in {"input", "spans"} => commitment = NoCommitment

IInv == ChannelInv /\ SpanInv /\ BlocksOK /\ InsideCommitment

(* The comparison with the commitment is exact: nothing overflows. *)
LEMMA CoversRange ==
  ASSUME NEW c \in Commitments, NEW i \in Int
  PROVE  Covers(c, i) <=> i \in c.prev..(c.prev + c.size - 1)
<1>1. c.prev \in Nat /\ c.size \in Nat
  BY DecodingAssumption, SpanAssumption
<1> QED
  BY <1>1 DEF Covers

(* The initial states satisfy the invariant.                                      *)
LEMMA InitOK == Init => IInv
<1> SUFFICES ASSUME Init PROVE IInv
  OBVIOUS
<1>1. ChannelInv
  <2> USE DEF Init, ChannelInit
  <2>1. InputOK
    BY FS_EmptySet DEF InputOK
  <2>2. ContentOK
    BY NoBytes, ChannelAssumption DEF ContentOK, Kept, Closing
  <2> QED
    BY <2>1, <2>2 DEF ChannelInv, WholeOK, ProperAccepted
<1>2. SpanInv
  BY SpanInitOK DEF Init
<1>3. BlocksOK /\ InsideCommitment
  BY DEF Init, BlocksOK, InsideCommitment
<1> QED
  BY <1>1, <1>2, <1>3 DEF IInv

(* Every step preserves the invariant. *)
LEMMA NextOK == IInv /\ [Next]_vars => IInv'
<1> SUFFICES ASSUME IInv, [Next]_vars PROVE IInv'
  OBVIOUS
<1> USE DEF IInv
<1>s. SpanInv'
  BY SpanStep
<1>0. ASSUME UNCHANGED channelVars PROVE ChannelInv'
  BY <1>0 DEF channelVars, ChannelInv, InputOK, ContentOK, WholeOK, ProperAccepted
<1>1. CASE CollectFrames
  <2>1. ChannelInv'
    BY <1>1, ChannelOK DEF CollectFrames
  <2>2. BlocksOK' /\ InsideCommitment'
    BY <1>1 DEF CollectFrames, decodingVars, BlocksOK, InsideCommitment
  <2> QED
    BY <1>s, <2>1, <2>2
<1>2. CASE OpenChannel
  <2>1. ChannelInv'
    <3> USE <1>2 DEF OpenChannel
    <3>1. InputOK'
      BY FS_EmptySet DEF InputOK
    <3>2. ContentOK'
      BY NoBytes, ChannelAssumption DEF ContentOK, Kept, Closing
    <3> QED
      BY <3>1, <3>2 DEF ChannelInv, WholeOK, ProperAccepted
  <2>2. BlocksOK' /\ InsideCommitment'
    BY <1>2 DEF OpenChannel, decodingVars, BlocksOK, InsideCommitment
  <2> QED
    BY <1>s, <2>1, <2>2
<1>3. CASE NextSpan
  <2>1. BlocksOK' /\ InsideCommitment'
    BY <1>3 DEF NextSpan, BlocksOK, InsideCommitment
  <2> QED
    BY <1>s, <1>0, <1>3, <2>1 DEF NextSpan
<1>4. CASE DecodeSpan
  <2>1. BlocksOK' /\ InsideCommitment'
    BY <1>4 DEF DecodeSpan, decodingVars, BlocksOK, InsideCommitment
  <2> QED
    BY <1>s, <1>0, <1>4, <2>1 DEF DecodeSpan
<1>5. CASE TakeBlocks
  <2>1. [i \in DOMAIN blocks |-> blocks[i].index] \in Seq(Int)
    <3>1. Len(blocks) \in Nat /\ DOMAIN blocks = 1..Len(blocks)
      BY SeqFunction DEF SpanInv
    <3>2. span.start \in Nat
      BY <1>5, SpanType DEF TakeBlocks, SpanInv
    <3>3. \A i \in 1..Len(blocks) : blocks[i].index \in Int
      BY <3>1, <3>2 DEF SpanInv, IndexesRise
    <3>4. [i \in 1..Len(blocks) |-> blocks[i].index] \in [1..Len(blocks) -> Int]
      BY <3>3
    <3> QED
      BY <3>1, <3>4
  <2>2. indexes' \in Seq(Int)
    BY <1>5, <2>1 DEF TakeBlocks, BlocksOK
  <2>3. BlocksOK'
    BY <1>5, <2>2 DEF TakeBlocks, BlocksOK
  <2>4. InsideCommitment'
    BY <1>5 DEF TakeBlocks, BlocksOK, InsideCommitment
  <2> QED
    BY <1>s, <1>0, <1>5, <2>3, <2>4 DEF TakeBlocks
<1>6. CASE RefuseData
  <2>1. BlocksOK' /\ InsideCommitment'
    BY <1>6 DEF RefuseData, decodingVars, BlocksOK, InsideCommitment
  <2> QED
    BY <1>s, <1>0, <1>6, <2>1 DEF RefuseData
<1>7. CASE CompareWithCommitment
  <2>1. PICK c \in Commitments :
          /\ commitment' = c
          /\ at' = IF indexes # <<>> /\ \A k \in DOMAIN indexes : Covers(c, indexes[k])
                   THEN "returned" ELSE "refused"
    BY <1>7 DEF CompareWithCommitment
  <2>2. \A k \in DOMAIN indexes :
          Covers(c, indexes[k]) <=> indexes[k] \in c.prev..(c.prev + c.size - 1)
    BY CoversRange DEF BlocksOK
  <2>3. InsideCommitment'
    BY <1>7, <2>1, <2>2 DEF CompareWithCommitment, InsideCommitment
  <2>4. BlocksOK'
    BY <1>7, <2>1 DEF CompareWithCommitment, BlocksOK
  <2> QED
    BY <1>s, <1>0, <1>7, <2>3, <2>4 DEF CompareWithCommitment
<1>8. CASE UNCHANGED vars
  <2>1. BlocksOK' /\ InsideCommitment'
    BY <1>8 DEF vars, decodingVars, BlocksOK, InsideCommitment
  <2> QED
    BY <1>s, <1>0, <1>8, <2>1 DEF vars
<1> QED
  BY <1>1, <1>2, <1>3, <1>4, <1>5, <1>6, <1>7, <1>8 DEF Next, Over

(* The invariant holds in every reachable state.                                  *)
LEMMA Invariance == Spec => []IInv
BY InitOK, NextOK, PTL DEF Spec

-------------------------------------------------------------------------------
(* What add keeps is a function of the set of frames, whatever their order, and    *)
(* its size is that of the data kept (channelInput.add).                           *)
THEOREM OrderIrrelevant == Spec => []KeepsByContent
<1>1. IInv => KeepsByContent
  <2> SUFFICES ASSUME IInv PROVE KeepsByContent
    OBVIOUS
  <2> USE DEF IInv, ChannelInv
  <2>1. Cardinality(Closing(added)) <= 1
    <3>1. CASE Closing(added) = {}
      BY <3>1, FS_EmptySet
    <3>2. CASE Closing(added) # {}
      <4>0. PICK c \in Closing(added) : TRUE
        BY <3>2
      <4>1. Closing(added) = {c}
        BY <4>0 DEF ContentOK
      <4>2. Cardinality({c}) = 1
        BY FS_Singleton
      <4> QED
        BY <4>1, <4>2
    <3> QED
      BY <3>1, <3>2
  <2>2. end = (IF Closing(added) = {} THEN Nil ELSE (CHOOSE f \in Closing(added) : TRUE).n)
    BY DEF ContentOK
  <2> QED
    BY <2>1, <2>2 DEF KeepsByContent, ContentOK
<1> QED
  BY <1>1, Invariance, PTL

(* An assembled channel has one frame of each number and expires with the oldest   *)
(* Blob transaction it needs (decodeReadyChannel).                                 *)
THEOREM WholeChannel == Spec => []AssembledWhole
<1>1. IInv => AssembledWhole
  <2> SUFFICES ASSUME IInv, result = "whole" PROVE AssembledWhole
    BY DEF AssembledWhole
  <2> USE DEF IInv, ChannelInv
  <2>1. end \in Nat /\ \A f \in frames : f.n \in 0..end /\ Time[f.src] \in Nat
    BY Closed, KeptFinite, FrameType DEF WholeOK
  <2>2. \A n \in 0..end : Frame(n) \in frames /\ Frame(n).n = n
    BY DEF Frame, WholeOK
  <2>3. \A f \in frames : Frame(f.n) = f
    BY <2>1, <2>2 DEF ContentOK
  <2>4. {Assembled.parts[n] : n \in 0..end} = frames
    BY <2>1, <2>2, <2>3 DEF Assembled
  <2>5. Assembled.sources = {f.src : f \in frames}
    BY <2>1, <2>2, <2>3 DEF Assembled
  <2>6. \A f \in frames : Assembled.expires <= Time[f.src]
    <3> DEFINE T == {Time[Frame(n).src] : n \in 0..end}
    <3>1. T \subseteq Nat
      BY <2>1, <2>2
    <3>2. \A f \in frames : Time[f.src] \in T
      BY <2>1, <2>3
    <3>3. Assembled.expires = Min(T)
      BY DEF Assembled
    <3> HIDE DEF T
    <3> QED
      BY <3>1, <3>2, <3>3, MinLeast
  <2>7. Assembled.bytes = Bytes(frames) /\ \A n \in 0..end : Assembled.parts[n].n = n
    BY <2>2 DEF Assembled, ContentOK
  <2> QED
    BY <2>4, <2>5, <2>6, <2>7 DEF AssembledWhole, ContentOK
<1> QED
  BY <1>1, Invariance, PTL

(* Frames that are distinct, fit, and lie within the channel they close are        *)
(* accepted in every order and assemble exactly when none is missing (add,         *)
(* decodeReadyChannel).                                                            *)
THEOREM ProperInput == Spec => []ProperAccepted
<1>1. IInv => ProperAccepted
  BY DEF IInv, ChannelInv
<1> QED
  BY <1>1, Invariance, PTL

(* What a complete decoding of a span returns is what was encoded, in whatever way  *)
(* its transactions are spread over blocks and whatever fields they have; no lookup *)
(* is out of range, every item is used, a stream with an item missing or too many   *)
(* is never decoded, and no block number wraps around (decodeSpan, readTransactions,*)
(* deriveBlocks).                                                                   *)
THEOREM SpanRoundTrip == Spec => []RoundTrip
<1>1. IInv => RoundTrip
  BY SpanDecoded DEF IInv
<1> QED
  BY <1>1, Invariance, PTL

(* A channel is returned exactly when all its blocks are among those the Inbox     *)
(* submission commits to, up to the last uint64 (decodeReadyChannel).              *)
THEOREM CommitmentExact == Spec => []InsideCommitment
<1>1. IInv => InsideCommitment
  BY DEF IInv
<1> QED
  BY <1>1, Invariance, PTL
===============================================================================
