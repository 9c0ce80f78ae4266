-------------------------- MODULE BeaconClientProofs --------------------------
(***************************************************************************)
(* The Beacon client for any clock, any headers and any width of the       *)
(* timestamps: the slot it asks for is that of the block, and it reports   *)
(* blobs missing only if the node does not hold them there.                *)
(***************************************************************************)
EXTENDS BeaconClient, FiniteSetTheorems, TLAPS

Clock == [genesis |-> Genesis, seconds |-> Seconds]

\* The clock that is kept, and the part of it that is known, are the chain's.
ClockOK ==
  /\ clock \in {None, Clock}
  /\ genesis \in {None, Genesis}

\* A call under way is one the worker makes; its slot is computed only when the
\* header names it or the clock is known, and is that of its block.
CallOK ==
  /\ pc \in {"idle", "slot"} \cup Requests
  /\ pc # "idle" =>
       /\ call.header \in Headers /\ call.hashes \in HashLists
       /\ result = NoResult
  /\ pc = "slot" => call.header.slot # None \/ clock = Clock
  /\ pc = "blobs" => slot \in Nat /\ Proposed(slot, call.header)

IInv == ClockOK /\ CallOK

-------------------------------------------------------------------------------
USE BeaconAssumption

(* Division of naturals, between its bounds. *)
LEMMA DivBounds ==
  ASSUME NEW a \in Nat, NEW b \in Nat \ {0}
  PROVE  /\ a \div b \in Nat
         /\ (a \div b) * b <= a
         /\ a < ((a \div b) + 1) * b
BY Z3

(* Multiplication by a natural number is monotonic. *)
LEMMA TimesMonotonic ==
  ASSUME NEW a \in Nat, NEW b \in Nat, NEW c \in Nat, a <= b
  PROVE  a * c <= b * c
BY Z3

(* A timestamp that is not before the genesis does not wrap around, and the slot   *)
(* computed from it is the one that covers it.                                     *)
LEMMA SlotCovers ==
  ASSUME NEW t \in 0..(Modulus - 1), Genesis <= t
  PROVE  LET s == ((t - Genesis) % Modulus) \div Seconds
         IN  s \in Nat /\ Genesis + s * Seconds <= t /\ t < Genesis + (s + 1) * Seconds
<1>1. (t - Genesis) % Modulus = t - Genesis
  BY Z3
<1>2. t - Genesis \in Nat
  OBVIOUS
<1> DEFINE s == (t - Genesis) \div Seconds
<1>3. s \in Nat /\ s * Seconds <= t - Genesis /\ t - Genesis < (s + 1) * Seconds
  BY <1>2, DivBounds
<1> HIDE DEF s
<1>4. s * Seconds \in Int /\ (s + 1) * Seconds \in Int
  BY <1>3
<1>5. s \in Nat /\ Genesis + s * Seconds <= t /\ t < Genesis + (s + 1) * Seconds
  BY <1>3, <1>4
<1> QED
  BY <1>1, <1>5 DEF s

(* A block was proposed in one slot. *)
LEMMA SlotUnique ==
  ASSUME NEW h \in Headers, NEW s \in Nat, NEW r \in Nat, Proposed(s, h), Proposed(r, h)
  PROVE  s = r
<1>1. CASE h.slot # None
  BY <1>1 DEF Proposed
<1>2. CASE h.slot = None
  <2>1. ASSUME NEW a \in Nat, NEW b \in Nat, Proposed(a, h), Proposed(b, h) PROVE b <= a
    <3>1. SUFFICES ASSUME a + 1 <= b PROVE FALSE
      BY <2>1
    <3>2. (a + 1) * Seconds <= b * Seconds
      BY <3>1, TimesMonotonic
    <3>3. (a + 1) * Seconds \in Int /\ b * Seconds \in Int /\ h.time \in Int
      OBVIOUS
    <3>4. Genesis + b * Seconds <= h.time /\ h.time < Genesis + (a + 1) * Seconds
      BY <1>2, <2>1 DEF Proposed
    <3> QED
      BY <3>2, <3>3, <3>4
  <2> QED
    BY <2>1
<1> QED
  BY <1>1, <1>2

-------------------------------------------------------------------------------
(* Nothing is known before the first call. *)
LEMMA InitOK == Init => IInv
BY DEF Init, IInv, ClockOK, CallOK, Requests

(* Every step preserves the invariant. *)
LEMMA NextOK == IInv /\ [Next]_vars => IInv'
<1> SUFFICES ASSUME IInv, [Next]_vars PROVE IInv'
  OBVIOUS
<1> USE DEF IInv, ClockOK, CallOK, Requests
<1>1. CASE Change
  BY <1>1 DEF Change, Proposed
<1>2. CASE RequestFails
  BY <1>2 DEF RequestFails, Return
<1>3. CASE Call
  <2>1. PICK h \in Headers, l \in HashLists :
          /\ call' = [header |-> h, hashes |-> l]
          /\ pc' = IF h.slot = None /\ clock = None THEN "genesis" ELSE "slot"
    BY <1>3 DEF Call
  <2> QED
    BY <1>3, <2>1 DEF Call
<1>4. CASE AskGenesis
  BY <1>4 DEF AskGenesis
<1>5. CASE AskSpec
  BY <1>5 DEF AskSpec, Return, Clock
<1>6. CASE FindSlot
  <2> DEFINE h == call.header
  <2>0. h \in Headers /\ h.time \in 0..(Modulus - 1) /\ h.slot \in Slots \cup {None}
    BY <1>6 DEF FindSlot
  <2>1. CASE h.slot # None
    BY <1>6, <2>0, <2>1 DEF FindSlot, Proposed
  <2>2. CASE h.slot = None /\ BeforeGenesis(h)
    BY <1>6, <2>2 DEF FindSlot, Return
  <2>3. CASE h.slot = None /\ ~BeforeGenesis(h)
    <3>1. clock = Clock
      BY <1>6, <2>3 DEF FindSlot
    <3>2. Genesis <= h.time
      BY <2>0, <2>3, <3>1 DEF BeforeGenesis, Clock
    <3>3. /\ slot' = ((h.time - Genesis) % Modulus) \div Seconds
          /\ pc' = "blobs"
          /\ UNCHANGED <<result, held, clock, call, genesis>>
      BY <1>6, <2>3, <3>1 DEF FindSlot, Clock
    <3>4. slot' \in Nat /\ Proposed(slot', h)
      BY <2>0, <2>3, <3>2, <3>3, SlotCovers DEF Proposed
    <3> QED
      BY <1>6, <3>3, <3>4 DEF FindSlot, Proposed
  <2> QED
    BY <2>1, <2>2, <2>3
<1>7. CASE AskBlobs
  BY <1>7 DEF AskBlobs
<1>8. CASE UNCHANGED vars
  BY <1>8 DEF vars, Proposed
<1> QED
  BY <1>1, <1>2, <1>3, <1>4, <1>5, <1>6, <1>7, <1>8 DEF Next

(* The invariant holds in every reachable state.                                  *)
LEMMA Invariance == Spec => []IInv
BY InitOK, NextOK, PTL DEF Spec

(* Blobs are asked for at the slot of their block and nowhere else, whichever      *)
(* requests for the clock failed before: the clock is kept only when it is whole,  *)
(* and no timestamp wraps around (Slot).                                           *)
THEOREM AsksAtSlot == Spec => []SlotFaithful
<1>1. IInv => SlotFaithful
  BY DEF IInv, CallOK, SlotFaithful
<1> QED
  BY <1>1, Invariance, PTL

-------------------------------------------------------------------------------
(* What is missing. *)

(* The blobs of a transaction are finitely many, and at least one. *)
LEMMA WantedFinite ==
  ASSUME IInv, pc = "blobs"
  PROVE  IsFiniteSet(Wanted) /\ Wanted # {}
<1> DEFINE l == call.hashes
<1>1. l \in Seq(Blobs) \ {<<>>}
  BY DEF IInv, CallOK
<1>2. Len(l) \in Nat \ {0} /\ DOMAIN l = 1..Len(l)
  BY <1>1
<1>3. IsFiniteSet(1..Len(l))
  BY <1>2, FS_Interval
<1>4. l \in Surjection(1..Len(l), Wanted)
  BY <1>1, <1>2 DEF Surjection, Wanted, Range
<1>5. IsFiniteSet(Wanted)
  BY <1>3, <1>4, FS_Surjection
<1>6. l[1] \in Wanted
  BY <1>2 DEF Wanted, Range
<1> QED
  BY <1>5, <1>6

(* Listing a finite set leaves nothing out. *)
LEMMA ListsAll ==
  ASSUME NEW S, IsFiniteSet(S), NEW r \in SetToSeqs(S)
  PROVE  r \in Seq(S) /\ Range(r) = S
<1> DEFINE D == 1..Cardinality(S)
<1>1. Cardinality(S) \in Nat
  BY FS_CardinalityType
<1>2. r \in [D -> S] /\ \A i, j \in D : i # j => r[i] # r[j]
  BY DEF SetToSeqs
<1>3. r \in Injection(D, S)
  BY <1>2 DEF Injection, IsInjective
<1>4. Cardinality(D) = Cardinality(S)
  BY <1>1, FS_Interval
<1>5. r \in Surjection(D, S)
  BY <1>3, <1>4, FS_Injection
<1> QED
  BY <1>1, <1>2, <1>5 DEF Surjection, Range

(* An answer of the node has all the wanted blobs it holds. *)
LEMMA AnswersHeld ==
  ASSUME IInv, pc = "blobs", NEW r \in Responses
  PROVE  Holding(slot) \cap Wanted \subseteq Range(r)
<1> DEFINE S == Holding(slot) \cap Wanted
<1>1. IsFiniteSet(S)
  BY WantedFinite, FS_Subset
<1>2. CASE r \in SetToSeqs(S)
  BY <1>1, <1>2, ListsAll
<1>3. CASE \E q \in SetToSeqs(S), b \in Blobs \cup {"undecodable"} : r = Append(q, b)
  <2>1. PICK q \in SetToSeqs(S), b \in Blobs \cup {"undecodable"} : r = Append(q, b)
    BY <1>3
  <2>2. q \in Seq(S) /\ Range(q) = S
    BY <1>1, ListsAll
  <2>3. \A i \in DOMAIN q : i \in DOMAIN r /\ r[i] = q[i]
    <3>1. q \in Seq(S \cup {b})
      BY <2>2
    <3> QED
      BY <2>1, <3>1
  <2> QED
    BY <2>2, <2>3 DEF Range
<1>4. r \in SetToSeqs(S)
      \/ \E q \in SetToSeqs(S), b \in Blobs \cup {"undecodable"} : r = Append(q, b)
  <2> DEFINE honest == SetToSeqs(S)
             extra == Blobs \cup {"undecodable"}
  <2>1. Responses = honest \cup {Append(q, b) : q \in honest, b \in extra}
    BY DEF Responses
  <2> HIDE DEF honest, extra
  <2>2. r \in honest \/ \E q \in honest, b \in extra : r = Append(q, b)
    BY <2>1, SMT
  <2> QED
    BY <2>2 DEF honest, extra
<1> QED
  BY <1>2, <1>3, <1>4

(* A batch is skipped as unavailable only if the node does not hold all its blobs  *)
(* at the slot of its block: a request that fails, an unknown clock and a 404 for  *)
(* another path are no reason (Frames, request).                                   *)
THEOREM SkipsJustly == Spec => SkipsOnlyMissing
<1> DEFINE Skips == result'.kind = "missing" /\ result.kind = "none"
           Absent == \A s \in Slots : Proposed(s, call.header) => ~(Wanted \subseteq held[s])
<1>1. IInv /\ [Next]_vars => [Skips => Absent]_vars
  <2> SUFFICES ASSUME IInv, Next, Skips PROVE Absent
    BY DEF vars
  <2>1. ASSUME pc = "blobs", ~(Wanted \subseteq Holding(slot)) PROVE Absent
    <3> SUFFICES ASSUME NEW s \in Slots, Proposed(s, call.header)
                 PROVE  ~(Wanted \subseteq held[s])
      OBVIOUS
    <3>1. s = slot
      BY <2>1, SlotUnique DEF IInv, CallOK
    <3> QED
      BY <2>1, <3>1 DEF Holding
  <2>2. CASE RequestFails
    <3>1. PICK status : /\ status = "404" => NotFound(pc)
                        /\ Return(Classify(pc, status))
      BY <2>2 DEF RequestFails
    <3>2. pc = "blobs" /\ status = "404"
      BY <3>1 DEF Return, Classify
    <3>3. ~(Wanted \subseteq Holding(slot))
      BY <3>1, <3>2, WantedFinite DEF NotFound
    <3> QED
      BY <2>1, <3>2, <3>3
  <2>3. CASE AskBlobs
    <3>1. PICK r \in Responses : result' = Outcome(r)
      BY <2>3 DEF AskBlobs
    <3>2. ~(Wanted \subseteq Range(r))
      BY <3>1 DEF Outcome
    <3>3. pc = "blobs"
      BY <2>3 DEF AskBlobs
    <3>4. ~(Wanted \subseteq Holding(slot))
      BY <3>2, <3>3, AnswersHeld
    <3> QED
      BY <2>1, <3>3, <3>4
  <2>4. CASE Change \/ Call \/ AskGenesis \/ AskSpec \/ FindSlot
    BY <2>4 DEF Change, Call, AskGenesis, AskSpec, FindSlot, Return, NoResult
  <2> QED
    BY <2>2, <2>3, <2>4 DEF Next
<1> QED
  BY <1>1, Invariance, PTL DEF Spec, SkipsOnlyMissing
===============================================================================
