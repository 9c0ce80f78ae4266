---------------------------- MODULE StartupProofs ----------------------------
(***************************************************************************)
(* Who a database belongs to, for any set of configurations: the identity  *)
(* is written before anything else is, and never again.                    *)
(***************************************************************************)
EXTENDS Startup, TLAPS

\* What runService has established when it is at a place.
RunOK ==
  /\ cfg \in Configs /\ used \subseteq Configs
  /\ pc \in {"open", "blob", "serving", "refused"} => node = cfg.l1 /\ cfg \in used
  /\ pc \in {"blob", "serving"} => identity = Owner(cfg)
  /\ pc = "blob" => cfg.blob # NoBlob
  /\ pc = "serving" /\ cfg.blob # NoBlob => blobId = cfg.blob

\* Each identity in the database is that of a configuration that has opened it, and
\* the Blob identity that of one under the same owner; it comes with blob/state.
IdentityOK ==
  /\ identity # NoId => \E c \in used : identity = Owner(c)
  /\ blobId # NoId => \E c \in used : /\ identity = Owner(c)
                                      /\ blobId = c.blob /\ c.blob # NoBlob
  /\ blobState <=> blobId # NoId

\* What is in the database is there under its identities, or is foreign.
ContentsOK ==
  /\ \A r \in records \ {Foreign} : r = identity /\ identity # NoId
  /\ \A b \in blobs \ {Foreign} :
       /\ [l1 |-> b.l1, id |-> b.id] = identity
       /\ b.blob = blobId /\ blobId # NoId
  /\ Foreign \in records \cup blobs =>
       /\ born # "empty"
       /\ identity = NoId /\ blobId = NoId /\ records \cup blobs = {Foreign}

IInv == RunOK /\ IdentityOK /\ ContentsOK /\ OwnerNeverRefused

------------------------------------------------------------------------------
USE StartupAssumption DEF Owner

(* A database the service has not seen holds nothing or is foreign. *)
LEMMA InitOK == Init => IInv
BY DEF Init, IInv, RunOK, IdentityOK, ContentsOK, OwnerNeverRefused

(* Nothing on disk changes: the process starts, is refused, ends or crashes. *)
LEMMA Idle ==
  ASSUME IInv, UNCHANGED <<dbVars, born>>, used \subseteq used', RunOK'
  PROVE  (pc' = "refused" => pc = "refused") => IInv'
BY DEF IInv, dbVars, IdentityOK, ContentsOK, OwnerNeverRefused

(* Every step preserves the invariant. *)
LEMMA NextOK == IInv /\ [Next]_vars => IInv'
<1> SUFFICES ASSUME IInv, [Next]_vars PROVE IInv'
  OBVIOUS
<1> USE DEF Goto, runVars
<1>1. ASSUME NEW c \in Configs, Start(c) PROVE IInv'
  <2>1. RunOK'
    BY <1>1 DEF Start, IInv, RunOK
  <2> QED
    BY <1>1, <2>1, Idle DEF Start
<1>2. CASE ValidateL1
  <2>1. RunOK'
    BY <1>2 DEF ValidateL1, SameChain, IInv, RunOK, dbVars
  <2> QED
    BY <1>2, <2>1, Idle DEF ValidateL1
<1>3. CASE InitIdentity
  <2> USE <1>3 DEF InitIdentity, Claimable, Nonempty, IInv
  <2>1. RunOK'
    BY DEF RunOK
  <2>2. IdentityOK'
    BY DEF RunOK, IdentityOK
  <2>3. ContentsOK'
    BY DEF ContentsOK, RunOK
  <2>4. OwnerNeverRefused'
    BY DEF OwnerNeverRefused
  <2> QED
    BY <2>1, <2>2, <2>3, <2>4
<1>4. CASE InitBlob
  <2> USE <1>4 DEF InitBlob, IInv
  <2>1. RunOK'
    BY DEF RunOK
  <2>2. IdentityOK'
    BY DEF RunOK, IdentityOK
  <2>3. ContentsOK'
    BY DEF ContentsOK, RunOK
  <2>4. OwnerNeverRefused'
    BY DEF OwnerNeverRefused
  <2> QED
    BY <2>1, <2>2, <2>3, <2>4
<1>5. CASE Refused
  <2> USE <1>5 DEF Refused, dbVars, IInv
  <2>1. RunOK'
    BY DEF RunOK
  <2>2. IdentityOK'
    BY DEF IdentityOK
  <2>3. ContentsOK'
    BY DEF ContentsOK
  <2>4. OwnerNeverRefused'
    <3> SUFFICES ASSUME born = "empty"
                 PROVE  \E c, d \in used :
                          \/ Owner(c) # Owner(d)
                          \/ c.blob # d.blob /\ NoBlob \notin {c.blob, d.blob}
      BY DEF OwnerNeverRefused
    <3>1. CASE pc = "open"
      <4>1. ASSUME identity = NoId PROVE FALSE
        <5>1. blobId = NoId /\ ~blobState
          BY <4>1 DEF IdentityOK, RunOK
        <5>2. records = {} /\ blobs = {}
          BY <4>1, <5>1 DEF ContentsOK
        <5> QED
          BY <3>1, <4>1, <5>1, <5>2 DEF Claimable, Nonempty
      <4> QED
        BY <3>1, <4>1 DEF IdentityOK, RunOK
    <3>2. CASE pc = "blob"
      <4>1. blobId # NoId
        BY <3>2 DEF IdentityOK, ContentsOK
      <4> QED
        BY <3>2, <4>1 DEF IdentityOK, RunOK
    <3> QED
      BY <3>1, <3>2
  <2> QED
    BY <2>1, <2>2, <2>3, <2>4
<1>6. CASE Exit \/ Crash
  <2>1. RunOK'
    BY <1>6 DEF Exit, Crash, IInv, RunOK
  <2> QED
    BY <1>6, <2>1, Idle DEF Exit, Crash
<1>7. CASE CommitDeposits
  <2> USE <1>7 DEF CommitDeposits, IInv
  <2>1. RunOK' /\ IdentityOK' /\ OwnerNeverRefused'
    BY DEF RunOK, IdentityOK, OwnerNeverRefused
  <2>2. ContentsOK'
    BY DEF ContentsOK, RunOK
  <2> QED
    BY <2>1, <2>2
<1>8. CASE CommitBlobs
  <2> USE <1>8 DEF CommitBlobs, IInv
  <2>1. RunOK' /\ IdentityOK' /\ OwnerNeverRefused'
    BY DEF RunOK, IdentityOK, OwnerNeverRefused
  <2>2. ContentsOK'
    BY DEF ContentsOK, RunOK
  <2> QED
    BY <2>1, <2>2
<1>9. CASE UNCHANGED vars
  BY <1>9 DEF vars, IInv, RunOK, IdentityOK, ContentsOK, OwnerNeverRefused
<1> QED
  BY <1>1, <1>2, <1>3, <1>4, <1>5, <1>6, <1>7, <1>8, <1>9 DEF Next

(* The invariant holds in every reachable state.                                  *)
LEMMA Invariance == Spec => []IInv
BY InitOK, NextOK, PTL DEF Spec

(* Whatever configurations, nodes and crashes a database has seen, all it holds    *)
(* was written under its identities, from the chain they name, and a foreign       *)
(* database is not written (initIdentity, InitBlob, validateL1).                   *)
THEOREM Owned == Spec => []OneOwner
<1>1. IInv => OneOwner
  BY DEF IInv, ContentsOK, OneOwner
<1> QED
  BY <1>1, Invariance, PTL

(* A database that began empty refuses a configuration only if another one, that   *)
(* contradicts it, has opened the database: no crash locks its owner out.          *)
THEOREM NotRefused == Spec => []OwnerNeverRefused
<1>1. IInv => OwnerNeverRefused
  BY DEF IInv
<1> QED
  BY <1>1, Invariance, PTL
==============================================================================
