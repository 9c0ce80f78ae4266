------------------------------- MODULE Startup -------------------------------
(***************************************************************************)
(* Who a database belongs to: runService opens it under an identity made   *)
(* of the configuration (initIdentity) and, when Blobs are enabled, claims *)
(* the blob/ namespace for a second one (InitBlob).  The process may be    *)
(* stopped between any two steps and started again with another            *)
(* configuration, on another node or on a foreign database.                *)
(*                                                                         *)
(* A configuration is [l1, id, blob]: the L1 chain id, the rest of the     *)
(* identity, and the Blob identity or NoBlob.  Records carry who wrote     *)
(* them and from which chain: [l1, id] and [l1, id, blob].                 *)
(***************************************************************************)
EXTENDS Naturals, FiniteSets

CONSTANTS Configs,   \* the configurations the service may be started with
          Chains,    \* the L1 chains a node may serve
          NoBlob, NoId, Foreign

\* No configuration encodes to an absent identity or to foreign data.
ASSUME StartupAssumption ==
  \A c \in Configs :
    /\ c.l1 \in Chains
    /\ c.blob # NoId
    /\ [l1 |-> c.l1, id |-> c.id] \notin {NoId, Foreign}
    /\ [l1 |-> c.l1, id |-> c.id, blob |-> c.blob] # Foreign

VARIABLES identity,   \* the identity key: [l1, id], or NoId
          records,    \* what the deposit namespace holds, by writer
          blobId,     \* blob/identity, or NoId
          blobState,  \* whether blob/state exists
          blobs,      \* what the blob/ namespace holds, by writer
          pc,         \* where runService is
          cfg,        \* its configuration
          node,       \* the chain of its node
          born,       \* history: what the database was before the service saw it
          used        \* history: the configurations that got as far as opening it

dbVars == <<identity, records, blobId, blobState, blobs>>
runVars == <<cfg, node, born>>
vars == <<identity, records, blobId, blobState, blobs, pc, cfg, node, born, used>>

Owner(c) == [l1 |-> c.l1, id |-> c.id]

Goto(l) == pc' = l

-------------------------------------------------------------------------------
(* runService: validateL1, Open with initIdentity, InitBlob. *)

Start(c) ==
  /\ pc = "down"
  /\ cfg' = c
  /\ node' \in Chains
  /\ Goto("validate")
  /\ UNCHANGED <<dbVars, born, used>>

AnyChain == TRUE                                                 \* fault

SameChain == node = cfg.l1

\* A node of another chain is refused before the database is opened.
ValidateL1 ==
  /\ pc = "validate"
  /\ IF SameChain
       THEN Goto("open") /\ used' = used \cup {cfg}
       ELSE Goto("down") /\ used' = used
  /\ UNCHANGED <<dbVars, runVars>>

Nonempty == records # {} \/ blobId # NoId \/ blobState \/ blobs # {}

\* An identity is written only to an empty database.
Claimable == identity = NoId /\ ~Nonempty

InitIdentity ==
  /\ pc = "open"
  /\ \/ identity = Owner(cfg) /\ UNCHANGED identity
     \/ Claimable /\ identity' = Owner(cfg)
  /\ Goto(IF cfg.blob = NoBlob THEN "serving" ELSE "blob")
  /\ UNCHANGED <<records, blobId, blobState, blobs, runVars, used>>

InitBlobNoState ==                                               \* fault
  /\ pc = "blob"
  /\ \/ blobId = cfg.blob /\ blobState /\ UNCHANGED blobId
     \/ blobId = NoId /\ ~blobState /\ blobs = {} /\ blobId' = cfg.blob
  /\ Goto("serving")
  /\ UNCHANGED <<identity, records, blobState, blobs, runVars, used>>

\* Identity and empty checkpoint are one batch.
InitBlob ==
  /\ pc = "blob"
  /\ \/ blobId = cfg.blob /\ blobState /\ UNCHANGED <<blobId, blobState>>
     \/ /\ blobId = NoId /\ ~blobState /\ blobs = {}
        /\ blobId' = cfg.blob
        /\ blobState' = TRUE
  /\ Goto("serving")
  /\ UNCHANGED <<identity, records, blobs, runVars, used>>

Refused ==
  /\ \/ pc = "open" /\ identity # Owner(cfg) /\ ~Claimable
     \/ /\ pc = "blob"
        /\ ~(blobId = cfg.blob /\ blobState)
        /\ blobId # NoId \/ blobState \/ blobs # {}
  /\ Goto("refused")
  /\ UNCHANGED <<dbVars, runVars, used>>

Exit ==
  /\ pc = "refused"
  /\ Goto("down")
  /\ UNCHANGED <<dbVars, runVars, used>>

-------------------------------------------------------------------------------
(* The workers' commits, and the end of the process at any moment. *)

CommitDeposits ==
  /\ pc = "serving"
  /\ records' = records \cup {[l1 |-> node, id |-> cfg.id]}
  /\ UNCHANGED <<identity, blobId, blobState, blobs, pc, runVars, used>>

CommitBlobs ==
  /\ pc = "serving"
  /\ cfg.blob # NoBlob
  /\ blobs' = blobs \cup {[l1 |-> node, id |-> cfg.id, blob |-> cfg.blob]}
  /\ UNCHANGED <<identity, records, blobId, blobState, pc, runVars, used>>

\* Also the failing write of an identity, which did or did not reach the disk.
Crash ==
  /\ pc # "down"
  /\ Goto("down")
  /\ UNCHANGED <<dbVars, runVars, used>>

Init ==
  /\ born \in {"empty", "records", "blobs"}
  /\ identity = NoId /\ blobId = NoId /\ blobState = FALSE
  /\ records = (IF born = "records" THEN {Foreign} ELSE {})
  /\ blobs = (IF born = "blobs" THEN {Foreign} ELSE {})
  /\ pc = "down"
  /\ cfg \in Configs
  /\ node \in Chains
  /\ used = {}

Next == \/ \E c \in Configs : Start(c)
        \/ ValidateL1 \/ InitIdentity \/ InitBlob \/ Refused \/ Exit
        \/ CommitDeposits \/ CommitBlobs \/ Crash

Spec == Init /\ [][Next]_vars

-------------------------------------------------------------------------------
\* A database has one owner: whatever configurations, nodes and crashes it has
\* seen, all its deposits come from the chain and the configuration its identity
\* names, all its Blob data also from those its Blob identity names, and a foreign
\* database is never written.
OneOwner ==
  /\ \A r \in records \ {Foreign} : r = identity
  /\ \A b \in blobs \ {Foreign} :
       [l1 |-> b.l1, id |-> b.id] = identity /\ b.blob = blobId
  /\ Foreign \in records \cup blobs => identity = NoId /\ records \cup blobs = {Foreign}

\* "An empty database is safe to initialize after a crash" (identity.go): a
\* database that started empty and has only ever been opened under one
\* configuration, Blobs switched on later or not, never refuses it.
OwnerNeverRefused ==
  pc = "refused" /\ born = "empty" =>
    \E c, d \in used :
      \/ Owner(c) # Owner(d)
      \/ c.blob # d.blob /\ NoBlob \notin {c.blob, d.blob}
==============================================================================
