------------------------------ MODULE BeaconClient ------------------------------
(***************************************************************************)
(* The Beacon client of internal/blob/beacon.go: Frames asks a consensus   *)
(* node for the blobs of one transaction.  It first needs the slot of the  *)
(* block: the header names it, or it is computed from the node's clock,    *)
(* which two requests read once and the client keeps.  What Frames returns *)
(* decides what the blob worker does: frames are stored, "missing" skips   *)
(* the batch for good, "retry" repeats the call, "invalid" halts the       *)
(* worker.                                                                 *)
(*                                                                         *)
(* The node is external: it may fail any request, and what it holds        *)
(* changes between requests (it syncs, and it prunes).                     *)
(***************************************************************************)
EXTENDS Integers, Sequences, SequencesExt

CONSTANTS Headers,     \* block headers [slot, time]; slot is None before Amsterdam
          HashLists,   \* the blob hashes of a transaction, in order
          Blobs,       \* blobs the node may hold, named by their hash
          FramesOf,    \* FramesOf[b]: the frames in blob b
          Slots,       \* the slots the node knows
          Genesis, Seconds,  \* the clock of the chain
          Modulus,     \* 2^64
          None

ASSUME BeaconAssumption ==
  /\ Genesis \in Nat /\ Seconds \in Nat \ {0} /\ Modulus \in Nat
  /\ Slots \subseteq Nat
  /\ HashLists \subseteq Seq(Blobs) \ {<<>>}   \* a referenced transaction has blobs
  /\ \A h \in Headers : h.time \in 0..(Modulus - 1) /\ h.slot \in Slots \cup {None}

VARIABLES held,    \* held[s]: the blobs the node holds for slot s
          clock,   \* genesis and seconds, None until clockReady
          call,    \* [header, hashes] of the call under way
          genesis, \* the answer to the first clock request
          slot,
          result,  \* [kind, frames] of the last call
          pc

vars == <<held, clock, call, genesis, slot, result, pc>>

Wanted == Range(call.hashes)

NoResult == [kind |-> "none", frames |-> <<>>]

Return(kind) ==
  /\ result' = [kind |-> kind, frames |-> <<>>]
  /\ pc' = "idle"

-------------------------------------------------------------------------------
(* The consensus node: external. *)

Change ==
  /\ \E s \in Slots, b \in Blobs :
       held' = [held EXCEPT ![s] = IF b \in @ THEN @ \ {b} ELSE @ \cup {b}]
  /\ UNCHANGED <<clock, call, genesis, slot, result, pc>>

\* The requests this client makes, by the step that makes them.
Requests == {"genesis", "spec", "blobs"}

Holding(s) == IF s \in Slots THEN held[s] ELSE {}

\* A node that has nothing for a slot may answer 404 to a request for its blobs;
\* a proxy in front of it may do so for the other paths at any time.
NotFound(path) == path = "blobs" => Holding(slot) \cap Wanted = {}

\* The node returns what it holds of the wanted blobs, in any order; a faulty one
\* adds a blob that was not asked for, one twice, or one that does not decode.
Responses ==
  LET S == Holding(slot) \cap Wanted
      honest == SetToSeqs(S)
  IN  honest \cup {Append(r, b) : r \in honest, b \in Blobs \cup {"undecodable"}}

-------------------------------------------------------------------------------
(* request. *)

AnyNotFound(path, status) ==                                        \* fault
  IF status = "404" THEN "missing"
  ELSE IF status \in {"transport", "busy"} THEN "retry" ELSE "invalid"

\* What a request that does not succeed returns: "busy" is 429 or 5xx, "refused"
\* another status, "garbage" an oversized or malformed body.
Classify(path, status) ==
  IF status = "404" /\ path = "blobs" THEN "missing"
  ELSE IF status \in {"transport", "busy"} THEN "retry" ELSE "invalid"

RequestFails ==
  /\ pc \in Requests
  /\ \E status \in {"transport", "busy", "refused", "garbage", "404"} :
       /\ status = "404" => NotFound(pc)
       /\ Return(Classify(pc, status))
  /\ UNCHANGED <<held, clock, call, genesis, slot>>

-------------------------------------------------------------------------------
(* Slot. *)

Call ==
  /\ pc = "idle"
  /\ \E h \in Headers, l \in HashLists :
       /\ call' = [header |-> h, hashes |-> l]
       /\ pc' = IF h.slot = None /\ clock = None THEN "genesis" ELSE "slot"
  /\ slot' = None
  /\ result' = NoResult
  /\ UNCHANGED <<held, clock, genesis>>

AskGenesis ==
  /\ pc = "genesis"
  /\ genesis' \in {Genesis, None}      \* None: not a number
  /\ pc' = "spec"
  /\ UNCHANGED <<held, clock, call, slot, result>>

\* The clock is kept only when both answers are numbers and seconds is not zero.
AskSpec ==
  /\ pc = "spec"
  /\ \E seconds \in {Seconds, 0, None} :
       IF genesis = None \/ seconds \in {0, None}
         THEN Return("invalid") /\ UNCHANGED clock
         ELSE /\ clock' = [genesis |-> genesis, seconds |-> seconds]
              /\ pc' = "slot"
              /\ UNCHANGED result
  /\ UNCHANGED <<held, call, genesis, slot>>

NeverBefore(h) == FALSE                                             \* fault

\* A timestamp before the genesis has no slot.
BeforeGenesis(h) == h.time < clock.genesis

FindSlot ==
  /\ pc = "slot"
  /\ LET h == call.header
     IN  CASE h.slot # None ->
                slot' = h.slot /\ pc' = "blobs" /\ UNCHANGED result
           [] h.slot = None /\ BeforeGenesis(h) ->
                Return("invalid") /\ UNCHANGED slot
           [] OTHER ->
                /\ slot' = ((h.time - clock.genesis) % Modulus) \div clock.seconds
                /\ pc' = "blobs"
                /\ UNCHANGED result
  /\ UNCHANGED <<held, clock, call, genesis>>

-------------------------------------------------------------------------------
(* Frames. *)

\* Every blob decodes, was asked for, and comes once.
Acceptable(r) == Range(r) \subseteq Wanted /\ IsInjective(r)

Concat(l) == FlattenSeq([k \in DOMAIN l |-> FramesOf[l[k]]])

\* The frames in the order of the transaction's hashes, a repeated hash repeated.
Outcome(r) ==
  CASE ~Acceptable(r)          -> [kind |-> "invalid", frames |-> <<>>]
    [] Acceptable(r) /\ ~(Wanted \subseteq Range(r)) -> [kind |-> "missing", frames |-> <<>>]
    [] OTHER                   -> [kind |-> "frames", frames |-> Concat(call.hashes)]

AskBlobs ==
  /\ pc = "blobs"
  /\ \E r \in Responses : result' = Outcome(r)
  /\ pc' = "idle"
  /\ UNCHANGED <<held, clock, call, genesis, slot>>

Init ==
  /\ held \in [Slots -> SUBSET Blobs]
  /\ clock = None
  /\ call = None
  /\ genesis = None
  /\ slot = None
  /\ result = NoResult
  /\ pc = "idle"

Next ==
  \/ Change \/ RequestFails
  \/ Call \/ AskGenesis \/ AskSpec \/ FindSlot \/ AskBlobs

Spec == Init /\ [][Next]_vars

-------------------------------------------------------------------------------
(* The slot in which a block was proposed, by the clock of the chain. *)

Proposed(s, h) ==
  IF h.slot # None THEN s = h.slot
  ELSE Genesis + s * Seconds <= h.time /\ h.time < Genesis + (s + 1) * Seconds

\* Blobs are only ever asked for at the slot of their block, whichever requests
\* for the clock failed before, and never at a slot that wrapped around (Slot).
SlotFaithful == pc = "blobs" => Proposed(slot, call.header)

\* When a batch is skipped as unavailable, the node does not hold all of its blobs
\* at the slot of its block: no failure of a request, no missing clock and no
\* answer to an earlier call makes the worker skip a batch (README, "Unavailable
\* Blob data is skipped").
SkipsOnlyMissing ==
  [][result'.kind = "missing" /\ result.kind = "none" =>
       \A s \in Slots : Proposed(s, call.header) => ~(Wanted \subseteq held[s])]_vars
===============================================================================
