------------------------------- MODULE BlobSync -------------------------------
(***************************************************************************)
(* The Blob worker of internal/blobingest: a Step first enforces the       *)
(* retention window, in a commit of its own that does not move the scan    *)
(* checkpoint, then scans the submissions of a window of confirmed blocks, *)
(* fetches the Blobs they refer to, decodes complete channels and commits. *)
(*                                                                         *)
(* Which senders are authorised is a property of the submission here, see  *)
(* InboxChain; how the worker finds out (initialize, authLogs, the check   *)
(* of the bootstrap's anchor) is AuthSync.  Those calls belong to "anchor" *)
(* and "height3": when they fail the Step does what it does when the calls *)
(* of these two places fail.  The deposit worker and the HTTP handlers     *)
(* appear as FatalElsewhere and DepositStored.                             *)
(***************************************************************************)
EXTENDS InboxChain, BlobStore, Status

CONSTANTS Start,          \* Config.InboxStart
          Confirmations,  \* Config.Confirmations
          BatchSize,      \* Config.BatchSize
          Retention,      \* BlobRetentionSeconds
          MaxQueued,      \* bound: deposits stored by the other worker
          MaxCrashes      \* bound: number of restarts

ASSUME BlobConfigAssumption ==
  /\ Start \in Nat
  /\ Confirmations \in Nat
  /\ BatchSize \in Nat \ {0}
  /\ Retention \in Nat
  /\ MaxQueued \in Nat
  /\ MaxCrashes \in Nat
  /\ MaxU64 > 2 * MaxHeight  \* 2^64-1 commits are out of any chain's reach

VARIABLES pc,         \* where the worker is in Run / Step
          v,          \* the locals of the Step
          blobReady,  \* Status.blobReady
          queued,     \* number of deposits stored
          crashes

vars == <<tip, chain, epoch, txs, channels, index, blocks, txExpiry, chExpiry,
          bstate, ready, fatal, pc, v, blobReady, queued, crashes>>

restVars == <<ready, fatal, queued, crashes>>

NoBlock == [at |-> 0, e |-> 0]
NoSub == [tx |-> Nil]

Fresh == [st |-> NoBlobState, target |-> 0, confirmed |-> NoHash, from |-> 0,
          end |-> 0, anchor |-> NoHash, block |-> NoBlock, subs |-> {},
          sub |-> NoSub, refs |-> {}, sources |-> {}, cache |-> {}, txs |-> {},
          channels |-> {}]

Goto(l) == pc' = l

Return(l) == Goto(l) /\ v' = Fresh

\* SetBlobReady(r).
SetBlobReady(r) == blobReady' = (r /\ ~fatal)

-------------------------------------------------------------------------------
(* check, checkpoint. *)

AnyAnchor(n, hash) == TRUE                                \* fault

\* The header of block n, when the chain has one, still has this hash.
AnchorHolds(n, hash) == hash = HashAt(n)

Confirms(n, hash) == n <= tip /\ AnchorHolds(n, hash)

Refutes(n, hash) == n <= tip /\ ~AnchorHolds(n, hash)

\* checkpoint checks the retention head, if there is one, and then the scanned
\* block, if there is one; it is called at three places of a Step.
AfterHead == [head1 |-> "height1", head2 |-> "height2", head3 |-> "height3"]
AfterHeight == [height1 |-> "tip", height2 |-> "retain", height3 |-> "commit"]

CheckHead ==
  /\ pc \in DOMAIN AfterHead
  /\ v.st.retHeight # Nil => Confirms(v.st.retHeight, v.st.retHash)
  /\ Goto(AfterHead[pc])
  /\ UNCHANGED <<chainVars, storeVars, restVars, v, blobReady>>

CheckHeight ==
  /\ pc \in DOMAIN AfterHeight
  /\ v.st.height # Nil => Confirms(v.st.height, v.st.hash)
  /\ Goto(AfterHeight[pc])
  /\ UNCHANGED <<chainVars, storeVars, restVars, v, blobReady>>

-------------------------------------------------------------------------------
(* prepare: the confirmed block, and the retention commit. *)

Confirmed(t) == IF t >= Confirmations THEN t - Confirmations ELSE 0

Cutoff(h) == IF Time(h) >= Retention THEN Time(h) - Retention ELSE 0

\* After a fatal error the Run loop ends, or the Step returns the error at once.
StartStep ==
  /\ pc = "idle"
  /\ \/ fatal /\ \E l \in {"stopped", "halt"} : Return(l)
     \/ ~fatal /\ Goto("head1") /\ v' = [Fresh EXCEPT !.st = bstate]
  /\ UNCHANGED <<chainVars, storeVars, restVars, blobReady>>

ReadTip ==
  /\ pc = "tip"
  /\ v' = [v EXCEPT !.target = Confirmed(tip)]
  /\ Goto("confirmed")
  /\ UNCHANGED <<chainVars, storeVars, restVars, blobReady>>

AlmostCaught == v.st.height + 1 >= v.target               \* fault

Caught == v.st.height >= v.target

ExpiringIfCaught == Caught /\ Cutoff(v.target) > v.st.cutoff   \* fault

\* The confirmed block moves the retention window.
Expiring == Cutoff(v.target) > v.st.cutoff

ReadConfirmed ==
  /\ pc = "confirmed"
  /\ v.target <= tip
  /\ v' = [v EXCEPT !.confirmed = HashAt(v.target)]
  /\ SetBlobReady(Caught)
  /\ Goto(IF Expiring THEN "target" ELSE "plan")
  /\ UNCHANGED <<chainVars, storeVars, restVars>>

CheckTarget ==
  /\ pc = "target"
  /\ Confirms(v.target, v.confirmed)
  /\ Goto("head2")
  /\ UNCHANGED <<chainVars, storeVars, restVars, v, blobReady>>

Retained == [v.st EXCEPT !.cutoff = Cutoff(v.target),
                         !.retHeight = v.target,
                         !.retHash = v.confirmed]

\* The retention commit, and the new checkpoint read back.
Retain ==
  /\ pc = "retain"
  /\ Healthy
  /\ CommitBlob(v.st, Retained, {}, {})
  /\ v' = [v EXCEPT !.st = bstate']
  /\ Goto("plan")
  /\ UNCHANGED <<chainVars, restVars, blobReady>>

-------------------------------------------------------------------------------
(* Step: the window, and scan. *)

\* Nothing to scan yet, or no more.
CaughtUp ==
  /\ pc = "plan"
  /\ Caught \/ Start > v.target
  /\ SetBlobReady(TRUE)
  /\ Return("wait")
  /\ UNCHANGED <<chainVars, storeVars, restVars>>

From(st) == IF st.height # Nil THEN st.height + 1 ELSE Start

PastWindow(from, target) ==                               \* fault
  IF target - from >= BatchSize THEN from + BatchSize ELSE target + 1

WindowEnd(from, target) ==
  IF target - from >= BatchSize THEN from + BatchSize - 1 ELSE target

OpenWindow ==
  /\ pc = "plan"
  /\ ~Caught /\ Start <= v.target
  /\ v' = [v EXCEPT !.from = From(v.st), !.end = WindowEnd(From(v.st), v.target)]
  /\ Goto("anchor")
  /\ UNCHANGED <<chainVars, storeVars, restVars, blobReady>>

AnchorWindow ==
  /\ pc = "anchor"
  /\ v.end <= tip
  /\ v' = [v EXCEPT !.anchor = HashAt(v.end), !.block.at = v.from]
  /\ Goto("block")
  /\ UNCHANGED <<chainVars, storeVars, restVars, blobReady>>

ReadBlock ==
  /\ pc = "block"
  /\ v.block.at <= tip
  /\ v' = [v EXCEPT !.block.e = chain[v.block.at].e,
                    !.subs = {s \in chain[v.block.at].subs : s.auth}]
  /\ Goto("subs")
  /\ UNCHANGED <<chainVars, storeVars, restVars, blobReady>>

\* The block that was read is still the one of its number.
BlockStands == v.block.at <= tip /\ chain[v.block.at].e = v.block.e

\* The receipt of the next submission names the block that was read.
ReadReceipt ==
  /\ pc = "subs"
  /\ BlockStands
  /\ \E s \in v.subs :
       /\ s.ok
       /\ v' = [v EXCEPT !.sub = s, !.subs = @ \ {s}, !.refs = s.refs, !.sources = {}]
  /\ Goto("refs")
  /\ UNCHANGED <<chainVars, storeVars, restVars, blobReady>>

\* ... and says that it failed: nothing was submitted.
SkipFailed ==
  /\ pc = "subs"
  /\ BlockStands
  /\ \E s \in v.subs : ~s.ok /\ v' = [v EXCEPT !.subs = @ \ {s}]
  /\ UNCHANGED <<chainVars, storeVars, restVars, pc, blobReady>>

NextBlock ==
  /\ pc = "subs"
  /\ v.subs = {}
  /\ IF v.block.at = v.end
       THEN Goto("end") /\ v' = v
       ELSE Goto("block") /\ v' = [v EXCEPT !.block.at = @ + 1]
  /\ UNCHANGED <<chainVars, storeVars, restVars, blobReady>>

-------------------------------------------------------------------------------
(* resolveSource: cached in this scan, stored by an earlier one, or fetched. *)

Known(t) == {x \in v.cache \cup txs : x.hash = t}

\* checkSource: the source is not mined after the commitment that refers to it.
Ordered(t) ==
  LET k == Location(t)
  IN  k < v.block.at \/ (k = v.block.at /\ chain[k].e = v.block.e)

\* validateSource: what is known of the source is still where it was.
Unmoved(x) == x.at = Location(x.hash) /\ x.e = chain[x.at].e

Fetched(t, missing) ==
  LET k == Location(t)
  IN  [hash |-> t, at |-> k, e |-> chain[k].e, time |-> Time(k),
       missing |-> missing /\ Time(k) >= v.st.cutoff,
       frames |-> IF missing \/ Time(k) < v.st.cutoff THEN {} ELSE FramesOf[t]]

\* A source older than the cutoff is neither used nor stored.
Use(x, isNew) ==
  v' = [v EXCEPT !.refs = @ \ {x.hash},
                 !.cache = @ \cup {x},
                 !.sources = IF x.time >= v.st.cutoff THEN @ \cup {x} ELSE @,
                 !.txs = IF isNew /\ x.time >= v.st.cutoff THEN @ \cup {x} ELSE @]

ReuseSource(t) ==
  \E x \in Known(t) : Located(t) /\ Ordered(t) /\ Unmoved(x) /\ Use(x, FALSE)

FetchSource(t, missing) ==
  Known(t) = {} /\ Located(t) /\ Ordered(t) /\ Use(Fetched(t, missing), TRUE)

ResolveSource ==
  /\ pc = "refs"
  /\ \E t \in v.refs :
       \/ ReuseSource(t)
       \/ \E missing \in BOOLEAN : FetchSource(t, missing)
  /\ UNCHANGED <<chainVars, storeVars, restVars, pc, blobReady>>

-------------------------------------------------------------------------------
(* DecodeChannels over the sources of one submission. *)

Present(S) == {x \in S : ~x.missing}

HoldsFrame(x, c) == \E n \in 0..EndOf[c] : [ch |-> c, n |-> n] \in x.frames

\* All frames of c are there.
Complete(c, S) ==
  \A n \in 0..EndOf[c] : \E x \in Present(S) : [ch |-> c, n |-> n] \in x.frames

Channel(c, S, sub) ==
  LET P == {x \in Present(S) : HoldsFrame(x, c)}
  IN  [id |-> <<sub.tx, c>>,
       sources |-> {x.hash : x \in P},
       expires |-> MinOf({x.time : x \in P}),
       batch |-> sub.batch,
       blocks |-> [i \in DOMAIN Payload[c] |->
                     [index |-> Payload[c][i].index, batch |-> sub.batch,
                      queue |-> Payload[c][i].queue]]]

Decoded(S, sub) ==
  {Channel(c, S, sub) : c \in {d \in DOMAIN EndOf : Complete(d, S)}}

\* No frame comes twice, and no block lies outside the commitment.
Decodable(S, sub) ==
  /\ \A x, y \in Present(S) : x # y => x.frames \cap y.frames = {}
  /\ \A d \in Decoded(S, sub) :
       /\ d.blocks # <<>>
       /\ \A b \in Elems(d.blocks) : b.index \in sub.first..(sub.first + sub.size - 1)

DecodeChannels ==
  /\ pc = "refs"
  /\ v.refs = {}
  /\ Decodable(v.sources, v.sub)
  /\ v' = [v EXCEPT !.channels = @ \cup Decoded(v.sources, v.sub),
                    !.sub = NoSub, !.sources = {}]
  /\ Goto("subs")
  /\ UNCHANGED <<chainVars, storeVars, restVars, blobReady>>

\* A receipt, a source or a channel that cannot be right.
ScanInvalid ==
  /\ \/ pc = "subs" /\ v.subs # {} /\ ~BlockStands
     \/ /\ pc = "refs"
        /\ \E t \in v.refs :
             /\ Located(t)
             /\ ~Ordered(t) \/ \E x \in Known(t) : ~Unmoved(x)
     \/ pc = "refs" /\ v.refs = {} /\ ~Decodable(v.sources, v.sub)
  /\ Return("halt")
  /\ UNCHANGED <<chainVars, storeVars, restVars, blobReady>>

-------------------------------------------------------------------------------
(* The final checks and the commit of the scan. *)

CheckEnd ==
  /\ pc = "end"
  /\ Confirms(v.end, v.anchor)
  /\ Goto("head3")
  /\ UNCHANGED <<chainVars, storeVars, restVars, v, blobReady>>

Scanned == [v.st EXCEPT !.height = v.end, !.hash = v.anchor]

CommitScan ==
  /\ pc = "commit"
  /\ Healthy
  /\ CommitBlob(v.st, Scanned, v.txs, v.channels)
  /\ Goto("publish")
  /\ UNCHANGED <<chainVars, restVars, v, blobReady>>

Publish ==
  /\ pc = "publish"
  /\ SetBlobReady(v.end = v.target)
  /\ Return(IF v.end = v.target THEN "wait" ELSE "idle")
  /\ UNCHANGED <<chainVars, storeVars, restVars>>

AnchorChanged ==
  /\ \/ /\ pc \in DOMAIN AfterHead /\ v.st.retHeight # Nil
        /\ Refutes(v.st.retHeight, v.st.retHash)
     \/ /\ pc \in DOMAIN AfterHeight /\ v.st.height # Nil
        /\ Refutes(v.st.height, v.st.hash)
     \/ pc = "target" /\ Refutes(v.target, v.confirmed)
     \/ pc = "end" /\ Refutes(v.end, v.anchor)
  /\ Return("halt")
  /\ UNCHANGED <<chainVars, storeVars, restVars, blobReady>>

\* CommitBlob returns an error: a conflict, a missing source, a failed expiry.
CommitRejected ==
  /\ Healthy
  /\ \/ pc = "retain" /\ ~Acceptable(v.st, Retained, {}, {})
     \/ pc = "commit" /\ ~Acceptable(v.st, Scanned, v.txs, v.channels)
  /\ Return("halt")
  /\ UNCHANGED <<chainVars, storeVars, restVars, blobReady>>

\* b.Commit fails, and the batch may or may not have reached the disk, or the
\* checkpoint cannot be read back.
CommitFails ==
  /\ Healthy
  /\ \/ pc = "retain" /\ CommitBlob(v.st, Retained, {}, {})
     \/ pc = "commit" /\ CommitBlob(v.st, Scanned, v.txs, v.channels)
     \/ pc \in {"retain", "commit"} /\ UNCHANGED storeVars
  /\ Return("halt")
  /\ UNCHANGED <<chainVars, restVars, blobReady>>

\* commitIfHealthy sees a fatal error, or the Step's five minutes are over.
CommitRefused ==
  /\ pc \in {"retain", "commit"}
  /\ Return("retry")
  /\ UNCHANGED <<chainVars, storeVars, restVars, blobReady>>

-------------------------------------------------------------------------------
(* Run, and the rest of the system. *)

Calling == DOMAIN AfterHead \cup DOMAIN AfterHeight
             \cup {"tip", "confirmed", "target", "anchor", "block", "end"}

\* An execution RPC call fails, times out, or asks for what the chain has lost.
CallFails ==
  /\ \/ pc \in Calling
     \/ pc = "subs" /\ v.subs # {}
     \/ pc = "refs" /\ v.refs # {}
  /\ Return("retry")
  /\ UNCHANGED <<chainVars, storeVars, restVars, blobReady>>

\* A Blob is needed that is neither cached nor stored nor expired.
BeaconAsked ==
  /\ pc = "refs"
  /\ \E t \in v.refs : Known(t) = {} /\ Located(t) /\ Time(Location(t)) >= v.st.cutoff

\* The Beacon service fails, with an error that is retried.
BeaconFails ==
  /\ BeaconAsked
  /\ Return("retry")
  /\ UNCHANGED <<chainVars, storeVars, restVars, blobReady>>

\* An invalid header, block, log or Blob, or a database error.
BadAnswer ==
  /\ pc \in Calling \cup {"subs", "refs"} \/ (pc = "idle" /\ ~fatal)
  /\ Return("halt")
  /\ UNCHANGED <<chainVars, storeVars, restVars, blobReady>>

RetryGivesUp ==                                           \* fault
  /\ pc = "retry"
  /\ SetBlobReady(FALSE)
  /\ Goto("stopped")
  /\ UNCHANGED <<chainVars, storeVars, restVars, v>>

Retry ==
  /\ pc = "retry"
  /\ SetBlobReady(FALSE)
  /\ Goto(IF fatal THEN "stopped" ELSE "wait")
  /\ UNCHANGED <<chainVars, storeVars, restVars, v>>

Halt ==
  /\ pc = "halt"
  /\ SetBlobReady(FALSE)
  /\ Set(FALSE, TRUE)
  /\ Goto("stopped")
  /\ UNCHANGED <<chainVars, storeVars, v, queued, crashes>>

Poll ==
  /\ pc = "wait"
  /\ Goto(IF fatal THEN "stopped" ELSE "idle")
  /\ UNCHANGED <<chainVars, storeVars, restVars, v, blobReady>>

\* The deposit worker or an HTTP handler publishes a fatal error.
FatalElsewhere ==
  /\ ~fatal
  /\ Set(FALSE, TRUE)
  /\ UNCHANGED <<chainVars, storeVars, pc, v, blobReady, queued, crashes>>

\* The deposit worker commits a deposit.
DepositStored ==
  /\ ~fatal
  /\ queued < MaxQueued
  /\ queued' = queued + 1
  /\ UNCHANGED <<chainVars, storeVars, ready, fatal, pc, v, blobReady, crashes>>

Restart ==
  /\ crashes < MaxCrashes
  /\ crashes' = crashes + 1
  /\ Return("idle")
  /\ ready' = FALSE
  /\ fatal' = FALSE
  /\ blobReady' = FALSE
  /\ UNCHANGED <<chainVars, storeVars, queued>>

-------------------------------------------------------------------------------
Init ==
  /\ ChainInit
  /\ InitBlob
  /\ StatusInit
  /\ pc = "idle"
  /\ v = Fresh
  /\ blobReady = FALSE
  /\ queued = 0
  /\ crashes = 0

Chain == ChainNext /\ UNCHANGED <<storeVars, restVars, pc, v, blobReady>>

Prepare == CheckHead \/ CheckHeight \/ StartStep \/ ReadTip \/ ReadConfirmed
           \/ CheckTarget \/ Retain \/ CaughtUp \/ OpenWindow

Scan == AnchorWindow \/ ReadBlock \/ ReadReceipt \/ SkipFailed \/ NextBlock
        \/ ResolveSource \/ DecodeChannels \/ ScanInvalid \/ CheckEnd \/ CommitScan \/ Publish

Worker == Prepare \/ Scan \/ AnchorChanged \/ CommitRejected \/ Retry \/ Halt
          \/ Poll

Faults == CommitFails \/ CommitRefused \/ CallFails \/ BeaconFails \/ BadAnswer
          \/ Restart

Others == FatalElsewhere \/ DepositStored

\* A halted worker does nothing more; the process keeps answering HTTP.
Stopped == pc = "stopped" /\ UNCHANGED vars

Next == Chain \/ Worker \/ Faults \/ Others \/ Stopped

Spec == Init /\ [][Next]_vars

-------------------------------------------------------------------------------
(* Safety. *)

\* Every variable has its type: the locals are a Step's, the checkpoint is one the
\* bounds allow.
TypeOK ==
  /\ tip \in 0..MaxHeight
  /\ DOMAIN chain = 0..tip
  /\ epoch \in 0..MaxReorgs
  /\ {bstate.height, bstate.retHeight} \subseteq Nil..MaxHeight
  /\ bstate.revision \in 0..MaxU64
  /\ bstate.cutoff \in Nat
  /\ {ready, fatal, blobReady} \subseteq BOOLEAN
  /\ DOMAIN v = DOMAIN Fresh
  /\ v.from \in 0..MaxHeight + 1 /\ v.end \in 0..MaxHeight
  /\ v.target \in 0..MaxHeight
  /\ queued \in 0..MaxQueued

\* Each index entry leads to a block, a channel and unexpired sources, and the
\* checkpoint names the highest entry, after any mix of scans, expiries and
\* deposits that arrive before or after the block. So GetBlock answers with an
\* integrity error, for a block or for the latest, only if the block as it was
\* published has the queue index that no deposit can have.
ReadsSucceed ==
  /\ \A p \in index : \E b \in blocks :
       /\ b.index = p.number /\ Intact(b)
       /\ Readable(b, queued) \/ MaxU64 \in Elems(b.queue)
  /\ bstate.latest = LatestIndex(index)

\* The submissions of the scanned part of the chain, and the sources they refer to
\* that have not expired.
Committed ==
  IF bstate.height = Nil THEN {}
  ELSE {s \in UNION {bstate.hash[k].subs : k \in Start..bstate.height} : InForce(s)}

Retrievable ==
  {t \in UNION {s.refs : s \in Committed} :
     \E k \in 0..bstate.height :
       t \in bstate.hash[k].txs /\ Time(k) >= bstate.cutoff}

\* The database holds what the scanned chain says and nothing else: exactly the
\* unexpired sources, each as mined on that chain, and exactly the channels that
\* these sources complete, with their blocks and expiry keys, whatever the chain
\* and the Beacon service did during the scans.
RetainedFaithful ==
  /\ {t.hash : t \in txs} = Retrievable
  /\ \A t \in txs : t.hash \in bstate.hash[t.at].txs /\ t.e = bstate.hash[t.at].e
  /\ LET found == UNION {Decoded({t \in txs : t.hash \in s.refs}, s) : s \in Committed}
     IN  /\ channels = {Record(c) : c \in found}
         /\ index = NewIndex(found)
         /\ blocks = NewBlocks(found)
         /\ chExpiry = {[time |-> c.expires, id |-> c.id] : c \in found}
  /\ txExpiry = {[time |-> t.time, id |-> t.hash] : t \in txs}

\* "Expiring any source transaction removes all dependent channels and L2 blocks"
\* (README.md:167): the store never refuses the retention commit, whatever it has
\* accepted before; a refusal halts the service.
RetentionNeverRefused ==
  pc = "retain" => Acceptable(v.st, Retained, {}, {})

\* The Blob worker is reported ready only when the database holds every block from
\* Start to the confirmed block the Step has read, or Start lies above that block,
\* and never while it scans or commits a window.
BlobReadyIsHonest ==
  [][/\ ~blobReady /\ blobReady' => bstate'.height >= v.target \/ Start > v.target
     /\ blobReady' => pc' \notin {"anchor", "block", "subs", "refs", "end", "head3",
                                  "height3", "commit", "publish"}]_vars

\* A block that GetBlock has served is served unchanged until one of the Blob
\* transactions it came from expires, and then it is gone.
StableAnswers ==
  [][\A b \in blocks :
       Answer(b.index, queued) # {} /\ Answer(b.index, queued)' # {b} =>
         /\ Answer(b.index, queued)' = {}
         /\ \E r \in channels : \E t \in txs :
              /\ b.index \in Elems(r.numbers) /\ t.hash \in r.sources
              /\ t.time < bstate'.cutoff]_vars

\* The committed data move along one chain and one clock: see BlobWindow.
Window == INSTANCE BlobWindow WITH height <- bstate.height,
                                   block  <- bstate.hash,
                                   cutoff <- bstate.cutoff,
                                   kept   <- channels

KeepsWindow == Window!Spec

-------------------------------------------------------------------------------
(* Liveness.  As in DepositSync, every call returns, if only with an error.   *)

FairSpec == Spec /\ WF_vars(Worker \/ CallFails)

\* The execution node has what the worker asks it for.
Answerable ==
  CASE pc \in DOMAIN AfterHead -> v.st.retHeight <= tip
    [] pc \in DOMAIN AfterHeight -> v.st.height <= tip
    [] pc \in {"confirmed", "target"} -> v.target <= tip
    [] pc \in {"anchor", "end"} -> v.end <= tip
    [] pc = "block" -> v.block.at <= tip
    [] pc = "subs" -> BlockStands
    [] pc = "refs" -> \A t \in v.refs : Located(t)
    [] OTHER -> TRUE

\* From some moment on the execution node answers in time what it can answer.
NodeRecovers ==
  <>[][/\ CallFails => ~Answerable \/ BeaconAsked
       /\ ~(CommitRefused /\ Healthy)]_vars

\* From some moment on the Beacon service does, too.
BeaconRecovers == <>[][CallFails => ~Answerable]_vars

\* The chain has lost a block the worker has committed, without a replacement yet.
AnchorLost == tip < bstate.height \/ tip < bstate.retHeight

\* Expired data are removed even if every Beacon request fails: "Cleanup runs [...]
\* while a later Beacon fetch is failing" (README.md:169).
CleanupDespiteBeacon ==
  NodeRecovers =>
    <>[](fatal \/ AnchorLost \/ bstate.cutoff >= Cutoff(Confirmed(tip)))

\* After any outage the worker reaches the confirmed block and says so for good, or
\* halts.  As long as Start lies above the confirmed block it says so in each Step
\* anew: prepare takes it back.
BlobCaughtUp ==
  NodeRecovers /\ BeaconRecovers =>
    /\ <>[](\/ fatal \/ AnchorLost \/ Start > Confirmed(tip)
            \/ (bstate.height >= Confirmed(tip) /\ blobReady))
    /\ []<>(fatal \/ AnchorLost \/ blobReady)
===============================================================================
