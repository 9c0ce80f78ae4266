----------------------------- MODULE DepositSync -----------------------------
(***************************************************************************)
(* The deposit worker of internal/ingest: Run repeats Step, and a Step     *)
(* scans one window of confirmed blocks and commits it, or, before the     *)
(* first commit, reads one page of AddressManager history backwards to     *)
(* find the CTC that was active when the scan starts.                      *)
(*                                                                         *)
(* Every RPC call is a step of its own, because the chain may change       *)
(* between any two of them.  The worker shares Status with the Blob worker *)
(* and the HTTP handlers, whose fatal errors are FatalElsewhere here.      *)
(***************************************************************************)
EXTENDS L1Chain, DepositStore, Status

CONSTANTS Start,          \* Config.Start, first L1 block to scan
          Confirmations,  \* Config.Confirmations
          BatchSize,      \* Config.BatchSize
          MaxCrashes      \* bound: number of restarts

ASSUME ConfigAssumption ==
  /\ Start \in 0..MaxHeight
  /\ Confirmations \in Nat
  /\ BatchSize \in Nat \ {0}
  /\ MaxCrashes \in Nat

VARIABLES pc,       \* where the worker is in Run / Step
          w,        \* the scanWindow of the current Step, and what it read
          boot,     \* Syncer.bootstrap; open = FALSE is nil
          crashes

vars == <<tip, chain, epoch, db, state, batch, ready, fatal,
          pc, w, boot, crashes>>

NoPage == [from |-> 0, found |-> FALSE, ctc |-> NoAddr]

NoWindow == [before |-> NoState(NoAddr), from |-> 0, end |-> 0, target |-> 0,
             endHash |-> NoHash, ctc |-> NoAddr, logs |-> {}, records |-> {},
             page |-> NoPage]

NoBoot == [open |-> FALSE, anchor |-> NoHash, next |-> 0, ready |-> FALSE,
           ctc |-> NoAddr]

First == w.before.height = Nil      \* nothing was ever committed

Goto(l) == pc' = l

\* Step returns; what the window held is forgotten.
Return(l) == Goto(l) /\ w' = NoWindow

------------------------------------------------------------------------------
(* The arithmetic of prepareWindow and loadBootstrapPage. *)

Unclamped(t) == t - Confirmations                            \* fault

Confirmed(t) == IF t >= Confirmations THEN t - Confirmations ELSE 0

From(before) == IF before.height # Nil THEN before.height + 1 ELSE Start

WindowEnd(from, target) ==
  IF target - from >= BatchSize THEN from + BatchSize - 1 ELSE target

PageFrom(end) == IF end >= BatchSize THEN end - BatchSize + 1 ELSE 0

\* The addresses loadLogs asks enqueue logs of.
Addresses(ctc, changes) ==
  ({ctc} \cup {l.ev.addr : l \in changes}) \ {NoAddr}

AnyAnchor(n, hash) == TRUE                                   \* fault

\* The header of block n, when the chain has one, still has this hash.
AnchorHolds(n, hash) == hash = HashAt(n)

Confirms(n, hash) == n <= tip /\ AnchorHolds(n, hash)

Refutes(n, hash) == n <= tip /\ ~AnchorHolds(n, hash)

------------------------------------------------------------------------------
(* Step: Snapshot, and prepareWindow. *)

StartStep ==
  /\ pc = "idle"
  /\ IF fatal THEN Return("stopped")
              ELSE /\ w' = [NoWindow EXCEPT !.before = state]
                   /\ Goto(IF state.height # Nil THEN "checkpoint" ELSE "tip")
  /\ UNCHANGED <<chainVars, storeVars, statusVars, boot, crashes>>

CheckCheckpoint ==
  /\ pc = "checkpoint"
  /\ Confirms(w.before.height, w.before.hash)
  /\ Goto("tip")
  /\ UNCHANGED <<chainVars, storeVars, statusVars, w, boot, crashes>>

ReadTip ==
  /\ pc = "tip"
  /\ w' = [w EXCEPT !.target = Confirmed(tip)]
  /\ Goto("plan")
  /\ UNCHANGED <<chainVars, storeVars, statusVars, boot, crashes>>

CaughtUpSilently ==                                          \* fault
  /\ pc = "plan"
  /\ ~First
  /\ w.before.height >= w.target
  /\ Return("wait")
  /\ UNCHANGED <<chainVars, storeVars, statusVars, boot, crashes>>

CaughtUp ==
  /\ pc = "plan"
  /\ ~First
  /\ w.before.height >= w.target
  /\ Set(TRUE, FALSE)
  /\ Return("wait")
  /\ UNCHANGED <<chainVars, storeVars, boot, crashes>>

NothingConfirmed ==
  /\ pc = "plan"
  /\ First
  /\ Start > w.target
  /\ Return("wait")
  /\ UNCHANGED <<chainVars, storeVars, statusVars, boot, crashes>>

\* A window; the bootstrap is needed before the first commit, unless the scan
\* starts at block 0, and dropped after it.
OpenWindow ==
  /\ pc = "plan"
  /\ From(w.before) <= w.target
  /\ Set(FALSE, FALSE)
  /\ w' = [w EXCEPT !.from = From(w.before),
                    !.end  = WindowEnd(From(w.before), w.target),
                    !.ctc  = w.before.ctc]
  /\ boot' = IF First THEN boot ELSE NoBoot
  /\ Goto(CASE ~First \/ Start = 0 -> "anchor"
            [] First /\ Start > 0 /\ boot.open -> "bootCheck"
            [] OTHER -> "bootAnchor")
  /\ UNCHANGED <<chainVars, storeVars, crashes>>

------------------------------------------------------------------------------
(* initializeCTC. *)

ReadBootAnchor ==
  /\ pc = "bootAnchor"
  /\ Start - 1 <= tip
  /\ boot' = [NoBoot EXCEPT !.open = TRUE,
                            !.anchor = HashAt(Start - 1),
                            !.next = Start - 1]
  /\ Goto("bootCheck")
  /\ UNCHANGED <<chainVars, storeVars, statusVars, w, crashes>>

CheckBootstrap ==
  /\ pc = "bootCheck"
  /\ Confirms(Start - 1, boot.anchor)
  /\ IF boot.ready THEN Goto("anchor") /\ w' = [w EXCEPT !.ctc = boot.ctc]
                   ELSE Goto("bootPage") /\ w' = w
  /\ UNCHANGED <<chainVars, storeVars, statusVars, boot, crashes>>

\* loadBootstrapPage and decodeBootstrapPage: the old address of a page's first
\* log stands for the history before the page, except at block 0.
PageInit(from, logs) ==
  IF from = 0 THEN NoAddr
  ELSE (CHOOSE l \in logs : \A k \in logs : k = l \/ Precedes(l, k)).ev.old

LoadBootPage ==
  /\ pc = "bootPage"
  /\ LET from == PageFrom(boot.next)
         logs == Sets(LogsIn(chain, from, boot.next))
     IN  IF logs # {} /\ ~Linked(PageInit(from, logs), logs)
           THEN Return("halt")
           ELSE /\ Goto("bootRecheck")
                /\ w' = [w EXCEPT !.page = [from  |-> from,
                                            found |-> logs # {},
                                            ctc   |-> CtcAfter(NoAddr, logs)]]
  /\ UNCHANGED <<chainVars, storeVars, statusVars, boot, crashes>>

\* An empty page above block 0: the next Step reads the page below it.
NextPage ==
  /\ pc = "bootRecheck"
  /\ Confirms(Start - 1, boot.anchor)
  /\ ~w.page.found /\ w.page.from > 0
  /\ boot' = [boot EXCEPT !.next = w.page.from - 1]
  /\ Return("idle")
  /\ UNCHANGED <<chainVars, storeVars, statusVars, crashes>>

BootReady ==
  /\ pc = "bootRecheck"
  /\ Confirms(Start - 1, boot.anchor)
  /\ w.page.found \/ w.page.from = 0
  /\ boot' = [boot EXCEPT !.ready = TRUE, !.ctc = w.page.ctc]
  /\ w' = [w EXCEPT !.ctc = w.page.ctc]
  /\ Goto("anchor")
  /\ UNCHANGED <<chainVars, storeVars, statusVars, crashes>>

------------------------------------------------------------------------------
(* anchorWindow, loadLogs and decodeLogs. *)

AnchorWindow ==
  /\ pc = "anchor"
  /\ w.end <= tip
  /\ w' = [w EXCEPT !.endHash = HashAt(w.end)]
  /\ Goto("changes")
  /\ UNCHANGED <<chainVars, storeVars, statusVars, boot, crashes>>

LoadChanges ==
  /\ pc = "changes"
  /\ w' = [w EXCEPT !.logs = Sets(LogsIn(chain, w.from, w.end))]
  /\ Goto(IF Addresses(w.ctc, w'.logs) = {} THEN "decode" ELSE "enqueues")
  /\ UNCHANGED <<chainVars, storeVars, statusVars, boot, crashes>>

LoadEnqueues ==
  /\ pc = "enqueues"
  /\ w' = [w EXCEPT !.logs = @ \cup
             {l \in Enqueues(LogsIn(chain, w.from, w.end)) :
                l.ev.addr \in Addresses(w.ctc, w.logs)}]
  /\ Goto("decode")
  /\ UNCHANGED <<chainVars, storeVars, statusVars, boot, crashes>>

DecodeLogs ==
  /\ pc = "decode"
  /\ Linked(w.ctc, w.logs)
  /\ w' = [w EXCEPT !.records = Records(Active(w.ctc, w.logs)),
                    !.ctc = CtcAfter(w.ctc, w.logs),
                    !.logs = {}]
  /\ Goto(IF First /\ boot.open THEN "bootFinal" ELSE "ctcCheck")
  /\ UNCHANGED <<chainVars, storeVars, statusVars, boot, crashes>>

HistoryMismatch ==
  /\ pc = "decode"
  /\ ~Linked(w.ctc, w.logs)
  /\ Return("halt")
  /\ UNCHANGED <<chainVars, storeVars, statusVars, boot, crashes>>

------------------------------------------------------------------------------
(* commitWindow: the final checks, Store.Commit under the status lock. *)

CheckBootFinal ==
  /\ pc = "bootFinal"
  /\ Confirms(Start - 1, boot.anchor)
  /\ Goto("ctcCheck")
  /\ UNCHANGED <<chainVars, storeVars, statusVars, w, boot, crashes>>

\* A scan must not end at the confirmed block without an active CTC.
CheckCtc ==
  /\ pc = "ctcCheck"
  /\ IF w.end = w.target /\ w.ctc = NoAddr THEN Return("halt")
                                          ELSE Goto("endCheck") /\ w' = w
  /\ UNCHANGED <<chainVars, storeVars, statusVars, boot, crashes>>

CheckEnd ==
  /\ pc = "endCheck"
  /\ Confirms(w.end, w.endHash)
  /\ Goto(IF First THEN "commit" ELSE "checkpointFinal")
  /\ UNCHANGED <<chainVars, storeVars, statusVars, w, boot, crashes>>

CheckCheckpointFinal ==
  /\ pc = "checkpointFinal"
  /\ Confirms(w.before.height, w.before.hash)
  /\ Goto("commit")
  /\ UNCHANGED <<chainVars, storeVars, statusVars, w, boot, crashes>>

\* Any of the checks of prepareWindow, checkBootstrap and commitWindow finds
\* another block where it remembers one.
AnchorChanged ==
  /\ \/ /\ pc \in {"checkpoint", "checkpointFinal"}
        /\ Refutes(w.before.height, w.before.hash)
     \/ /\ pc \in {"bootCheck", "bootRecheck", "bootFinal"}
        /\ Refutes(Start - 1, boot.anchor)
     \/ /\ pc = "endCheck"
        /\ Refutes(w.end, w.endHash)
  /\ Return("halt")
  /\ UNCHANGED <<chainVars, storeVars, statusVars, boot, crashes>>

CommitWindow ==
  /\ pc = "commit"
  /\ Healthy
  /\ IF NotStale(w.before)
       THEN BeginCommit(w.before) /\ Goto("stage") /\ w' = w
       ELSE Return("halt") /\ UNCHANGED storeVars
  /\ UNCHANGED <<chainVars, statusVars, boot, crashes>>

\* commitIfHealthy sees a fatal error, or the Step's five minutes are over.
CommitRefused ==
  /\ pc = "commit"
  /\ Return("retry")
  /\ UNCHANGED <<chainVars, storeVars, statusVars, boot, crashes>>

\* The records are staged in log order.
Earliest(r) ==
  \A q \in w.records : \/ q = r
                       \/ r.at < q.at
                       \/ r.at = q.at /\ r.p < q.p

StageRecord ==
  /\ pc = "stage"
  /\ \E r \in w.records :
       /\ Earliest(r)
       /\ Stage(r)
       /\ w' = [w EXCEPT !.records = @ \ {r}]
  /\ UNCHANGED <<chainVars, statusVars, pc, boot, crashes>>

RejectRecord ==
  /\ pc = "stage"
  /\ \E r \in w.records : Earliest(r) /\ Rejected(r)
  /\ Return("halt")
  /\ UNCHANGED <<chainVars, statusVars, boot, crashes>>

CommitBatch ==
  /\ pc = "stage"
  /\ w.records = {}
  /\ Apply(w.end, w.endHash, w.ctc)
  /\ Goto("publish")
  /\ UNCHANGED <<chainVars, statusVars, w, boot, crashes>>

\* batch.Commit fails: the batch may or may not have reached the disk.
CommitFails ==
  /\ pc = "stage"
  /\ w.records = {}
  /\ Apply(w.end, w.endHash, w.ctc) \/ Discard
  /\ Return("halt")
  /\ UNCHANGED <<chainVars, statusVars, boot, crashes>>

Publish ==
  /\ pc = "publish"
  /\ Set(w.end = w.target, FALSE)
  /\ Return(IF w.end = w.target THEN "wait" ELSE "idle")
  /\ UNCHANGED <<chainVars, storeVars, boot, crashes>>

------------------------------------------------------------------------------
(* Run. *)

Calling == {"checkpoint", "tip", "bootAnchor", "bootCheck", "bootPage",
            "bootRecheck", "anchor", "changes", "enqueues", "bootFinal",
            "endCheck", "checkpointFinal"}

\* An RPC call fails or times out, or asks for a block the chain has lost.
CallFails ==
  /\ pc \in Calling
  /\ Return("retry")
  /\ UNCHANGED <<chainVars, storeVars, statusVars, boot, crashes>>

\* An RPC call answers with an invalid header or log, or the database with an
\* error: both are integrity errors.
BadAnswer ==
  /\ pc \in Calling \/ (pc = "idle" /\ ~fatal)
  /\ Return("halt")
  /\ UNCHANGED <<chainVars, storeVars, statusVars, boot, crashes>>

RetryGivesUp ==                                              \* fault
  /\ pc = "retry"
  /\ IF fatal THEN UNCHANGED statusVars ELSE Set(FALSE, FALSE)
  /\ Goto("stopped")
  /\ UNCHANGED <<chainVars, storeVars, w, boot, crashes>>

\* A transient error: withdraw readiness and poll again.
Retry ==
  /\ pc = "retry"
  /\ IF fatal THEN UNCHANGED statusVars ELSE Set(FALSE, FALSE)
  /\ Goto(IF fatal THEN "stopped" ELSE "wait")
  /\ UNCHANGED <<chainVars, storeVars, w, boot, crashes>>

\* ErrFatal or ErrIntegrity: publish the error and stop.
Halt ==
  /\ pc = "halt"
  /\ Set(FALSE, TRUE)
  /\ Goto("stopped")
  /\ UNCHANGED <<chainVars, storeVars, w, boot, crashes>>

Poll ==
  /\ pc = "wait"
  /\ Goto(IF fatal THEN "stopped" ELSE "idle")
  /\ UNCHANGED <<chainVars, storeVars, statusVars, w, boot, crashes>>

------------------------------------------------------------------------------
(* The rest of the system. *)

\* The Blob worker or an HTTP handler meets an integrity error; Set waits for
\* the lock a commit in progress holds.
FatalElsewhere ==
  /\ pc # "stage"
  /\ ~fatal
  /\ Set(FALSE, TRUE)
  /\ UNCHANGED <<chainVars, storeVars, pc, w, boot, crashes>>

\* The process ends at any moment and is started again on the same database.
Restart ==
  /\ crashes < MaxCrashes
  /\ crashes' = crashes + 1
  /\ Goto("idle")
  /\ w' = NoWindow
  /\ boot' = NoBoot
  /\ ready' = FALSE
  /\ fatal' = FALSE
  /\ Discard
  /\ UNCHANGED chainVars

------------------------------------------------------------------------------
Init ==
  /\ ChainInit
  /\ StoreInit(NoAddr)
  /\ StatusInit
  /\ pc = "idle"
  /\ w = NoWindow
  /\ boot = NoBoot
  /\ crashes = 0

Chain == ChainNext /\ UNCHANGED <<storeVars, statusVars, pc, w, boot, crashes>>

Prepare == StartStep \/ CheckCheckpoint \/ ReadTip \/ CaughtUp
           \/ NothingConfirmed \/ OpenWindow

Bootstrap == ReadBootAnchor \/ CheckBootstrap \/ LoadBootPage
             \/ NextPage \/ BootReady

Scan == AnchorWindow \/ LoadChanges \/ LoadEnqueues \/ DecodeLogs
        \/ HistoryMismatch

Commit == CheckBootFinal \/ CheckCtc \/ CheckEnd \/ CheckCheckpointFinal
          \/ CommitWindow \/ StageRecord \/ RejectRecord \/ CommitBatch \/ Publish

Worker == Prepare \/ Bootstrap \/ Scan \/ Commit \/ AnchorChanged
          \/ Retry \/ Halt \/ Poll

Faults == CommitRefused \/ CommitFails \/ CallFails \/ BadAnswer
          \/ FatalElsewhere \/ Restart

\* A halted worker does nothing more; the process keeps answering HTTP.
Stopped == pc = "stopped" /\ UNCHANGED vars

Next == Chain \/ Worker \/ Faults \/ Stopped

Spec == Init /\ [][Next]_vars

------------------------------------------------------------------------------
(* Properties. *)

IsHash(c) == c = NoHash \/ \E h \in 0..MaxHeight : c \in [0..h -> Block]

IsState(s) ==
  /\ s \in [height : -1..MaxHeight, hash : {s.hash}, ctc : Addr,
            latest : Nat \cup {-1}]
  /\ IsHash(s.hash)

Rec == [idx : Nat, at : 0..MaxHeight, e : 0..MaxReorgs, p : Nat]

IsWindow(v) ==
  /\ v \in [before : {v.before}, from : 0..MaxHeight, end : 0..MaxHeight,
            target : 0..MaxHeight, endHash : {v.endHash}, ctc : Addr,
            logs : SUBSET Log, records : SUBSET Rec,
            page : [from : 0..MaxHeight, found : BOOLEAN, ctc : Addr]]
  /\ IsState(v.before)
  /\ IsHash(v.endHash)

IsBoot(t) ==
  /\ t \in [open : BOOLEAN, anchor : {t.anchor}, next : 0..MaxHeight,
            ready : BOOLEAN, ctc : Addr]
  /\ IsHash(t.anchor)

IsBatch(t) == t \in [open : BOOLEAN, db : {t.db}, latest : Nat \cup {-1}]

\* Every variable has its type.
TypeOK ==
  /\ ChainTypeOK
  /\ IsState(state)
  /\ IsBatch(batch)
  /\ ready \in BOOLEAN
  /\ fatal \in BOOLEAN
  /\ pc \in Calling \cup {"idle", "plan", "decode", "ctcCheck", "commit", "stage",
                          "publish", "retry", "halt", "wait", "stopped"}
  /\ IsWindow(w)
  /\ IsBoot(boot)
  /\ crashes \in 0..MaxCrashes

Stored == {db[i] : i \in DOMAIN db}

\* What is committed is what the committed block says: the CTC is the one
\* AddressManager held after it, and the records are exactly the deposits its
\* ancestry holds from Start on, whatever the chain did during the scans.
CommittedFaithful ==
  state.height # Nil =>
    /\ state.hash \in [0..state.height -> Block]
    /\ state.ctc = state.hash[state.height].out
    /\ Stored = Deposits(state.hash, Start, state.height)

\* The stored queue has no gap and no record under a foreign index, so that a
\* read of any index up to the latest finds its deposit.
Contiguous ==
  /\ DOMAIN db = 0..state.latest
  /\ \A i \in DOMAIN db : db[i].idx = i

\* A deposit that /enqueue has answered is answered the same for ever, through
\* reorganisations, retried commits and restarts; the latest index never goes
\* back, and no read up to it meets a hole (Commit and readEnqueue).
StableDeposits ==
  [][/\ \A i \in 0..MaxIndex :
          /\ ReadEnqueue(i) # Missing
          /\ ReadEnqueue(i) # NoEnqueue => ReadEnqueue(i)' = ReadEnqueue(i)
     /\ state.latest <= state'.latest]_vars

\* The service reports ready only with a committed checkpoint and no fatal error,
\* and never while a window is being scanned or committed.
ReadyIsHonest ==
  ready => /\ ~fatal
           /\ state.height # Nil
           /\ pc \in {"idle", "checkpoint", "tip", "plan", "wait", "retry", "halt"}

\* A scan that ends at the confirmed block without an active CTC is fatal, so a
\* service that reports ready has one (the error of syncer_step.go:205).
ReadyHasCtc == ready => state.ctc # NoAddr

\* Once any part of the service has published a fatal error, the database does
\* not change until the process is restarted, even if a scan was about to commit.
NoCommitAfterFatal == [][fatal => UNCHANGED <<db, state>>]_vars

\* The committed index only ever moves from a block to one of its descendants,
\* and always holds exactly that block's deposits.
Index == INSTANCE DepositIndex WITH height <- state.height,
                                    block  <- state.hash,
                                    ctc    <- state.ctc,
                                    index  <- Stored

FollowsOneChain == Index!Spec

------------------------------------------------------------------------------
(* Liveness.  The worker never stops inside a Step: every call returns, if    *)
(* only with an error when the Step's five minutes are over.                  *)

FairSpec == Spec /\ WF_vars(Worker \/ CallFails)

\* The block a header call asks for.
Asked == CASE pc \in {"checkpoint", "checkpointFinal"} -> w.before.height
           [] pc \in {"bootAnchor", "bootCheck", "bootRecheck", "bootFinal"}
                -> Start - 1
           [] pc \in {"anchor", "endCheck"} -> w.end
           [] OTHER -> 0

\* From some moment on the node answers in time what the chain can answer.
NodeRecovers ==
  <>[][(CallFails => Asked > tip) /\ ~(CommitRefused /\ Healthy)]_vars

\* The worker reaches the confirmed block, or halts.
EventuallyIndexed ==
  NodeRecovers =>
    <>[](\/ fatal
         \/ Confirmed(tip) < Start
         \/ state.height >= Confirmed(tip))

\* The service becomes ready again after any outage, unless it halts, has nothing
\* to scan, or the node has lost the committed block without a replacement.
ReadyAgain ==
  NodeRecovers =>
    <>[](\/ fatal
         \/ ready
         \/ Confirmed(tip) < Start
         \/ tip < state.height)

\* A reorganisation that replaces the committed block stops the service.
ReorgHalts ==
  NodeRecovers /\ <>[](/\ state.height # Nil
                       /\ state.height <= tip
                       /\ ~Live(state.hash, state.height))
    => <>[]fatal
==============================================================================
