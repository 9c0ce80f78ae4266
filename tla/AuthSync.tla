------------------------------- MODULE AuthSync -------------------------------
(***************************************************************************)
(* How a Step of the Blob worker learns who may submit (initialize,        *)
(* authLogs and backfillManager of internal/blobingest) and applies it to  *)
(* the Inbox submissions of a window, position by position.                *)
(*                                                                         *)
(* With Start > 0 the history below Start is read page by page, forwards,  *)
(* before the first window.  A window or page that names a new manager     *)
(* first reads that manager's own history below it, one page per Step.     *)
(* Both are kept in memory across Steps, not across restarts.              *)
(*                                                                         *)
(* What the submissions refer to, the retention commit of prepare, and     *)
(* fatal errors of other parts are modelled by BlobSync: they change       *)
(* neither the authorisation nor the scan checkpoint.                      *)
(***************************************************************************)
EXTENDS AuthChain

CONSTANTS Start,          \* Config.InboxStart
          Confirmations,  \* Config.Confirmations
          BatchSize,      \* Config.BatchSize
          InboxSender,    \* Config.InboxSender
          BlobSender,     \* Config.BlobSender
          MaxCrashes      \* bound: number of restarts

ASSUME AuthConfigAssumption ==
  /\ Start \in Nat
  /\ Confirmations \in Nat
  /\ BatchSize \in Nat \ {0}
  /\ MaxCrashes \in Nat

VARIABLES st,         \* the checkpoint [height, hash, auth] and accepted submissions
          boot,       \* Syncer.bootstrap: [next, anchor, auth, ready], or NoBoot
          back,       \* Syncer.backfills: a set of [m, before, next, anchor, auth]
          pc,         \* where the worker is in Run / Step
          v,          \* the locals of the Step
          blobReady,  \* Status.blobReady
          crashes

memVars == <<boot, back>>
vars == <<tip, chain, epoch, st, boot, back, pc, v, blobReady, crashes>>

Nil == -1
NoHash == <<>>
NoBoot == [next |-> Nil]

NoState == [height |-> Nil, hash |-> NoHash, auth |-> NewAuthorization, subs |-> {}]

Fresh == [target |-> 0, boot |-> FALSE, from |-> 0, end |-> 0, anchor |-> NoHash,
          auth |-> NewAuthorization, logs |-> {}, m |-> NoAddr, page |-> NewAuthorization,
          at |-> 0, subs |-> {}]

Goto(l) == pc' = l

Return(l) == Goto(l) /\ v' = Fresh

SetBlobReady(r) == blobReady' = r

-------------------------------------------------------------------------------
(* check. *)

AnyAnchor(n, hash) == TRUE                                       \* fault

AnchorHolds(n, hash) == hash = HashAt(n)

Confirms(n, hash) == n <= tip /\ AnchorHolds(n, hash)

Refutes(n, hash) == n <= tip /\ ~AnchorHolds(n, hash)

\* The last block of a window, or of a page of history, from next up to limit.
PageEnd(next, limit) ==
  IF limit - next >= BatchSize THEN next + BatchSize - 1 ELSE limit

-------------------------------------------------------------------------------
(* prepare, without the retention commit. *)

\* checkpoint, at the start of a Step and again before the commit.
AfterHeight == [height1 |-> "tip", height2 |-> "bootend"]

CheckHeight ==
  /\ pc \in DOMAIN AfterHeight
  /\ st.height # Nil => Confirms(st.height, st.hash)
  /\ Goto(AfterHeight[pc])
  /\ UNCHANGED <<chainVars, st, memVars, v, blobReady, crashes>>

StartStep ==
  /\ pc = "idle"
  /\ Goto("height1")
  /\ UNCHANGED <<chainVars, st, memVars, v, blobReady, crashes>>

Confirmed(t) == IF t >= Confirmations THEN t - Confirmations ELSE 0

ReadTip ==
  /\ pc = "tip"
  /\ v' = [v EXCEPT !.target = Confirmed(tip)]
  /\ Goto("confirmed")
  /\ UNCHANGED <<chainVars, st, memVars, blobReady, crashes>>

Caught == st.height >= v.target

ReadConfirmed ==
  /\ pc = "confirmed"
  /\ v.target <= tip
  /\ SetBlobReady(Caught)
  /\ Goto("plan")
  /\ UNCHANGED <<chainVars, st, memVars, v, crashes>>

CaughtUp ==
  /\ pc = "plan"
  /\ Caught \/ Start > v.target
  /\ SetBlobReady(TRUE)
  /\ Return("wait")
  /\ UNCHANGED <<chainVars, st, memVars, crashes>>

-------------------------------------------------------------------------------
(* initialize: the authorisation before the window. *)

\* The window after the checkpoint, entered with authorisation a.
OpenWindow(a) ==
  LET from == IF st.height # Nil THEN st.height + 1 ELSE Start
  IN  /\ v' = [Fresh EXCEPT !.target = v.target, !.auth = a, !.from = from,
                            !.end = PageEnd(from, v.target)]
      /\ Goto("anchor")

Initialize ==
  /\ pc = "plan"
  /\ ~Caught /\ Start <= v.target
  /\ IF st.height # Nil THEN OpenWindow(st.auth)
     ELSE IF Start = 0 THEN OpenWindow(NewAuthorization)
     ELSE Goto(IF boot = NoBoot THEN "bootanchor" ELSE "boot") /\ v' = v
  /\ UNCHANGED <<chainVars, st, memVars, blobReady, crashes>>

BootAnchor ==
  /\ pc = "bootanchor"
  /\ Start - 1 <= tip
  /\ boot' = [next |-> 0, anchor |-> HashAt(Start - 1), auth |-> NewAuthorization,
              ready |-> FALSE]
  /\ Goto("boot")
  /\ UNCHANGED <<chainVars, st, back, v, blobReady, crashes>>

\* A finished bootstrap is used again after a Step that failed later on.
Boot ==
  /\ pc = "boot"
  /\ Confirms(Start - 1, boot.anchor)
  /\ IF boot.ready THEN OpenWindow(boot.auth)
     ELSE /\ v' = [v EXCEPT !.boot = TRUE, !.auth = boot.auth, !.from = boot.next,
                            !.end = PageEnd(boot.next, Start - 1)]
          /\ Goto("changes")
  /\ UNCHANGED <<chainVars, st, memVars, blobReady, crashes>>

AnchorWindow ==
  /\ pc = "anchor"
  /\ v.end <= tip
  /\ v' = [v EXCEPT !.anchor = HashAt(v.end)]
  /\ Goto("changes")
  /\ UNCHANGED <<chainVars, st, memVars, blobReady, crashes>>

-------------------------------------------------------------------------------
(* authLogs, over v.from..v.end: manager changes, then the history of each    *)
(* manager they name for the first time, then the grants of all managers.     *)

ReadChanges ==
  /\ pc = "changes"
  /\ v' = [v EXCEPT !.logs = Names(LogsIn(chain, v.from, v.end))]
  /\ Goto("managers")
  /\ UNCHANGED <<chainVars, st, memVars, blobReady, crashes>>

NoUnknown == {}                                                  \* fault

Unknown == {l.manager : l \in v.logs} \ (v.auth.known \cup {NoAddr})

\* backfillManager: progress.before is always the start of this window or page.
Progress(m) == {b \in back : b.m = m /\ b.before = v.from}

NextManager ==
  /\ pc = "managers"
  /\ \E m \in Unknown :
       IF v.from = 0
         THEN v' = [v EXCEPT !.auth.known = @ \cup {m}] /\ Goto("managers")
         ELSE /\ v' = [v EXCEPT !.m = m]
              /\ Goto(IF Progress(m) = {} THEN "backanchor" ELSE "back")
  /\ UNCHANGED <<chainVars, st, memVars, blobReady, crashes>>

BackAnchor ==
  /\ pc = "backanchor"
  /\ v.from - 1 <= tip
  /\ back' = {b \in back : b.m # v.m}
       \cup {[m |-> v.m, before |-> v.from, next |-> 0, anchor |-> HashAt(v.from - 1),
              auth |-> [NewAuthorization EXCEPT !.known = {v.m}]]}
  /\ Goto("back")
  /\ UNCHANGED <<chainVars, st, boot, v, blobReady, crashes>>

\* The manager's schedule below the window joins the authorisation.
Backfilled(b) ==
  /\ v' = [v EXCEPT !.auth.known = @ \cup b.auth.known,
                    !.auth.table = @ \cup b.auth.table,
                    !.m = NoAddr, !.page = NewAuthorization]
  /\ Goto("managers")

Back ==
  /\ pc = "back"
  /\ \E b \in Progress(v.m) :
       /\ Confirms(b.before - 1, b.anchor)
       /\ IF b.next < b.before THEN Goto("backlogs") /\ v' = v ELSE Backfilled(b)
  /\ UNCHANGED <<chainVars, st, memVars, blobReady, crashes>>

ReadBack ==
  /\ pc = "backlogs"
  /\ \E b \in Progress(v.m) :
       v' = [v EXCEPT !.page =
               Apply(b.auth, Grants(LogsIn(chain, b.next, PageEnd(b.next, b.before - 1)),
                                    {b.m}))]
  /\ Goto("backend")
  /\ UNCHANGED <<chainVars, st, memVars, blobReady, crashes>>

FinishPageSkip ==                                                \* fault
  /\ pc = "backend"
  /\ \E b \in Progress(v.m) :
       /\ Confirms(b.before - 1, b.anchor)
       /\ LET b2 == [b EXCEPT !.auth = v.page, !.next = PageEnd(b.next, b.before - 1) + 2]
          IN  /\ back' = (back \ {b}) \cup {b2}
              /\ IF b2.next < b2.before THEN Return("idle") ELSE Backfilled(b2)
  /\ UNCHANGED <<chainVars, st, boot, blobReady, crashes>>

FinishPageForget ==                                              \* fault
  /\ pc = "backend"
  /\ \E b \in Progress(v.m) :
       /\ Confirms(b.before - 1, b.anchor)
       /\ LET b2 == [b EXCEPT !.auth = v.page, !.next = PageEnd(b.next, b.before - 1) + 1]
          IN  IF b2.next < b2.before THEN Return("idle") ELSE Backfilled(b2)
  /\ back' = back \ Progress(v.m)
  /\ UNCHANGED <<chainVars, st, boot, blobReady, crashes>>

\* One page per Step: errBackfillPending ends the Step, without a wait.
FinishPage ==
  /\ pc = "backend"
  /\ \E b \in Progress(v.m) :
       /\ Confirms(b.before - 1, b.anchor)
       /\ LET b2 == [b EXCEPT !.auth = v.page, !.next = PageEnd(b.next, b.before - 1) + 1]
          IN  /\ back' = (back \ {b}) \cup {b2}
              /\ IF b2.next < b2.before THEN Return("idle") ELSE Backfilled(b2)
  /\ UNCHANGED <<chainVars, st, boot, blobReady, crashes>>

\* senderLogs of all known managers; a bootstrap page is applied at once.
ReadSenders ==
  LET logs == v.logs \cup Grants(LogsIn(chain, v.from, v.end), v.auth.known)
  IN  /\ pc = "managers"
      /\ Unknown = {}
      /\ v.boot => Applies(v.auth, logs)
      /\ IF v.boot
           THEN v' = [v EXCEPT !.auth = Apply(@, logs)] /\ Goto("bootpage")
           ELSE v' = [v EXCEPT !.logs = logs, !.at = v.from] /\ Goto("block")
      /\ UNCHANGED <<chainVars, st, memVars, blobReady, crashes>>

BootPage ==
  /\ pc = "bootpage"
  /\ Confirms(Start - 1, boot.anchor)
  /\ boot' = [boot EXCEPT !.auth = v.auth, !.ready = (v.end = Start - 1),
                          !.next = v.end + 1]
  /\ back' = {}
  /\ IF v.end = Start - 1 THEN OpenWindow(v.auth) ELSE Return("idle")
  /\ UNCHANGED <<chainVars, st, blobReady, crashes>>

-------------------------------------------------------------------------------
(* scan: the logs of a block are applied between its transactions. *)

WholeBlock(k, i) == {l \in v.logs : l.at = k}                     \* fault

\* The logs of block k that precede its transaction i.
Before(k, i) == {l \in v.logs : l.at = k /\ l.tx < i}

\* submission: the sender is the one in force, and so is the Blob sender it names.
Accepted(k) ==
  {[at |-> k, tx |-> s.tx, sender |-> s.sender,
    blob |-> SenderAt(Apply(v.auth, Before(k, s.tx)), "blob", k, BlobSender)] :
     s \in {x \in chain[k].subs :
              x.sender = SenderAt(Apply(v.auth, Before(k, x.tx)), "batch", k, InboxSender)}}

BlockLogs == {l \in v.logs : l.at = v.at}

ScanBlock ==
  /\ pc = "block"
  /\ v.at <= tip
  /\ Applies(v.auth, BlockLogs)
  /\ v' = [v EXCEPT !.auth = Apply(@, BlockLogs),
                    !.subs = @ \cup Accepted(v.at),
                    !.at = @ + 1]
  /\ Goto(IF v.at = v.end THEN "end" ELSE "block")
  /\ UNCHANGED <<chainVars, st, memVars, blobReady, crashes>>

\* apply refuses a log: the history was read from two forks.
LogRefused ==
  /\ \/ pc = "block" /\ v.at <= tip /\ ~Applies(v.auth, BlockLogs)
     \/ /\ pc = "managers" /\ v.boot /\ Unknown = {}
        /\ ~Applies(v.auth, v.logs \cup Grants(LogsIn(chain, v.from, v.end), v.auth.known))
  /\ Return("halt")
  /\ UNCHANGED <<chainVars, st, memVars, blobReady, crashes>>

CheckEnd ==
  /\ pc = "end"
  /\ Confirms(v.end, v.anchor)
  /\ Goto("height2")
  /\ UNCHANGED <<chainVars, st, memVars, v, blobReady, crashes>>

\* The first window stands on the bootstrap.
CheckBoot ==
  /\ pc = "bootend"
  /\ st.height = Nil /\ Start > 0 => Confirms(Start - 1, boot.anchor)
  /\ Goto("commit")
  /\ UNCHANGED <<chainVars, st, memVars, v, blobReady, crashes>>

Scanned == [height |-> v.end, hash |-> v.anchor, auth |-> v.auth,
            subs |-> st.subs \cup v.subs]

CommitScan ==
  /\ pc = "commit"
  /\ st' = Scanned
  /\ boot' = NoBoot
  /\ back' = {}
  /\ SetBlobReady(v.end = v.target)
  /\ Return(IF v.end = v.target THEN "wait" ELSE "idle")
  /\ UNCHANGED <<chainVars, crashes>>

AnchorChanged ==
  /\ \/ pc \in DOMAIN AfterHeight /\ st.height # Nil /\ Refutes(st.height, st.hash)
     \/ pc \in {"boot", "bootpage"} /\ Refutes(Start - 1, boot.anchor)
     \/ /\ pc \in {"back", "backend"}
        /\ \E b \in Progress(v.m) : Refutes(b.before - 1, b.anchor)
     \/ pc = "end" /\ Refutes(v.end, v.anchor)
     \/ pc = "bootend" /\ st.height = Nil /\ Start > 0 /\ Refutes(Start - 1, boot.anchor)
  /\ Return("halt")
  /\ UNCHANGED <<chainVars, st, memVars, blobReady, crashes>>

-------------------------------------------------------------------------------
(* Run, and faults. *)

Calling ==
  \/ pc \in DOMAIN AfterHeight
           \cup {"tip", "confirmed", "bootanchor", "boot", "anchor", "changes",
                 "backanchor", "back", "backlogs", "backend", "bootpage", "block",
                 "end", "bootend"}
  \/ pc = "managers" /\ Unknown = {} /\ v.auth.known # {}

\* A call fails, times out, or asks for a block the chain has lost; or the commit
\* finds the Step's five minutes over.
CallFails ==
  /\ Calling \/ pc = "commit"
  /\ Return("retry")
  /\ UNCHANGED <<chainVars, st, memVars, blobReady, crashes>>

\* A malformed header, block or log: fatal, but not the chain's doing.
BadAnswer ==
  /\ Calling
  /\ Return("invalid")
  /\ UNCHANGED <<chainVars, st, memVars, blobReady, crashes>>

\* The commit returns an error, and the batch may or may not have reached the disk.
CommitFails ==
  /\ pc = "commit"
  /\ st' \in {st, Scanned}
  /\ Return("invalid")
  /\ UNCHANGED <<chainVars, memVars, blobReady, crashes>>

Retry ==
  /\ pc = "retry"
  /\ SetBlobReady(FALSE)
  /\ Goto("wait")
  /\ UNCHANGED <<chainVars, st, memVars, v, crashes>>

Halt ==
  /\ pc \in {"halt", "invalid"}
  /\ SetBlobReady(FALSE)
  /\ Goto("stopped")
  /\ UNCHANGED <<chainVars, st, memVars, v, crashes>>

Poll ==
  /\ pc = "wait"
  /\ Goto("idle")
  /\ UNCHANGED <<chainVars, st, memVars, v, blobReady, crashes>>

Restart ==
  /\ crashes < MaxCrashes
  /\ crashes' = crashes + 1
  /\ boot' = NoBoot
  /\ back' = {}
  /\ Return("idle")
  /\ blobReady' = FALSE
  /\ UNCHANGED <<chainVars, st>>

-------------------------------------------------------------------------------
Init ==
  /\ ChainInit
  /\ st = NoState
  /\ boot = NoBoot
  /\ back = {}
  /\ pc = "idle"
  /\ v = Fresh
  /\ blobReady = FALSE
  /\ crashes = 0

Chain == ChainNext /\ UNCHANGED <<st, memVars, pc, v, blobReady, crashes>>

Prepare == CheckHeight \/ StartStep \/ ReadTip \/ ReadConfirmed \/ CaughtUp

History == Initialize \/ BootAnchor \/ Boot \/ AnchorWindow \/ ReadChanges
           \/ NextManager \/ BackAnchor \/ Back \/ ReadBack \/ FinishPage
           \/ ReadSenders \/ BootPage

Scan == ScanBlock \/ LogRefused \/ CheckEnd \/ CheckBoot \/ CommitScan

Worker == Prepare \/ History \/ Scan \/ AnchorChanged \/ Retry \/ Halt \/ Poll

Faults == CallFails \/ BadAnswer \/ CommitFails \/ Restart

\* A halted worker does nothing more; the process keeps answering HTTP.
Stopped == pc = "stopped" /\ UNCHANGED vars

Next == Chain \/ Worker \/ Faults \/ Stopped

Spec == Init /\ [][Next]_vars

-------------------------------------------------------------------------------
(* Safety. *)

\* Every variable has its type; a backfill is one of a window above block 0 and
\* has not gone past it.
TypeOK ==
  /\ tip \in 0..MaxHeight /\ DOMAIN chain = 0..tip /\ epoch \in 0..MaxReorgs
  /\ st.height \in Nil..MaxHeight
  /\ boot = NoBoot \/ boot.next \in 0..Start
  /\ \A b \in back : b.before \in 1..MaxHeight /\ b.next \in 0..b.before
  /\ DOMAIN v = DOMAIN Fresh
  /\ {v.target, v.end} \subseteq 0..MaxHeight
  /\ v.from \in 0..MaxHeight /\ v.at \in 0..MaxHeight + 1
  /\ blobReady \in BOOLEAN

\* The authorisation that the whole history of block h of chain c gives.
AuthOf(c, h) ==
  LET logs == LogsIn(c, 0, h)
      known == {l.manager : l \in Names(logs)} \ {NoAddr}
  IN  [manager |-> ManagerAfter(NoAddr, logs), known |-> known,
       table |-> Overwrite({}, Grants(logs, known))]

\* The sender for a role at transaction i of block k of chain c: of the grants
\* that the manager of that moment has ever made before it, the newest of those
\* with the highest height.
RightSender(c, k, i, role, fallback) ==
  LET before == {l \in LogsIn(c, 0, k) : l.at < k \/ l.tx < i}
      m == ManagerAfter(NoAddr, before)
      S == {l \in Grants(before, {m} \ {NoAddr}) : l.role = role /\ l.from <= k}
  IN  IF S = {} THEN fallback
      ELSE Newest({l \in S : \A x \in S : x.from <= l.from}).sender

RightSubs(c, h) ==
  UNION {{[at |-> k, tx |-> s.tx, sender |-> s.sender,
           blob |-> RightSender(c, k, s.tx, "blob", BlobSender)] :
            s \in {x \in c[k].subs :
                     x.sender = RightSender(c, k, x.tx, "batch", InboxSender)}} :
         k \in Start..h}

\* The committed authorisation is the one the committed block's whole history
\* gives, though it was read in pages, at different moments and from managers that
\* were named later than they spoke; and the submissions taken since Start are
\* exactly those whose sender was in force at their position.
AuthFaithful ==
  st.height # Nil =>
    /\ st.auth = AuthOf(st.hash, st.height)
    /\ st.subs = RightSubs(st.hash, st.height)

\* An integrity halt has a cause: as long as the chain is not reorganised, no
\* anchor fails, no log is refused by apply, and every authorisation the worker
\* clones or reads back passes decodeAuth.
NoFalseAlarm ==
  epoch = 0 =>
    /\ pc # "halt"
    /\ \A a \in {st.auth, v.auth, v.page} \cup {b.auth : b \in back}
                 \cup (IF boot = NoBoot THEN {} ELSE {boot.auth}) : Decodes(a)

-------------------------------------------------------------------------------
(* Liveness.  Every call returns, if only with an error, and every wait ends. *)

FairSpec == Spec /\ WF_vars(Worker \/ CallFails)

\* The chain has what the worker asks for.
Answerable ==
  CASE pc \in DOMAIN AfterHeight -> st.height <= tip
    [] pc = "confirmed" -> v.target <= tip
    [] pc \in {"bootanchor", "boot", "bootpage", "bootend"} -> Start - 1 <= tip
    [] pc \in {"backanchor", "back", "backend"} -> v.from - 1 <= tip
    [] pc \in {"anchor", "end"} -> v.end <= tip
    [] pc = "block" -> v.at <= tip
    [] OTHER -> TRUE

\* From some moment on the node answers in time what it can answer.
NodeRecovers == <>[][CallFails => ~Answerable]_vars

\* Bootstrap and backfill end: after any outage the worker scans up to the
\* confirmed block, or halts, or waits for the chain to come back to its anchor.
AuthCaughtUp ==
  NodeRecovers =>
    <>[](\/ pc \in {"halt", "invalid", "stopped"}
         \/ tip < st.height
         \/ Start > Confirmed(tip)
         \/ st.height >= Confirmed(tip))
===============================================================================
