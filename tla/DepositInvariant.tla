--------------------------- MODULE DepositInvariant ---------------------------
(***************************************************************************)
(* The inductive invariant behind the safety properties of DepositSync.    *)
(*                                                                         *)
(* A Step reads headers and logs at different moments, and the chain may   *)
(* be another one at each of them.  The argument is about blocks the       *)
(* worker remembers: each is still on the chain (Live) or gone for good    *)
(* (Dead), so a block found at a second look was there all the time in     *)
(* between, and what was read in between belongs to its chain.             *)
(***************************************************************************)
EXTENDS DepositSync

\* The checkpoint and the records.
StateOK ==
  IF state.height = Nil
    THEN state = NoState(NoAddr) /\ Stored = {}
    ELSE /\ Start <= state.height
         /\ Tracked(state.hash, state.height)
         /\ state.ctc = state.hash[state.height].out
         /\ Stored = Deposits(state.hash, Start, state.height)

\* The search for the CTC before Start: blocks above next hold no change of it.
BootOK ==
  boot.open =>
    /\ Start > 0
    /\ Tracked(boot.anchor, Start - 1)
    /\ boot.next <= Start - 1
    /\ IF boot.ready
         THEN boot.ctc = boot.anchor[Start - 1].out
         ELSE Sets(LogsIn(boot.anchor, boot.next + 1, Start - 1)) = {}

BootPcs == {"bootCheck", "bootPage", "bootRecheck", "bootFinal"}

PageOK ==
  /\ pc = "bootAnchor" => First /\ Start > 0
  /\ pc \in BootPcs => First /\ boot.open
  /\ pc \in {"bootPage", "bootRecheck"} => ~boot.ready
  /\ pc = "bootRecheck" =>
       /\ w.page.from = PageFrom(boot.next)
       /\ Live(boot.anchor, Start - 1) =>
            LET logs == Sets(LogsIn(boot.anchor, w.page.from, boot.next))
            IN  /\ w.page.found = (logs # {})
                /\ w.page.ctc = CtcAfter(NoAddr, logs)

Scanning == {"anchor", "changes", "enqueues", "decode"}

Checking == {"bootFinal", "ctcCheck", "endCheck", "checkpointFinal", "commit"}

Windowed == Scanning \cup Checking \cup BootPcs
              \cup {"bootAnchor", "stage", "publish"}

\* The window starts where the checkpoint ends.
WindowOK ==
  /\ pc \in (Windowed \ {"publish"}) \cup {"checkpoint", "tip", "plan"}
       => w.before = state
  /\ pc \in {"checkpoint", "checkpointFinal"} => ~First
  /\ pc \in Windowed \ {"publish"} =>
       w.from = From(w.before) /\ w.from <= w.end /\ w.end <= w.target
  /\ pc \in {"idle", "retry", "halt", "wait", "stopped"} => w = NoWindow

\* The CTC the scan starts from.
SeedOK ==
  pc \in Scanning =>
    w.ctc = IF First /\ Start > 0 THEN boot.ctc ELSE w.before.ctc

\* The bootstrap is complete whenever a first window relies on it.
SourceOK ==
  pc \in (Scanning \cup Checking \cup {"stage"}) /\ First /\ Start > 0
    => boot.open /\ boot.ready

EndOK ==
  pc \in (Scanning \ {"anchor"}) \cup Checking \cup {"stage"}
    => Tracked(w.endHash, w.end)

\* Logs that were read while the window's last block was on the chain.
LogsOK ==
  Live(w.endHash, w.end) =>
    /\ pc = "enqueues" => w.logs = Sets(LogsIn(w.endHash, w.from, w.end))
    /\ pc = "decode" =>
         /\ Sets(w.logs) = Sets(LogsIn(w.endHash, w.from, w.end))
         /\ Enqueues(w.logs) =
              {l \in Enqueues(LogsIn(w.endHash, w.from, w.end)) :
                 l.ev.addr \in Addresses(w.ctc, Sets(w.logs))}

\* Whatever was read, its changes end with a known address.
ClosedOK ==
  pc \in {"enqueues", "decode"} => \A x \in Addr : CtcAfter(x, w.logs) \in Addr

\* The window continues what the scan started from, on the chain c.
Seeded(c) ==
  IF First THEN Start > 0 => boot.anchor = Upto(c, Start - 1)
           ELSE w.before.hash = Upto(c, w.before.height)

\* The window's result is what its last block says.
Scanned == /\ w.ctc = w.endHash[w.end].out
           /\ w.records = Deposits(w.endHash, w.from, w.end)

DecodedOK ==
  /\ pc \in {"bootFinal", "ctcCheck", "endCheck"} =>
       (Live(w.endHash, w.end) /\ Seeded(w.endHash) => Scanned)
  /\ pc \in {"ctcCheck", "endCheck"} /\ First =>
       (Live(w.endHash, w.end) => Seeded(w.endHash))
  /\ pc = "checkpointFinal" =>
       (Live(w.before.hash, w.before.height) => Seeded(w.endHash) /\ Scanned)
  /\ pc = "commit" => Seeded(w.endHash) /\ Scanned

InBatch == {batch.db[i] : i \in DOMAIN batch.db}

\* The open batch: what was stored, plus the records staged so far.
StageOK ==
  /\ pc # "stage" => batch = NoBatch
  /\ pc = "stage" =>
       /\ batch.open
       /\ DOMAIN batch.db = 0..batch.latest
       /\ \A i \in DOMAIN batch.db : batch.db[i].idx = i
       /\ Seeded(w.endHash)
       /\ w.ctc = w.endHash[w.end].out
       /\ InBatch \cup w.records = Stored \cup Deposits(w.endHash, w.from, w.end)

\* What holds between Steps, and what holds inside one.
CoreInv == TypeOK /\ ChainOK /\ Contiguous /\ StateOK /\ BootOK

StepInv ==
  /\ PageOK
  /\ WindowOK
  /\ SeedOK
  /\ SourceOK
  /\ EndOK
  /\ LogsOK
  /\ ClosedOK
  /\ DecodedOK
  /\ StageOK

IInv == CoreInv /\ StepInv
===============================================================================
