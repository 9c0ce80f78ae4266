-------------------------- MODULE DepositSyncProofs --------------------------
(***************************************************************************)
(* The invariant of DepositInvariant is inductive, and the safety          *)
(* properties of DepositSync follow, for every chain, every configuration  *)
(* and every bound.                                                        *)
(***************************************************************************)
EXTENDS DepositInvariant, L1ChainProofs

Resting == {"idle", "retry", "halt", "wait", "stopped"}

USE DEF Nil, NoHash

------------------------------------------------------------------------------
(* Logs, deposits and remembered blocks. *)

\* A header the chain answers with is a block to remember.
LEMMA HashAtTracked ==
  ASSUME ChainTypeOK, ChainOK, NEW h \in 0..tip
  PROVE  Tracked(HashAt(h), h) /\ Live(HashAt(h), h) /\ IsHash(HashAt(h))
<1>1. WellFormed(HashAt(h), h)
  BY UptoWellFormed DEF ChainOK, HashAt
<1>2. Live(HashAt(h), h)
  BY DEF Live, ChainTypeOK
<1>3. IsHash(HashAt(h))
  BY <1>1 DEF WellFormed, IsHash
<1>. QED
  BY <1>1, <1>2, <1>3 DEF Tracked

\* While a block is on the chain, queries answer with the logs of its ancestors.
LEMMA LiveLogs ==
  ASSUME ChainTypeOK, NEW c, NEW h \in Nat, Live(c, h), NEW i \in Nat, NEW j \in 0..h
  PROVE  LogsIn(chain, i, j) = LogsIn(c, i, j)
BY UptoLogs DEF ChainTypeOK, Live, HashAt

\* Logs of a chain are logs.
LEMMA LogsInType ==
  ASSUME NEW c, NEW h, WellFormed(c, h), NEW i \in Int, NEW j \in Int
  PROVE  LogsIn(c, i, j) \in SUBSET Log
BY DEF LogsIn, WellFormed, Block

\* The address changes of any range of a chain end with an address.
LEMMA ChangesClosed ==
  ASSUME NEW c, NEW h, WellFormed(c, h), NEW i \in Nat, NEW j \in Nat, NEW x \in Addr
  PROVE  CtcAfter(x, LogsIn(c, i, j)) \in Addr
<1>0. h \in Nat /\ DOMAIN c = 0..h
  BY ChainAssumption DEF WellFormed
<1>1. CASE i > h \/ i > j
  <2>1. LogsIn(c, i, j) = {}
    BY <1>0, <1>1 DEF LogsIn
  <2>. QED
    BY <2>1 DEF CtcAfter, Sets
<1>2. CASE i <= h /\ i <= j
  <2> DEFINE m == IF j <= h THEN j ELSE h
  <2>1. m \in 0..h /\ i \in 0..h /\ i <= m
    BY <1>0, <1>2
  <2>2. (i..j) \cap DOMAIN c = (i..m) \cap DOMAIN c
    BY <1>0, <1>2
  <2>3. LogsIn(c, i, j) = LogsIn(c, i, m)
    BY <2>2 DEF LogsIn
  <2> HIDE DEF m
  <2>4. CtcAfter(c[i].in, LogsIn(c, i, m)) = c[m].out /\ c[m].out \in Addr
    BY <2>1 DEF WellFormed, Block
  <2>. QED
    BY <2>3, <2>4 DEF CtcAfter
<1>. QED
  BY <1>0, <1>1, <1>2

\* decodeLogs over a window of a chain, started with the CTC before it, finds
\* the deposits its blocks hold and the CTC after it, though the enqueue logs
\* were asked for by address.
LEMMA DecodeFaithful ==
  ASSUME NEW c, NEW h, WellFormed(c, h), NEW i \in 0..h, NEW logs,
         Sets(logs) = Sets(LogsIn(c, i, h)),
         Enqueues(logs) = {l \in Enqueues(LogsIn(c, i, h)) :
                             l.ev.addr \in Addresses(c[i].in, Sets(logs))}
  PROVE  /\ CtcAfter(c[i].in, logs) = c[h].out
         /\ Records(Active(c[i].in, logs)) = Deposits(c, i, h)
<1> DEFINE L == LogsIn(c, i, h)
           x == c[i].in
<1>0. h \in Nat /\ DOMAIN c = 0..h /\ i <= h /\ h \in 0..h
  BY ChainAssumption DEF WellFormed
<1>1. CtcAfter(x, logs) = c[h].out
  BY <1>0, CtcAfterSets DEF WellFormed
<1>2. \A l : CtcAt(x, logs, l) = CtcAt(x, L, l)
  BY CtcAtSets
<1>3. \A l \in L : /\ l.at \in i..h /\ l \in c[l.at].logs
                   /\ l.ev.kind = "enq" => l.ev.addr # NoAddr
  BY <1>0 DEF LogsIn, WellFormed
<1>4. \A l \in L : /\ CtcAt(x, L, l) = CtcAt(c[l.at].in, c[l.at].logs, l)
                   /\ \/ CtcAt(x, L, l) = x
                      \/ \E k \in Sets(L) : CtcAt(x, L, l) = k.ev.addr
  BY <1>0 DEF WellFormed
<1>5. \A k \in i..h : \A l \in c[k].logs : l \in L /\ l.at = k
  BY <1>0 DEF LogsIn, WellFormed
<1> HIDE DEF L, x
<1>6. Active(x, logs) = Active(x, L)
  <2>1. ASSUME NEW l \in Active(x, L) PROVE l \in Active(x, logs)
    <3>1. l \in L /\ l.ev.kind = "enq" /\ l.ev.ours /\ l.ev.addr = CtcAt(x, L, l)
      BY DEF Active, Enqueues
    <3>2. l.ev.addr # NoAddr
      BY <1>3, <3>1
    <3>3. l.ev.addr = x \/ \E k \in Sets(L) : l.ev.addr = k.ev.addr
      BY <1>4, <3>1
    <3>4. l.ev.addr \in Addresses(x, Sets(logs))
      BY <3>2, <3>3 DEF Addresses, L
    <3>5. l \in Enqueues(logs)
      BY <3>1, <3>4 DEF L, x, Enqueues
    <3>. QED
      BY <1>2, <3>1, <3>5 DEF Active
  <2>2. ASSUME NEW l \in Active(x, logs) PROVE l \in Active(x, L)
    <3>1. l \in Enqueues(L)
      BY DEF Active, L
    <3>. QED
      BY <1>2, <3>1 DEF Active
  <2>. QED
    BY <2>1, <2>2 DEF Active
<1>7. ASSUME NEW l
      PROVE  l \in Active(x, L)
               <=> \E k \in i..h : l \in Active(c[k].in, c[k].logs)
  <2>1. ASSUME l \in Active(x, L)
        PROVE  \E k \in i..h : l \in Active(c[k].in, c[k].logs)
    <3>1. l \in L /\ l.ev.kind = "enq" /\ l.ev.ours /\ l.ev.addr = CtcAt(x, L, l)
      BY <2>1 DEF Active, Enqueues
    <3>2. l.at \in i..h /\ l \in Active(c[l.at].in, c[l.at].logs)
      BY <1>3, <1>4, <3>1 DEF Active, Enqueues
    <3>. QED
      BY <3>2
  <2>2. ASSUME NEW k \in i..h, l \in Active(c[k].in, c[k].logs)
        PROVE  l \in Active(x, L)
    <3>1. l \in c[k].logs /\ l.ev.kind = "enq" /\ l.ev.ours
          /\ l.ev.addr = CtcAt(c[k].in, c[k].logs, l)
      BY <2>2 DEF Active, Enqueues
    <3>2. l \in L /\ l.at = k
      BY <1>5, <3>1
    <3>. QED
      BY <1>4, <3>1, <3>2 DEF Active, Enqueues
  <2>. QED
    BY <2>1, <2>2
<1>8. Records(Active(x, L)) = Deposits(c, i, h)
  BY <1>7 DEF Records, Deposits
<1>. QED
  BY <1>1, <1>6, <1>8 DEF x

\* The deposits of a chain are those of a prefix and those of the rest.
LEMMA DepositsSplit ==
  ASSUME NEW c, NEW h \in Nat, NEW m \in 0..h, NEW s \in 0..m
  PROVE  Deposits(c, s, h) = Deposits(Upto(c, m), s, m) \cup Deposits(c, m + 1, h)
<1>1. s..h = (s..m) \cup ((m + 1)..h)
  OBVIOUS
<1>2. \A k \in s..m : Upto(c, m)[k] = c[k]
  BY DEF Upto
<1>. QED
  BY <1>1, <1>2 DEF Deposits

------------------------------------------------------------------------------
(* Parts of a step that leave most of the invariant alone. *)

\* The checkpoint, the records and the chain are not touched.
LEMMA StoreFrame ==
  ASSUME CoreInv, UNCHANGED <<tip, chain, epoch, db, state>>
  PROVE  /\ ChainTypeOK' /\ ChainOK' /\ Contiguous' /\ StateOK'
         /\ IsState(state)' /\ Stored' = Stored
<1>1. ChainTypeOK' /\ ChainOK'
  BY DEF CoreInv, TypeOK, ChainTypeOK, ChainOK
<1>2. Stored' = Stored /\ Contiguous'
  BY DEF CoreInv, Stored, Contiguous
<1>3. StateOK'
  BY <1>2 DEF CoreInv, StateOK, Tracked, Live, Dead, HashAt
<1>4. IsState(state)'
  BY DEF CoreInv, TypeOK
<1>. QED
  BY <1>1, <1>2, <1>3, <1>4

\* The bootstrap is not touched.
LEMMA BootFrame ==
  ASSUME CoreInv, UNCHANGED <<tip, chain, epoch, boot>>
  PROVE  BootOK' /\ IsBoot(boot)'
BY DEF CoreInv, BootOK, TypeOK, Tracked, Live, Dead, HashAt

\* Between Steps nothing is remembered of a window.
LEMMA RestingOK ==
  ASSUME pc' \in Resting, w' = NoWindow, batch' = NoBatch
  PROVE  StepInv' /\ IsWindow(w)' /\ IsBatch(batch)'
<1>1. PageOK' /\ SeedOK' /\ SourceOK' /\ EndOK' /\ LogsOK' /\ ClosedOK' /\ DecodedOK'
  BY DEF Resting, PageOK, BootPcs, SeedOK, SourceOK, EndOK, LogsOK, ClosedOK,
         DecodedOK, Scanning, Checking
<1>2. WindowOK' /\ StageOK'
  BY DEF Resting, WindowOK, StageOK, Windowed, BootPcs, Scanning, Checking, NoBatch
<1>3. IsWindow(w)' /\ IsBatch(batch)'
  BY ChainAssumption
     DEF IsWindow, IsState, IsHash, IsBatch, NoWindow, NoState, NoPage, NoBatch
<1>. QED
  BY <1>1, <1>2, <1>3 DEF StepInv

\* The batch is only open while records are staged.
LEMMA BatchClosed ==
  ASSUME IInv, pc # "stage"
  PROVE  batch = NoBatch
BY DEF IInv, StepInv, StageOK

\* A Step that ends without touching the database keeps the invariant.
LEMMA ReturnOK ==
  ASSUME IInv, UNCHANGED <<tip, chain, epoch, db, state, boot, crashes>>,
         batch' = NoBatch, ready' \in BOOLEAN, fatal' \in BOOLEAN,
         pc' \in Resting, w' = NoWindow
  PROVE  IInv'
<1>0. CoreInv
  BY DEF IInv
<1>1. ChainTypeOK' /\ ChainOK' /\ Contiguous' /\ StateOK' /\ IsState(state)'
  BY <1>0, StoreFrame
<1>2. BootOK' /\ IsBoot(boot)'
  BY <1>0, BootFrame
<1>3. StepInv' /\ IsWindow(w)' /\ IsBatch(batch)'
  BY RestingOK
<1>4. TypeOK'
  BY <1>0, <1>1, <1>2, <1>3 DEF TypeOK, CoreInv, Resting, Calling
<1>. QED
  BY <1>1, <1>2, <1>3, <1>4 DEF IInv, CoreInv

\* A step inside a Step that only moves on, or only changes its window.
LEMMA WindowFrame ==
  ASSUME IInv, UNCHANGED <<tip, chain, epoch, db, state, boot, crashes>>,
         ready' \in BOOLEAN, fatal' \in BOOLEAN, IsBatch(batch)', IsWindow(w)',
         pc' \in Calling \cup {"plan", "decode", "ctcCheck", "commit", "stage", "publish"},
         StepInv'
  PROVE  IInv'
<1>0. CoreInv
  BY DEF IInv
<1>1. ChainTypeOK' /\ ChainOK' /\ Contiguous' /\ StateOK' /\ IsState(state)'
  BY <1>0, StoreFrame
<1>2. BootOK' /\ IsBoot(boot)'
  BY <1>0, BootFrame
<1>3. TypeOK'
  BY <1>0, <1>1, <1>2 DEF TypeOK, CoreInv
<1>. QED
  BY <1>1, <1>2, <1>3 DEF IInv, CoreInv

------------------------------------------------------------------------------
(* prepareWindow. *)

\* Step begins with the committed checkpoint, or stops after a fatal error.
LEMMA StartStepOK ==
  ASSUME IInv, StartStep
  PROVE  IInv'
<1>0. pc = "idle" /\ batch = NoBatch
  BY BatchClosed DEF StartStep
<1>1. CASE fatal
  BY <1>0, <1>1, ReturnOK
     DEF StartStep, Return, Goto, Resting, chainVars, storeVars, statusVars,
         IInv, CoreInv, TypeOK
<1>2. CASE ~fatal
  <2>1. /\ w' = [NoWindow EXCEPT !.before = state]
        /\ pc' = IF state.height # Nil THEN "checkpoint" ELSE "tip"
        /\ UNCHANGED <<tip, chain, epoch, db, state, boot, crashes, batch, ready, fatal>>
    BY <1>2 DEF StartStep, Goto, chainVars, storeVars, statusVars
  <2>a. IsState(state)
    BY DEF IInv, CoreInv, TypeOK
  <2>b. IsHash(NoHash)
    BY DEF IsHash
  <2>c. w' = [before |-> state, from |-> 0, end |-> 0, target |-> 0,
              endHash |-> NoHash, ctc |-> NoAddr, logs |-> {}, records |-> {},
              page |-> NoPage]
    BY <2>1 DEF NoWindow
  <2>2. IsWindow(w)'
    BY <2>a, <2>b, <2>c, ChainAssumption DEF IsWindow, NoPage
  <2>3. StepInv'
    BY <1>0, <2>1
       DEF StepInv, PageOK, BootPcs, WindowOK, SeedOK, SourceOK, EndOK, LogsOK,
           ClosedOK, DecodedOK, StageOK, Scanning, Checking, Windowed, First, NoWindow
  <2>. QED
    BY <2>1, <2>2, <2>3, WindowFrame DEF IInv, CoreInv, TypeOK, Calling
<1>. QED
  BY <1>1, <1>2

\* A checkpoint still on the chain lets prepareWindow go on.
LEMMA CheckCheckpointOK ==
  ASSUME IInv, CheckCheckpoint
  PROVE  IInv'
<1>0. /\ pc = "checkpoint" /\ pc' = "tip" /\ batch = NoBatch
      /\ UNCHANGED <<tip, chain, epoch, db, state, boot, crashes, batch, ready, fatal, w>>
  BY BatchClosed DEF CheckCheckpoint, Goto, chainVars, storeVars, statusVars
<1>1. StepInv'
  BY <1>0
     DEF IInv, StepInv, PageOK, BootPcs, WindowOK, SeedOK, SourceOK, EndOK, LogsOK,
         ClosedOK, DecodedOK, StageOK, Scanning, Checking, Windowed, First
<1>. QED
  BY <1>0, <1>1, WindowFrame DEF IInv, CoreInv, TypeOK, Calling

\* The confirmed height is a block number of the chain.
LEMMA ReadTipOK ==
  ASSUME IInv, ReadTip
  PROVE  IInv'
<1>0. /\ pc = "tip" /\ pc' = "plan" /\ batch = NoBatch
      /\ w' = [w EXCEPT !.target = Confirmed(tip)]
      /\ UNCHANGED <<tip, chain, epoch, db, state, boot, crashes, batch, ready, fatal>>
  BY BatchClosed DEF ReadTip, Goto, chainVars, storeVars, statusVars
<1>1. Confirmed(tip) \in 0..MaxHeight
  BY ChainAssumption, ConfigAssumption
     DEF Confirmed, IInv, CoreInv, TypeOK, ChainTypeOK
<1>2. IsWindow(w)' /\ w'.before = w.before
  BY <1>0, <1>1 DEF IInv, CoreInv, TypeOK, IsWindow
<1>3. StepInv'
  BY <1>0, <1>2
     DEF IInv, StepInv, PageOK, BootPcs, WindowOK, SeedOK, SourceOK, EndOK, LogsOK,
         ClosedOK, DecodedOK, StageOK, Scanning, Checking, Windowed, First
<1>. QED
  BY <1>0, <1>2, <1>3, WindowFrame DEF IInv, CoreInv, TypeOK, Calling

\* The window of prepareWindow starts after the checkpoint, is not empty and
\* ends at or below the confirmed block.
LEMMA OpenWindowOK ==
  ASSUME IInv, OpenWindow
  PROVE  IInv'
<1>0. /\ pc = "plan" /\ batch = NoBatch /\ From(w.before) <= w.target
      /\ w' = [w EXCEPT !.from = From(w.before),
                        !.end  = WindowEnd(From(w.before), w.target),
                        !.ctc  = w.before.ctc]
      /\ boot' = IF First THEN boot ELSE NoBoot
      /\ UNCHANGED <<tip, chain, epoch, db, state, crashes, batch>>
      /\ ready' = FALSE /\ fatal' = fatal
  BY BatchClosed DEF OpenWindow, Set, chainVars, storeVars, IInv, CoreInv, TypeOK
<1>1. /\ ~First \/ Start = 0 => pc' = "anchor"
      /\ First /\ Start > 0 /\ boot.open => pc' = "bootCheck"
      /\ First /\ Start > 0 /\ ~boot.open => pc' = "bootAnchor"
  BY ConfigAssumption DEF OpenWindow, Goto
<1>2. CoreInv /\ w.before = state /\ IsState(state) /\ IsWindow(w)
      /\ w.target \in 0..MaxHeight /\ MaxHeight \in Nat /\ Start \in 0..MaxHeight
      /\ BatchSize \in Nat /\ BatchSize > 0
  BY <1>0, ConfigAssumption, ChainAssumption
     DEF IInv, CoreInv, TypeOK, StepInv, WindowOK, IsWindow
<1>3. From(w.before) \in 0..MaxHeight
  BY <1>0, <1>2 DEF From, IsState
<1>4. WindowEnd(From(w.before), w.target) \in From(w.before)..w.target
  BY <1>0, <1>2, <1>3 DEF WindowEnd
<1>5. /\ w'.from = From(w.before) /\ w'.end \in w'.from..w.target
      /\ w'.ctc = w.before.ctc /\ w'.before = w.before /\ w'.target = w.target
      /\ IsWindow(w)'
  <2>1. w.before.ctc \in Addr
    BY <1>2 DEF IsState
  <2>2. WindowEnd(From(w.before), w.target) \in 0..MaxHeight
    BY <1>2, <1>3, <1>4
  <2>. QED
    BY <1>0, <1>2, <1>3, <1>4, <2>1, <2>2 DEF IsWindow
<1>6. ChainTypeOK' /\ ChainOK' /\ Contiguous' /\ StateOK' /\ IsState(state)'
  BY <1>0, <1>2, StoreFrame
<1>7. BootOK' /\ IsBoot(boot)'
  <2>1. CASE First
    BY <1>0, <1>2, <2>1, BootFrame
  <2>2. CASE ~First
    BY <1>0, <2>2, ChainAssumption DEF NoBoot, BootOK, IsBoot, IsHash
  <2>. QED
    BY <2>1, <2>2
<1>8. pc' \in {"anchor", "bootCheck", "bootAnchor"} /\ (First' <=> First)
  BY <1>1, <1>2, <1>5, ConfigAssumption DEF IsState, First, IInv, CoreInv, TypeOK, IsBoot
<1>9. TypeOK'
  BY <1>0, <1>2, <1>5, <1>6, <1>7, <1>8 DEF TypeOK, CoreInv, Calling
<1>10. PageOK' /\ WindowOK' /\ EndOK' /\ LogsOK' /\ ClosedOK' /\ DecodedOK' /\ StageOK'
  BY <1>0, <1>1, <1>2, <1>5, <1>8, ConfigAssumption
     DEF PageOK, BootPcs, WindowOK, EndOK, LogsOK, ClosedOK, DecodedOK, StageOK,
         Scanning, Checking, Windowed, First, From
<1>11. SeedOK' /\ SourceOK'
  BY <1>0, <1>1, <1>2, <1>5, <1>8, ConfigAssumption
     DEF SeedOK, SourceOK, Scanning, Checking, First
<1>. QED
  BY <1>6, <1>7, <1>9, <1>10, <1>11 DEF IInv, CoreInv, StepInv

------------------------------------------------------------------------------
(* initializeCTC. *)

\* The invariant of a Step at one of the places where only the window's range
\* and the bootstrap matter.
LEMMA AtBootstrap ==
  ASSUME pc' \in {"bootCheck", "bootPage"}, batch' = NoBatch, First', boot'.open,
         pc' = "bootPage" => ~boot'.ready,
         w'.before = state', w'.from = From(w'.before), w'.from <= w'.end,
         w'.end <= w'.target
  PROVE  StepInv'
BY DEF StepInv, PageOK, BootPcs, WindowOK, SeedOK, SourceOK, EndOK, LogsOK,
       ClosedOK, DecodedOK, StageOK, Scanning, Checking, Windowed

\* The invariant of a Step at anchorWindow, where the range and the CTC to start
\* from matter.
LEMMA AtAnchor ==
  ASSUME pc' = "anchor", batch' = NoBatch,
         w'.before = state', w'.from = From(w'.before), w'.from <= w'.end,
         w'.end <= w'.target, SeedOK', SourceOK'
  PROVE  StepInv'
BY DEF StepInv, PageOK, BootPcs, WindowOK, EndOK, LogsOK,
       ClosedOK, DecodedOK, StageOK, Scanning, Checking, Windowed

\* The search for the CTC starts from a block of the chain.
LEMMA ReadBootAnchorOK ==
  ASSUME IInv, ReadBootAnchor
  PROVE  IInv'
<1>0. /\ pc = "bootAnchor" /\ pc' = "bootCheck" /\ batch = NoBatch
      /\ Start - 1 <= tip
      /\ boot' = [NoBoot EXCEPT !.open = TRUE, !.anchor = HashAt(Start - 1),
                                !.next = Start - 1]
      /\ UNCHANGED <<tip, chain, epoch, db, state, crashes, batch, ready, fatal, w>>
  BY BatchClosed DEF ReadBootAnchor, Goto, chainVars, storeVars, statusVars
<1>1. CoreInv /\ First /\ Start > 0 /\ Start \in Nat /\ tip \in Nat
      /\ Start - 1 \in 0..tip /\ Start - 1 \in 0..MaxHeight
  BY <1>0, ConfigAssumption, ChainAssumption
     DEF IInv, StepInv, PageOK, CoreInv, TypeOK, ChainTypeOK
<1>2. ChainTypeOK' /\ ChainOK' /\ Contiguous' /\ StateOK' /\ IsState(state)'
  BY <1>0, <1>1, StoreFrame
<1>3. Tracked(HashAt(Start - 1), Start - 1) /\ IsHash(HashAt(Start - 1))
  BY <1>1, HashAtTracked DEF CoreInv, TypeOK
<1>4. boot' = [open |-> TRUE, anchor |-> HashAt(Start - 1), next |-> Start - 1,
               ready |-> FALSE, ctc |-> NoAddr]
  BY <1>0 DEF NoBoot
<1>5. IsBoot(boot)'
  BY <1>1, <1>3, <1>4, ChainAssumption DEF IsBoot
<1>6. BootOK'
  <2>1. Tracked(boot.anchor, Start - 1)'
    BY <1>0, <1>3, <1>4 DEF Tracked, Live, Dead, HashAt
  <2>2. Sets(LogsIn(boot'.anchor, boot'.next + 1, Start - 1)) = {}
    <3>1. (Start - 1 + 1)..(Start - 1) = {}
      BY <1>1
    <3>. QED
      BY <1>4, <3>1 DEF Sets, LogsIn
  <2>. QED
    BY <1>1, <1>4, <2>1, <2>2 DEF BootOK
<1>7. StepInv'
  BY <1>0, <1>1, <1>4, AtBootstrap DEF IInv, StepInv, WindowOK, Windowed, First
<1>8. TypeOK'
  BY <1>0, <1>1, <1>2, <1>5 DEF TypeOK, CoreInv, Calling
<1>. QED
  BY <1>2, <1>6, <1>7, <1>8 DEF IInv, CoreInv

\* A completed search hands over the CTC of the anchor it checked.
LEMMA CheckBootstrapOK ==
  ASSUME IInv, CheckBootstrap
  PROVE  IInv'
<1>0. /\ pc = "bootCheck" /\ batch = NoBatch
      /\ IF boot.ready THEN pc' = "anchor" /\ w' = [w EXCEPT !.ctc = boot.ctc]
                       ELSE pc' = "bootPage" /\ w' = w
      /\ UNCHANGED <<tip, chain, epoch, db, state, boot, crashes, batch, ready, fatal>>
  BY BatchClosed DEF CheckBootstrap, Goto, chainVars, storeVars, statusVars
<1>1. /\ CoreInv /\ First /\ boot.open /\ boot.ctc \in Addr /\ boot.ready \in BOOLEAN
      /\ w.before = state /\ w.from = From(w.before) /\ w.from <= w.end
      /\ w.end <= w.target /\ IsWindow(w) /\ Start > 0
  BY <1>0 DEF IInv, CoreInv, TypeOK, IsBoot, StepInv, PageOK, BootPcs, WindowOK,
              Windowed, BootOK
<1>2. IsWindow(w)' /\ w'.before = w.before /\ w'.from = w.from /\ w'.end = w.end
      /\ w'.target = w.target
  BY <1>0, <1>1 DEF IsWindow
<1>3. StepInv'
  <2>1. CASE boot.ready
    <3>1. w'.ctc = boot'.ctc /\ First' /\ pc' = "anchor" /\ boot'.open /\ boot'.ready
      BY <1>0, <1>1, <1>2, <2>1 DEF IsWindow, First
    <3>2. SeedOK' /\ SourceOK'
      BY <1>1, <3>1 DEF SeedOK, SourceOK
    <3>. QED
      BY <1>0, <1>1, <1>2, <3>1, <3>2, AtAnchor
  <2>2. CASE ~boot.ready
    BY <1>0, <1>1, <2>2, AtBootstrap DEF First
  <2>. QED
    BY <2>1, <2>2
<1>. QED
  BY <1>0, <1>1, <1>2, <1>3, WindowFrame DEF IInv, CoreInv, TypeOK, Calling

\* A page that is read while the anchor is on the chain is a page of its chain.
LEMMA LoadBootPageOK ==
  ASSUME IInv, LoadBootPage
  PROVE  IInv'
<1> DEFINE from == PageFrom(boot.next)
           logs == Sets(LogsIn(chain, from, boot.next))
<1>0. /\ pc = "bootPage" /\ batch = NoBatch
      /\ UNCHANGED <<tip, chain, epoch, db, state, boot, crashes, batch, ready, fatal>>
  BY BatchClosed DEF LoadBootPage, chainVars, storeVars, statusVars
<1>1. /\ CoreInv /\ First /\ boot.open /\ boot.next \in 0..MaxHeight
      /\ w.before = state /\ w.from = From(w.before) /\ w.from <= w.end
      /\ w.end <= w.target /\ IsWindow(w) /\ Start > 0 /\ boot.next <= Start - 1
      /\ Tracked(boot.anchor, Start - 1) /\ Start \in Nat /\ MaxHeight \in Nat
      /\ ChainTypeOK /\ ChainOK /\ ~boot.ready
  BY <1>0, ConfigAssumption, ChainAssumption
     DEF IInv, CoreInv, TypeOK, IsBoot, StepInv, PageOK, BootPcs, WindowOK, Windowed,
         BootOK
<1>2. from \in 0..boot.next /\ from \in Nat /\ from \in 0..MaxHeight /\ boot.next \in Nat
  BY <1>1, ConfigAssumption DEF PageFrom
<1>3. CASE logs # {} /\ ~Linked(PageInit(from, logs), logs)
  <2>1. pc' = "halt" /\ w' = NoWindow
    BY <1>3 DEF LoadBootPage, Return, Goto
  <2>. QED
    BY <1>0, <2>1, ReturnOK DEF Resting, IInv, CoreInv, TypeOK
<1>4. CASE ~(logs # {} /\ ~Linked(PageInit(from, logs), logs))
  <2>1. /\ pc' = "bootRecheck"
        /\ w' = [w EXCEPT !.page = [from |-> from, found |-> logs # {},
                                    ctc |-> CtcAfter(NoAddr, logs)]]
    BY <1>4 DEF LoadBootPage, Goto
  <2>2. CtcAfter(NoAddr, logs) \in Addr
    <3>1. Sets(logs) = Sets(LogsIn(chain, from, boot.next))
      BY DEF Sets
    <3>2. CtcAfter(NoAddr, LogsIn(chain, from, boot.next)) \in Addr
      BY <1>1, <1>2, ChangesClosed, ChainAssumption DEF ChainOK
    <3>. QED
      BY <3>1, <3>2, CtcAfterSets
  <2>3. Live(boot.anchor, Start - 1) =>
           LogsIn(chain, from, boot.next) = LogsIn(boot.anchor, from, boot.next)
    BY <1>1, <1>2, LiveLogs
  <2> HIDE DEF logs
  <2>4. /\ IsWindow(w)' /\ w'.before = w.before /\ w'.from = w.from /\ w'.end = w.end
        /\ w'.target = w.target
        /\ w'.page = [from |-> from, found |-> logs # {}, ctc |-> CtcAfter(NoAddr, logs)]
    BY <1>1, <1>2, <2>1, <2>2 DEF IsWindow
  <2>5. Live(boot.anchor, Start - 1)' => Live(boot.anchor, Start - 1)
    BY <1>0 DEF Live, HashAt
  <2>6. First' /\ boot' = boot
    BY <1>0, <1>1, <2>4 DEF First
  <2>7. PageOK'
    BY <2>1, <2>3, <2>4, <2>5, <2>6, <1>1 DEF PageOK, logs
  <2>8. StepInv'
    BY <1>0, <1>1, <2>1, <2>4, <2>7
       DEF StepInv, WindowOK, SeedOK, SourceOK, EndOK, LogsOK,
           ClosedOK, DecodedOK, StageOK, Scanning, Checking, Windowed
  <2>. QED
    BY <1>0, <2>1, <2>4, <2>8, WindowFrame DEF IInv, CoreInv, TypeOK, Calling
<1>. QED
  BY <1>3, <1>4

\* What the second check of initializeCTC knows: the page was read from the anchor's chain.
LEMMA PageRead ==
  ASSUME IInv, pc = "bootRecheck", Confirms(Start - 1, boot.anchor)
  PROVE  /\ First /\ boot.open /\ Start > 0 /\ WellFormed(boot.anchor, Start - 1)
         /\ ~boot.ready
         /\ w.page.from \in 0..boot.next /\ boot.next \in 0..(Start - 1)
         /\ w.page.found = (Sets(LogsIn(boot.anchor, w.page.from, boot.next)) # {})
         /\ w.page.ctc = CtcAfter(NoAddr, LogsIn(boot.anchor, w.page.from, boot.next))
         /\ w.page.ctc \in Addr
         /\ Sets(LogsIn(boot.anchor, boot.next + 1, Start - 1)) = {}
<1>1. Live(boot.anchor, Start - 1)
  BY DEF Confirms, AnchorHolds, Live
<1>2. /\ First /\ boot.open /\ Start > 0 /\ Start \in Nat /\ boot.next \in Nat
      /\ boot.next <= Start - 1 /\ w.page.ctc \in Addr /\ ~boot.ready
      /\ WellFormed(boot.anchor, Start - 1)
      /\ Sets(LogsIn(boot.anchor, boot.next + 1, Start - 1)) = {}
  BY ConfigAssumption, ChainAssumption
     DEF IInv, StepInv, PageOK, BootPcs, CoreInv, BootOK, TypeOK, IsBoot, IsWindow,
         Tracked
<1>3. /\ w.page.from = PageFrom(boot.next)
      /\ w.page.found = (Sets(LogsIn(boot.anchor, w.page.from, boot.next)) # {})
      /\ w.page.ctc = CtcAfter(NoAddr, Sets(LogsIn(boot.anchor, w.page.from, boot.next)))
  BY <1>1 DEF IInv, StepInv, PageOK
<1>4. PageFrom(boot.next) \in 0..boot.next
  BY <1>2, ConfigAssumption DEF PageFrom
<1>5. \A S : Sets(Sets(S)) = Sets(S)
  BY DEF Sets
<1>. QED
  BY <1>2, <1>3, <1>4, <1>5, CtcAfterSets

\* An empty page, confirmed by the anchor, extends the range known to be free of
\* CTC changes.
LEMMA NextPageOK ==
  ASSUME IInv, NextPage
  PROVE  IInv'
<1>0. /\ pc = "bootRecheck" /\ batch = NoBatch /\ pc' = "idle" /\ w' = NoWindow
      /\ ~w.page.found /\ w.page.from > 0
      /\ boot' = [boot EXCEPT !.next = w.page.from - 1]
      /\ UNCHANGED <<tip, chain, epoch, db, state, crashes, batch, ready, fatal>>
  BY BatchClosed DEF NextPage, Return, Goto, chainVars, storeVars, statusVars
<1>1. /\ boot.open /\ Start > 0 /\ w.page.from \in 0..boot.next /\ ~boot.ready
      /\ boot.next \in 0..(Start - 1)
      /\ w.page.found = (Sets(LogsIn(boot.anchor, w.page.from, boot.next)) # {})
      /\ Sets(LogsIn(boot.anchor, boot.next + 1, Start - 1)) = {}
  BY <1>0, PageRead DEF NextPage
<1>2. CoreInv /\ BootOK /\ IsBoot(boot) /\ Start \in 0..MaxHeight /\ MaxHeight \in Nat
  BY ConfigAssumption, ChainAssumption DEF IInv, CoreInv, TypeOK
<1>3. ChainTypeOK' /\ ChainOK' /\ Contiguous' /\ StateOK' /\ IsState(state)'
  BY <1>0, <1>2, StoreFrame
<1>4. w.page.from - 1 \in 0..MaxHeight /\ w.page.from - 1 <= Start - 1
  BY <1>0, <1>1, <1>2
<1>5. /\ IsBoot(boot)' /\ boot'.open = boot.open /\ boot'.anchor = boot.anchor
      /\ boot'.next = w.page.from - 1 /\ boot'.ready = boot.ready
  BY <1>0, <1>2, <1>4 DEF IsBoot
<1>6. Sets(LogsIn(boot.anchor, w.page.from, Start - 1)) = {}
  <2>1. w.page.from..(Start - 1) = (w.page.from..boot.next) \cup ((boot.next + 1)..(Start - 1))
    BY <1>1, <1>2
  <2>2. LogsIn(boot.anchor, w.page.from, Start - 1)
          = LogsIn(boot.anchor, w.page.from, boot.next)
            \cup LogsIn(boot.anchor, boot.next + 1, Start - 1)
    BY <2>1 DEF LogsIn
  <2>. QED
    BY <1>0, <1>1, <2>2 DEF Sets
<1>7. BootOK'
  <2>1. Tracked(boot.anchor, Start - 1)'
    BY <1>0, <1>1, <1>2, <1>5 DEF BootOK, Tracked, Live, Dead, HashAt
  <2>2. boot'.next + 1 = w.page.from
    BY <1>1, <1>5
  <2>. QED
    BY <1>1, <1>4, <1>5, <1>6, <2>1, <2>2 DEF BootOK
<1>8. StepInv' /\ IsWindow(w)' /\ IsBatch(batch)'
  BY <1>0, RestingOK DEF Resting
<1>9. TypeOK'
  BY <1>0, <1>2, <1>3, <1>5, <1>8 DEF TypeOK, CoreInv, Calling
<1>. QED
  BY <1>3, <1>7, <1>8, <1>9 DEF IInv, CoreInv

\* The search ends with the CTC after the anchor, however many pages it took.
LEMMA BootReadyOK ==
  ASSUME IInv, BootReady
  PROVE  IInv'
<1>0. /\ pc = "bootRecheck" /\ batch = NoBatch /\ pc' = "anchor"
      /\ w.page.found \/ w.page.from = 0
      /\ boot' = [boot EXCEPT !.ready = TRUE, !.ctc = w.page.ctc]
      /\ w' = [w EXCEPT !.ctc = w.page.ctc]
      /\ UNCHANGED <<tip, chain, epoch, db, state, crashes, batch, ready, fatal>>
  BY BatchClosed DEF BootReady, Goto, chainVars, storeVars, statusVars
<1> DEFINE c == boot.anchor
           m == boot.next
           L == LogsIn(c, w.page.from, m)
<1>1. /\ First /\ boot.open /\ Start > 0 /\ WellFormed(c, Start - 1)
      /\ w.page.from \in 0..m /\ m \in 0..(Start - 1)
      /\ w.page.found = (Sets(L) # {})
      /\ w.page.ctc = CtcAfter(NoAddr, L) /\ w.page.ctc \in Addr
      /\ Sets(LogsIn(c, m + 1, Start - 1)) = {}
  BY <1>0, PageRead DEF BootReady
<1>2. /\ CoreInv /\ BootOK /\ IsBoot(boot) /\ Start \in Nat /\ IsWindow(w)
      /\ w.before = state /\ w.from = From(w.before) /\ w.from <= w.end
      /\ w.end <= w.target
  BY <1>0, ConfigAssumption, ChainAssumption
     DEF IInv, CoreInv, TypeOK, StepInv, WindowOK, Windowed, BootPcs
<1>3. ChainTypeOK' /\ ChainOK' /\ Contiguous' /\ StateOK' /\ IsState(state)'
  BY <1>0, <1>2, StoreFrame
<1>4. w.page.ctc = c[m].out
  <2>1. CtcAfter(c[w.page.from].in, L) = c[m].out
    <3>1. w.page.from \in 0..(Start - 1) /\ w.page.from <= m
      BY <1>1, <1>2
    <3>. QED
      BY <1>1, <3>1 DEF WellFormed
  <2>2. w.page.from = 0 => c[w.page.from].in = NoAddr
    BY <1>1 DEF WellFormed
  <2>. QED
    BY <1>0, <1>1, <2>1, <2>2 DEF CtcAfter
<1>5. c[m].out = c[Start - 1].out
  <2>1. CASE m = Start - 1
    BY <2>1
  <2>2. CASE m < Start - 1
    <3>1. m + 1 \in 0..(Start - 1) /\ m + 1 > 0 /\ m + 1 <= Start - 1
          /\ (m + 1) - 1 = m /\ Start - 1 \in 0..(Start - 1)
      BY <1>1, <1>2, <2>2
    <3>2. c[m + 1].in = c[m].out
      BY <1>1, <3>1 DEF WellFormed
    <3>3. CtcAfter(c[m + 1].in, LogsIn(c, m + 1, Start - 1)) = c[Start - 1].out
      BY <1>1, <3>1 DEF WellFormed
    <3>. QED
      BY <1>1, <3>2, <3>3 DEF CtcAfter
  <2>. QED
    BY <1>1, <1>2, <2>1, <2>2
<1> HIDE DEF c, m, L
<1>6. /\ IsBoot(boot)' /\ boot'.open = boot.open /\ boot'.anchor = boot.anchor
      /\ boot'.next = boot.next /\ boot'.ready = TRUE /\ boot'.ctc = w.page.ctc
  BY <1>0, <1>1, <1>2 DEF IsBoot
<1>7. BootOK'
  <2>1. Tracked(boot.anchor, Start - 1)'
    BY <1>0, <1>1, <1>2, <1>6 DEF BootOK, Tracked, Live, Dead, HashAt
  <2>2. boot'.next <= Start - 1
    BY <1>1, <1>2, <1>6 DEF BootOK
  <2>. QED
    BY <1>1, <1>4, <1>5, <1>6, <2>1, <2>2 DEF BootOK, c
<1>8. /\ IsWindow(w)' /\ w'.before = w.before /\ w'.from = w.from /\ w'.end = w.end
      /\ w'.target = w.target /\ w'.ctc = w.page.ctc
  BY <1>0, <1>1, <1>2 DEF IsWindow
<1>9. SeedOK' /\ SourceOK'
  <2>1. First' /\ Start > 0 /\ w'.ctc = boot'.ctc /\ boot'.open /\ boot'.ready
    BY <1>1, <1>6, <1>8 DEF First
  <2>. QED
    BY <2>1 DEF SeedOK, SourceOK
<1>10. StepInv'
  BY <1>0, <1>2, <1>8, <1>9, AtAnchor
<1>11. TypeOK'
  BY <1>0, <1>2, <1>3, <1>6, <1>8 DEF TypeOK, CoreInv, Calling
<1>. QED
  BY <1>3, <1>7, <1>10, <1>11 DEF IInv, CoreInv

------------------------------------------------------------------------------
(* anchorWindow, loadLogs and decodeLogs. *)

\* The range of a window.
LEMMA InWindow ==
  ASSUME IInv, pc \in Scanning \cup Checking \cup {"stage"}
  PROVE  /\ CoreInv /\ IsWindow(w) /\ w.before = state /\ w.from = From(w.before)
         /\ w.from \in 0..w.end /\ w.end \in 0..MaxHeight /\ w.end <= w.target
         /\ w.from \in Nat /\ w.end \in Nat /\ MaxHeight \in Nat
<1>1. /\ CoreInv /\ IsWindow(w) /\ w.before = state /\ w.from = From(w.before)
      /\ w.from <= w.end /\ w.end <= w.target
  BY DEF IInv, CoreInv, TypeOK, StepInv, WindowOK, Windowed, Scanning, Checking
<1>. QED
  BY <1>1, ChainAssumption DEF IsWindow

\* anchorWindow remembers a block of the chain as the window's end.
LEMMA AnchorWindowOK ==
  ASSUME IInv, AnchorWindow
  PROVE  IInv'
<1>0. /\ pc = "anchor" /\ pc' = "changes" /\ batch = NoBatch /\ w.end <= tip
      /\ w' = [w EXCEPT !.endHash = HashAt(w.end)]
      /\ UNCHANGED <<tip, chain, epoch, db, state, boot, crashes, batch, ready, fatal>>
  BY BatchClosed DEF AnchorWindow, Goto, chainVars, storeVars, statusVars
<1>1. /\ CoreInv /\ IsWindow(w) /\ w.before = state /\ w.from = From(w.before)
      /\ w.from \in 0..w.end /\ w.end \in 0..MaxHeight /\ w.end <= w.target
      /\ w.from \in Nat /\ w.end \in Nat
  BY <1>0, InWindow DEF Scanning
<1>2. w.end \in 0..tip
  BY <1>0, <1>1 DEF CoreInv, TypeOK, ChainTypeOK
<1>3. Tracked(HashAt(w.end), w.end) /\ IsHash(HashAt(w.end))
  BY <1>1, <1>2, HashAtTracked DEF CoreInv, TypeOK
<1>4. /\ IsWindow(w)' /\ w'.before = w.before /\ w'.from = w.from /\ w'.end = w.end
      /\ w'.target = w.target /\ w'.ctc = w.ctc /\ w'.endHash = HashAt(w.end)
  BY <1>0, <1>1, <1>3 DEF IsWindow
<1>5. EndOK'
  BY <1>0, <1>3, <1>4 DEF EndOK, Tracked, Live, Dead, HashAt
<1>6. SeedOK' /\ SourceOK'
  BY <1>0, <1>4 DEF IInv, StepInv, SeedOK, SourceOK, Scanning, First
<1>7. StepInv'
  BY <1>0, <1>1, <1>4, <1>5, <1>6
     DEF StepInv, PageOK, BootPcs, WindowOK, LogsOK, ClosedOK, DecodedOK, StageOK,
         Scanning, Checking, Windowed, First
<1>. QED
  BY <1>0, <1>4, <1>7, WindowFrame DEF IInv, CoreInv, TypeOK, Calling

\* The first FilterLogs of loadLogs reads the changes of the window's chain, if
\* its last block is still there.
LEMMA LoadChangesOK ==
  ASSUME IInv, LoadChanges
  PROVE  IInv'
<1> DEFINE S == Sets(LogsIn(chain, w.from, w.end))
<1>0. /\ pc = "changes" /\ batch = NoBatch
      /\ w' = [w EXCEPT !.logs = S]
      /\ UNCHANGED <<tip, chain, epoch, db, state, boot, crashes, batch, ready, fatal>>
  BY BatchClosed DEF LoadChanges, chainVars, storeVars, statusVars
<1>1. /\ CoreInv /\ IsWindow(w) /\ w.before = state /\ w.from = From(w.before)
      /\ w.from \in 0..w.end /\ w.end \in 0..MaxHeight /\ w.end <= w.target
      /\ w.from \in Nat /\ w.end \in Nat /\ MaxHeight \in Nat
  BY <1>0, InWindow DEF Scanning
<1>2. S \in SUBSET Log /\ Sets(S) = S /\ Enqueues(S) = {}
  <2>1. LogsIn(chain, w.from, w.end) \in SUBSET Log
    BY <1>1, LogsInType DEF CoreInv, ChainOK
  <2>. QED
    BY <2>1 DEF Sets, Enqueues
<1>3. /\ IsWindow(w)' /\ w'.before = w.before /\ w'.from = w.from /\ w'.end = w.end
      /\ w'.target = w.target /\ w'.ctc = w.ctc /\ w'.endHash = w.endHash
      /\ w'.logs = S
  BY <1>0, <1>1, <1>2 DEF IsWindow
<1>4. /\ Addresses(w.ctc, S) = {} => pc' = "decode"
      /\ Addresses(w.ctc, S) # {} => pc' = "enqueues"
  BY <1>3 DEF LoadChanges, Goto
<1>5. Live(w.endHash, w.end) => S = Sets(LogsIn(w.endHash, w.from, w.end))
  BY <1>1, LiveLogs DEF CoreInv, TypeOK
<1>6. \A x \in Addr : CtcAfter(x, S) \in Addr
  <2>1. \A x \in Addr : CtcAfter(x, LogsIn(chain, w.from, w.end)) \in Addr
    BY <1>1, ChangesClosed DEF CoreInv, ChainOK
  <2>2. Sets(S) = Sets(LogsIn(chain, w.from, w.end))
    BY <1>2
  <2>. QED
    BY <2>1, <2>2, CtcAfterSets
<1>7. pc' \in {"decode", "enqueues"}
  BY <1>4
<1> HIDE DEF S
<1>8. EndOK'
  BY <1>0, <1>3 DEF EndOK, Tracked, Live, Dead, HashAt, IInv, StepInv, Scanning
<1>9. SeedOK' /\ SourceOK'
  BY <1>0, <1>3, <1>7 DEF IInv, StepInv, SeedOK, SourceOK, Scanning, First
<1>10. LogsOK'
  <2>1. Live(w.endHash, w.end)' => Live(w.endHash, w.end)
    BY <1>0, <1>3 DEF Live, HashAt
  <2>2. ASSUME pc' = "decode", Live(w.endHash, w.end)
        PROVE  Enqueues(w'.logs) = {l \in Enqueues(LogsIn(w'.endHash, w'.from, w'.end)) :
                                       l.ev.addr \in Addresses(w'.ctc, Sets(w'.logs))}
    BY <1>2, <1>3, <1>4, <2>2
  <2>. QED
    BY <1>2, <1>3, <1>5, <2>1, <2>2 DEF LogsOK
<1>11. ClosedOK'
  BY <1>3, <1>6 DEF ClosedOK
<1>12. StepInv'
  BY <1>0, <1>1, <1>3, <1>7, <1>8, <1>9, <1>10, <1>11
     DEF StepInv, PageOK, BootPcs, WindowOK, DecodedOK, StageOK,
         Scanning, Checking, Windowed, First
<1>. QED
  BY <1>0, <1>3, <1>7, <1>12, WindowFrame DEF IInv, CoreInv, TypeOK, Calling

\* The second FilterLogs reads the deposits of every CTC the window knows of.
LEMMA LoadEnqueuesOK ==
  ASSUME IInv, LoadEnqueues
  PROVE  IInv'
<1> DEFINE E == {l \in Enqueues(LogsIn(chain, w.from, w.end)) :
                   l.ev.addr \in Addresses(w.ctc, w.logs)}
<1>0. /\ pc = "enqueues" /\ pc' = "decode" /\ batch = NoBatch
      /\ w' = [w EXCEPT !.logs = w.logs \cup E]
      /\ UNCHANGED <<tip, chain, epoch, db, state, boot, crashes, batch, ready, fatal>>
  BY BatchClosed DEF LoadEnqueues, Goto, chainVars, storeVars, statusVars
<1>1. /\ CoreInv /\ IsWindow(w) /\ w.before = state /\ w.from = From(w.before)
      /\ w.from \in 0..w.end /\ w.end \in 0..MaxHeight /\ w.end <= w.target
      /\ w.from \in Nat /\ w.end \in Nat /\ MaxHeight \in Nat
  BY <1>0, InWindow DEF Scanning
<1>2. E \in SUBSET Log /\ Sets(E) = {} /\ Enqueues(E) = E
  <2>1. LogsIn(chain, w.from, w.end) \in SUBSET Log
    BY <1>1, LogsInType DEF CoreInv, ChainOK
  <2>. QED
    BY <2>1 DEF Sets, Enqueues
<1>3. Live(w.endHash, w.end) =>
        LogsIn(chain, w.from, w.end) = LogsIn(w.endHash, w.from, w.end)
  BY <1>1, LiveLogs DEF CoreInv, TypeOK
<1>4. Sets(w.logs \cup E) = Sets(w.logs)
  BY <1>2 DEF Sets
<1>5. /\ IsWindow(w)' /\ w'.before = w.before /\ w'.from = w.from /\ w'.end = w.end
      /\ w'.target = w.target /\ w'.ctc = w.ctc /\ w'.endHash = w.endHash
      /\ w'.logs = w.logs \cup E
  BY <1>0, <1>1, <1>2 DEF IsWindow
<1>6. LogsOK'
  <2>1. Live(w.endHash, w.end)' => Live(w.endHash, w.end)
    BY <1>0, <1>5 DEF Live, HashAt
  <2>2. ASSUME Live(w.endHash, w.end)
        PROVE  /\ Sets(w'.logs) = Sets(LogsIn(w'.endHash, w'.from, w'.end))
               /\ Enqueues(w'.logs) =
                    {l \in Enqueues(LogsIn(w'.endHash, w'.from, w'.end)) :
                       l.ev.addr \in Addresses(w'.ctc, Sets(w'.logs))}
    <3>1. w.logs = Sets(LogsIn(w.endHash, w.from, w.end))
      BY <1>0, <2>2 DEF IInv, StepInv, LogsOK
    <3>2. Sets(w.logs) = w.logs /\ Enqueues(w.logs) = {}
      BY <3>1 DEF Sets, Enqueues
    <3>3. Enqueues(w.logs \cup E) = E
      BY <1>2, <3>2 DEF Enqueues
    <3>4. E = {l \in Enqueues(LogsIn(w.endHash, w.from, w.end)) :
                 l.ev.addr \in Addresses(w.ctc, Sets(w.logs \cup E))}
      BY <1>3, <1>4, <2>2, <3>2
    <3> HIDE DEF E
    <3>. QED
      BY <1>4, <1>5, <3>1, <3>2, <3>3, <3>4
  <2>. QED
    BY <1>0, <2>1, <2>2 DEF LogsOK
<1> HIDE DEF E
<1>7. ClosedOK'
  <2>1. \A x \in Addr : CtcAfter(x, w.logs) \in Addr
    BY <1>0 DEF IInv, StepInv, ClosedOK
  <2>2. \A x : CtcAfter(x, w.logs \cup E) = CtcAfter(x, w.logs)
    BY <1>4, CtcAfterSets
  <2>. QED
    BY <1>5, <2>1, <2>2 DEF ClosedOK
<1>8. EndOK'
  BY <1>0, <1>5 DEF EndOK, Tracked, Live, Dead, HashAt, IInv, StepInv, Scanning
<1>9. SeedOK' /\ SourceOK'
  BY <1>0, <1>5 DEF IInv, StepInv, SeedOK, SourceOK, Scanning, First
<1>10. StepInv'
  BY <1>0, <1>1, <1>5, <1>6, <1>7, <1>8, <1>9
     DEF StepInv, PageOK, BootPcs, WindowOK, DecodedOK, StageOK,
         Scanning, Checking, Windowed, First
<1>. QED
  BY <1>0, <1>5, <1>10, WindowFrame DEF IInv, CoreInv, TypeOK, Calling

\* A window that continues what the scan started from starts with its CTC.
LEMMA SeedIsBefore ==
  ASSUME IInv, pc = "decode", Seeded(w.endHash)
  PROVE  w.ctc = w.endHash[w.from].in
<1>1. /\ CoreInv /\ w.before = state /\ w.from = From(w.before)
      /\ w.from \in 0..w.end /\ w.end \in Nat /\ w.from \in Nat
  BY InWindow DEF Scanning
<1>2. WellFormed(w.endHash, w.end)
  BY DEF IInv, StepInv, EndOK, Scanning, Tracked
<1>3. w.ctc = IF First /\ Start > 0 THEN boot.ctc ELSE w.before.ctc
  BY DEF IInv, StepInv, SeedOK, Scanning
<1>4. \A k \in 1..w.end : w.endHash[k].in = w.endHash[k - 1].out
  BY <1>1, <1>2 DEF WellFormed
<1>5. CASE First /\ Start = 0
  <2>1. w.from = 0 /\ w.ctc = NoAddr
    BY <1>1, <1>3, <1>5 DEF First, From, CoreInv, StateOK, NoState
  <2>. QED
    BY <1>2, <2>1 DEF WellFormed
<1>6. CASE First /\ Start > 0
  <2>1. /\ boot.ctc = boot.anchor[Start - 1].out
        /\ boot.anchor = Upto(w.endHash, Start - 1)
    BY <1>1, <1>6 DEF IInv, StepInv, SourceOK, Scanning, CoreInv, BootOK, Seeded
  <2>2. Start \in Nat /\ w.from = Start /\ Start \in 1..w.end /\ Start - 1 \in 0..(Start - 1)
    BY <1>1, <1>6, ConfigAssumption DEF From, First
  <2>3. boot.anchor[Start - 1] = w.endHash[Start - 1]
    BY <2>1, <2>2 DEF Upto
  <2>. QED
    BY <1>3, <1>4, <1>6, <2>1, <2>2, <2>3
<1>7. CASE ~First
  <2>1. state.height # Nil /\ state.height \in Nat
    BY <1>1, <1>7, ConfigAssumption DEF First, CoreInv, TypeOK, IsState
  <2>2. state.ctc = state.hash[state.height].out /\ state.hash = Upto(w.endHash, state.height)
    BY <1>1, <1>7, <2>1 DEF CoreInv, StateOK, Seeded
  <2>3. w.from = state.height + 1 /\ w.from \in 1..w.end /\ w.from - 1 = state.height
        /\ state.height \in 0..state.height
    BY <1>1, <2>1 DEF From
  <2>4. state.hash[state.height] = w.endHash[state.height]
    BY <2>2, <2>3 DEF Upto
  <2>. QED
    BY <1>1, <1>3, <1>4, <1>7, <2>2, <2>3, <2>4
<1>. QED
  BY <1>5, <1>6, <1>7, ConfigAssumption

\* decodeLogs leaves what the window's last block says, if that block and the
\* scan's starting point prove to be on one chain.
LEMMA DecodeLogsOK ==
  ASSUME IInv, DecodeLogs
  PROVE  IInv'
<1> DEFINE R == Records(Active(w.ctc, w.logs))
           z == CtcAfter(w.ctc, w.logs)
<1>0. /\ pc = "decode" /\ batch = NoBatch
      /\ w' = [w EXCEPT !.records = R, !.ctc = z, !.logs = {}]
      /\ UNCHANGED <<tip, chain, epoch, db, state, boot, crashes, batch, ready, fatal>>
  BY BatchClosed DEF DecodeLogs, chainVars, storeVars, statusVars
<1>1. /\ First /\ boot.open => pc' = "bootFinal"
      /\ ~(First /\ boot.open) => pc' = "ctcCheck"
  BY DEF DecodeLogs, Goto
<1>2. pc' \in {"bootFinal", "ctcCheck"}
  BY <1>1
<1>3. /\ CoreInv /\ IsWindow(w) /\ w.before = state /\ w.from = From(w.before)
      /\ w.from \in 0..w.end /\ w.end \in 0..MaxHeight /\ w.end <= w.target
      /\ w.from \in Nat /\ w.end \in Nat /\ MaxHeight \in Nat
  BY <1>0, InWindow DEF Scanning
<1>4. R \in SUBSET Rec
  <2>1. \A l \in w.logs : Record(l) \in Rec
    BY <1>3 DEF IsWindow, Log, Event, Record, Rec
  <2>. QED
    BY <2>1 DEF Records, Active, Enqueues
<1>5. z \in Addr
  BY <1>0, <1>3 DEF IInv, StepInv, ClosedOK, IsWindow
<1>6. Live(w.endHash, w.end) /\ Seeded(w.endHash)
        => z = w.endHash[w.end].out /\ R = Deposits(w.endHash, w.from, w.end)
  <2>. SUFFICES ASSUME Live(w.endHash, w.end), Seeded(w.endHash)
                PROVE  z = w.endHash[w.end].out /\ R = Deposits(w.endHash, w.from, w.end)
    OBVIOUS
  <2>1. w.ctc = w.endHash[w.from].in
    BY <1>0, SeedIsBefore
  <2>2. /\ Sets(w.logs) = Sets(LogsIn(w.endHash, w.from, w.end))
        /\ Enqueues(w.logs) =
             {l \in Enqueues(LogsIn(w.endHash, w.from, w.end)) :
                l.ev.addr \in Addresses(w.ctc, Sets(w.logs))}
    BY <1>0 DEF IInv, StepInv, LogsOK
  <2>3. WellFormed(w.endHash, w.end)
    BY <1>0 DEF IInv, StepInv, EndOK, Scanning, Tracked
  <2>. QED
    BY <1>3, <2>1, <2>2, <2>3, DecodeFaithful
<1> HIDE DEF R, z
<1>7. /\ IsWindow(w)' /\ w'.before = w.before /\ w'.from = w.from /\ w'.end = w.end
      /\ w'.target = w.target /\ w'.ctc = z /\ w'.endHash = w.endHash
      /\ w'.records = R
  BY <1>0, <1>3, <1>4, <1>5 DEF IsWindow
<1>8. EndOK' /\ SourceOK'
  BY <1>0, <1>2, <1>7
     DEF EndOK, SourceOK, Tracked, Live, Dead, HashAt, IInv, StepInv, Scanning, First
<1>9. DecodedOK'
  <2>1. (Live(w.endHash, w.end)' => Live(w.endHash, w.end))
        /\ (Seeded(w.endHash)' => Seeded(w.endHash))
    BY <1>0, <1>7 DEF Live, HashAt, Seeded, First
  <2>2. Live(w.endHash, w.end)' /\ Seeded(w.endHash)' => Scanned'
    BY <1>6, <1>7, <2>1 DEF Scanned
  <2>3. pc' = "ctcCheck" /\ First' => Seeded(w.endHash)'
    <3>. SUFFICES ASSUME pc' = "ctcCheck", First'  PROVE Seeded(w.endHash)'
      OBVIOUS
    <3>1. First
      BY <1>7 DEF First
    <3>2. ~(Start > 0)
      BY <1>0, <1>1, <3>1 DEF IInv, StepInv, SourceOK, Scanning
    <3>. QED
      BY <3>2 DEF Seeded
  <2>. QED
    BY <1>2, <2>2, <2>3 DEF DecodedOK
<1>10. PageOK'
  BY <1>0, <1>1, <1>2, <1>7 DEF PageOK, BootPcs, First
<1>11. StepInv'
  BY <1>0, <1>2, <1>3, <1>7, <1>8, <1>9, <1>10
     DEF StepInv, WindowOK, SeedOK, LogsOK, ClosedOK, StageOK,
         Scanning, Checking, Windowed, BootPcs, First
<1>. QED
  BY <1>0, <1>2, <1>7, <1>11, WindowFrame DEF IInv, CoreInv, TypeOK, Calling

------------------------------------------------------------------------------
(* commitWindow. *)

\* An ancestor's ancestor.
LEMMA UptoUpto ==
  ASSUME NEW c, NEW h \in Nat, NEW m \in Int, m <= h
  PROVE  Upto(Upto(c, h), m) = Upto(c, m)
BY DEF Upto

\* A check that holds moves on with the window as it is.
LEMMA CheckFrame ==
  ASSUME IInv, pc \in Checking, pc' \in Checking \ {"bootFinal"},
         UNCHANGED <<tip, chain, epoch, db, state, boot, crashes, batch, ready, fatal, w>>,
         pc' = "checkpointFinal" => ~First, DecodedOK'
  PROVE  IInv'
<1>1. /\ CoreInv /\ IsWindow(w) /\ w.before = state /\ w.from = From(w.before)
      /\ w.from <= w.end /\ w.end <= w.target /\ batch = NoBatch
  BY BatchClosed DEF IInv, CoreInv, TypeOK, StepInv, WindowOK, Windowed, Checking
<1>2. EndOK' /\ SourceOK'
  BY DEF EndOK, SourceOK, Tracked, Live, Dead, HashAt, IInv, StepInv, Checking, First
<1>3. StepInv'
  BY <1>1, <1>2
     DEF StepInv, PageOK, BootPcs, WindowOK, SeedOK, LogsOK, ClosedOK, StageOK,
         Scanning, Checking, Windowed, First
<1>. QED
  BY <1>1, <1>3, WindowFrame DEF IInv, CoreInv, TypeOK, Calling, Checking

\* An anchor that is still on the chain is an ancestor of a live window end.
LEMMA CheckBootFinalOK ==
  ASSUME IInv, CheckBootFinal
  PROVE  IInv'
<1>0. /\ pc = "bootFinal" /\ pc' = "ctcCheck"
      /\ Start - 1 <= tip /\ boot.anchor = Upto(chain, Start - 1)
      /\ UNCHANGED <<tip, chain, epoch, db, state, boot, crashes, batch, ready, fatal, w>>
  BY DEF CheckBootFinal, Goto, Confirms, AnchorHolds, HashAt,
         chainVars, storeVars, statusVars
<1>1. /\ w.from = From(w.before) /\ w.from \in 0..w.end /\ w.end \in Nat
  BY <1>0, InWindow DEF Checking
<1>2. First
  BY <1>0 DEF IInv, StepInv, PageOK, BootPcs
<1>3. Live(w.endHash, w.end) => Seeded(w.endHash)
  <2>. SUFFICES ASSUME Live(w.endHash, w.end) PROVE Seeded(w.endHash)
    OBVIOUS
  <2>1. w.endHash = Upto(chain, w.end) /\ Start - 1 \in Int /\ Start - 1 <= w.end
    BY <1>1, <1>2, ConfigAssumption DEF Live, HashAt, First, From
  <2>. QED
    BY <1>0, <1>1, <1>2, <2>1, UptoUpto DEF Seeded
<1>4. Live(w.endHash, w.end) /\ Seeded(w.endHash) => Scanned
  BY <1>0 DEF IInv, StepInv, DecodedOK
<1>5. DecodedOK'
  BY <1>0, <1>3, <1>4 DEF DecodedOK, Live, HashAt, Seeded, Scanned, First
<1>. QED
  BY <1>0, <1>5, CheckFrame DEF Checking

\* The check for an active CTC changes nothing, or ends the Step.
LEMMA CheckCtcOK ==
  ASSUME IInv, CheckCtc
  PROVE  IInv'
<1>0. /\ pc = "ctcCheck" /\ batch = NoBatch
      /\ UNCHANGED <<tip, chain, epoch, db, state, boot, crashes, batch, ready, fatal>>
  BY BatchClosed DEF CheckCtc, chainVars, storeVars, statusVars
<1>1. CASE w.end = w.target /\ w.ctc = NoAddr
  BY <1>0, <1>1, ReturnOK
     DEF CheckCtc, Return, Goto, Resting, IInv, CoreInv, TypeOK
<1>2. CASE ~(w.end = w.target /\ w.ctc = NoAddr)
  <2>1. pc' = "endCheck" /\ w' = w
    BY <1>2 DEF CheckCtc, Goto
  <2>2. DecodedOK'
    BY <1>0, <2>1 DEF DecodedOK, Live, HashAt, Seeded, Scanned, First, IInv, StepInv
  <2>. QED
    BY <1>0, <2>1, <2>2, CheckFrame DEF Checking
<1>. QED
  BY <1>1, <1>2

\* After a second look at the last block, only the checkpoint can be foreign.
LEMMA CheckEndOK ==
  ASSUME IInv, CheckEnd
  PROVE  IInv'
<1>0. /\ pc = "endCheck"
      /\ w.end <= tip /\ w.endHash = Upto(chain, w.end)
      /\ UNCHANGED <<tip, chain, epoch, db, state, boot, crashes, batch, ready, fatal, w>>
  BY DEF CheckEnd, Confirms, AnchorHolds, HashAt, chainVars, storeVars, statusVars
<1>1. /\ First => pc' = "commit"
      /\ ~First => pc' = "checkpointFinal"
  BY DEF CheckEnd, Goto
<1>2. Live(w.endHash, w.end)
  BY <1>0 DEF Live, HashAt
<1>3. Seeded(w.endHash) => Scanned
  BY <1>0, <1>2 DEF IInv, StepInv, DecodedOK
<1>4. First => Seeded(w.endHash)
  BY <1>0, <1>2 DEF IInv, StepInv, DecodedOK
<1>5. ~First /\ Live(w.before.hash, w.before.height) => Seeded(w.endHash)
  <2>. SUFFICES ASSUME ~First, Live(w.before.hash, w.before.height)
                PROVE  Seeded(w.endHash)
    OBVIOUS
  <2>1. /\ w.from = From(w.before) /\ w.from \in 0..w.end /\ w.end \in Nat
        /\ IsWindow(w)
    BY <1>0, InWindow DEF Checking
  <2>2. w.before.height \in Int /\ w.before.height <= w.end
    <3>1. w.before.height \in -1..MaxHeight
      BY <2>1 DEF IsWindow, IsState
    <3>. QED
      BY <2>1, <3>1, ConfigAssumption, ChainAssumption DEF First, From
  <2>3. w.before.hash = Upto(chain, w.before.height)
    BY DEF Live, HashAt
  <2>. QED
    BY <1>0, <2>1, <2>2, <2>3, UptoUpto DEF Seeded
<1>6. DecodedOK'
  BY <1>0, <1>1, <1>3, <1>4, <1>5 DEF DecodedOK, Live, HashAt, Seeded, Scanned, First
<1>. QED
  BY <1>0, <1>1, <1>6, CheckFrame DEF Checking

\* After a second look at the checkpoint the window is known to continue it.
LEMMA CheckCheckpointFinalOK ==
  ASSUME IInv, CheckCheckpointFinal
  PROVE  IInv'
<1>0. /\ pc = "checkpointFinal" /\ pc' = "commit"
      /\ Live(w.before.hash, w.before.height)
      /\ UNCHANGED <<tip, chain, epoch, db, state, boot, crashes, batch, ready, fatal, w>>
  BY DEF CheckCheckpointFinal, Goto, Confirms, AnchorHolds, Live,
         chainVars, storeVars, statusVars
<1>1. Seeded(w.endHash) /\ Scanned
  BY <1>0 DEF IInv, StepInv, DecodedOK
<1>2. DecodedOK'
  BY <1>0, <1>1 DEF DecodedOK, Seeded, Scanned, First
<1>. QED
  BY <1>0, <1>2, CheckFrame DEF Checking

\* Commit opens a batch over the records the window continues.
LEMMA CommitWindowOK ==
  ASSUME IInv, CommitWindow
  PROVE  IInv'
<1>0. /\ pc = "commit" /\ batch = NoBatch
      /\ UNCHANGED <<tip, chain, epoch, boot, crashes, ready, fatal>>
  BY BatchClosed DEF CommitWindow, chainVars, statusVars
<1>1. CASE ~NotStale(w.before)
  BY <1>0, <1>1, ReturnOK
     DEF CommitWindow, Return, Goto, Resting, storeVars, IInv, CoreInv, TypeOK
<1>2. CASE NotStale(w.before)
  <2>1. /\ pc' = "stage" /\ w' = w /\ UNCHANGED <<db, state>>
        /\ batch' = [open |-> TRUE, db |-> db, latest |-> w.before.latest]
    BY <1>2 DEF CommitWindow, BeginCommit, Goto
  <2>2. /\ CoreInv /\ IsWindow(w) /\ w.before = state /\ w.from = From(w.before)
        /\ w.from \in 0..w.end /\ w.end \in 0..MaxHeight /\ w.end <= w.target
        /\ w.from \in Nat /\ w.end \in Nat /\ MaxHeight \in Nat
    BY <1>0, InWindow DEF Checking
  <2>3. Seeded(w.endHash) /\ Scanned
    BY <1>0 DEF IInv, StepInv, DecodedOK
  <2>4. state.latest \in Nat \cup {-1} /\ Contiguous
    BY <2>2 DEF CoreInv, TypeOK, IsState
  <2>5. /\ batch'.open /\ batch'.db = db /\ batch'.latest = state.latest
        /\ IsBatch(batch)' /\ Stored' = Stored /\ InBatch' = Stored
    BY <2>1, <2>2, <2>4 DEF IsBatch, Stored, InBatch
  <2>6. StageOK'
    <3>1. InBatch' \cup w'.records = Stored' \cup Deposits(w'.endHash, w'.from, w'.end)
      BY <2>1, <2>3, <2>5 DEF Scanned
    <3>2. Seeded(w.endHash)' /\ w'.ctc = w'.endHash[w'.end].out
      BY <1>0, <2>1, <2>3 DEF Seeded, Scanned, First
    <3>3. DOMAIN batch'.db = 0..batch'.latest /\ \A i \in DOMAIN batch'.db : batch'.db[i].idx = i
      BY <2>4, <2>5 DEF Contiguous
    <3>. QED
      BY <2>1, <2>5, <3>1, <3>2, <3>3 DEF StageOK
  <2>7. EndOK' /\ SourceOK'
    BY <1>0, <2>1
       DEF EndOK, SourceOK, Tracked, Live, Dead, HashAt, IInv, StepInv, Checking, First
  <2>8. StepInv'
    BY <1>0, <2>1, <2>2, <2>6, <2>7
       DEF StepInv, PageOK, BootPcs, WindowOK, SeedOK, LogsOK, ClosedOK, DecodedOK,
           Scanning, Checking, Windowed, First
  <2>. QED
    BY <1>0, <2>1, <2>2, <2>5, <2>8, WindowFrame DEF IInv, CoreInv, TypeOK
<1>. QED
  BY <1>1, <1>2

\* Staging a record adds it, under its index, to a batch that has no gap.
LEMMA StageExtends ==
  ASSUME NEW r \in Rec, Stage(r), IsBatch(batch),
         DOMAIN batch.db = 0..batch.latest,
         \A i \in DOMAIN batch.db : batch.db[i].idx = i
  PROVE  /\ batch'.open /\ IsBatch(batch)'
         /\ DOMAIN batch'.db = 0..batch'.latest
         /\ \A i \in DOMAIN batch'.db : batch'.db[i].idx = i
         /\ InBatch' = InBatch \cup {r}
<1>1. CASE Duplicate(batch, r)
  <2>1. batch' = batch /\ batch.open /\ r \in InBatch
    BY <1>1 DEF Stage, Duplicate, InBatch
  <2>. QED
    BY <2>1 DEF InBatch
<1>2. CASE ~Duplicate(batch, r)
  <2>1. /\ batch.open /\ batch' = Staged(batch, r) /\ batch.latest \in Nat \cup {-1}
        /\ r.idx \notin DOMAIN batch.db /\ r.idx = batch.latest + 1 /\ r.idx \in Nat
    BY <1>2 DEF Stage, Accepts, Expected, IsBatch, Rec
  <2> DEFINE D == [i \in DOMAIN batch.db \cup {r.idx} |->
                     IF i = r.idx THEN r ELSE batch.db[i]]
  <2>a. batch' = [batch EXCEPT !.db = D, !.latest = r.idx]
    BY <2>1 DEF Staged
  <2> HIDE DEF D
  <2>c. batch' = [open |-> batch.open, db |-> D, latest |-> r.idx]
    BY <2>a DEF IsBatch
  <2>b. /\ batch'.open /\ batch'.latest = r.idx /\ batch'.db = D
        /\ IsBatch(batch)'
    BY <2>1, <2>c DEF IsBatch
  <2>2. /\ batch'.open /\ batch'.latest = r.idx
        /\ batch'.db = [i \in DOMAIN batch.db \cup {r.idx} |->
                          IF i = r.idx THEN r ELSE batch.db[i]]
        /\ IsBatch(batch)'
    BY <2>b DEF D
  <2>3. DOMAIN batch'.db = DOMAIN batch.db \cup {r.idx}
        /\ DOMAIN batch'.db = 0..batch'.latest
    BY <2>1, <2>2
  <2>4. \A i \in DOMAIN batch'.db : batch'.db[i].idx = i
    BY <2>1, <2>2, <2>3
  <2>5. InBatch' = InBatch \cup {r}
    BY <2>1, <2>2, <2>3 DEF InBatch
  <2>. QED
    BY <2>2, <2>3, <2>4, <2>5
<1>. QED
  BY <1>1, <1>2

\* A staged record moves from the window to the batch.
LEMMA StageRecordOK ==
  ASSUME IInv, StageRecord
  PROVE  IInv'
<1>0. /\ pc = "stage" /\ pc' = "stage"
      /\ UNCHANGED <<tip, chain, epoch, boot, crashes, ready, fatal>>
  BY DEF StageRecord, chainVars, statusVars
<1>1. PICK r \in w.records : Stage(r) /\ w' = [w EXCEPT !.records = w.records \ {r}]
  BY DEF StageRecord
<1>2. /\ CoreInv /\ IsWindow(w) /\ w.before = state /\ w.from = From(w.before)
      /\ w.from \in 0..w.end /\ w.end \in 0..MaxHeight /\ w.end <= w.target
      /\ w.from \in Nat /\ w.end \in Nat /\ MaxHeight \in Nat
  BY <1>0, InWindow
<1>3. r \in Rec /\ UNCHANGED <<db, state>> /\ Stored' = Stored
  BY <1>1, <1>2 DEF IsWindow, Stage, Stored
<1>4. /\ IsWindow(w)' /\ w'.before = w.before /\ w'.from = w.from /\ w'.end = w.end
      /\ w'.target = w.target /\ w'.ctc = w.ctc /\ w'.endHash = w.endHash
      /\ w'.records = w.records \ {r}
  BY <1>1, <1>2 DEF IsWindow
<1>5. /\ IsBatch(batch) /\ DOMAIN batch.db = 0..batch.latest
      /\ \A i \in DOMAIN batch.db : batch.db[i].idx = i
      /\ Seeded(w.endHash) /\ w.ctc = w.endHash[w.end].out
      /\ InBatch \cup w.records = Stored \cup Deposits(w.endHash, w.from, w.end)
  BY <1>0 DEF IInv, CoreInv, TypeOK, StepInv, StageOK
<1>6. /\ batch'.open /\ IsBatch(batch)' /\ DOMAIN batch'.db = 0..batch'.latest
      /\ \A i \in DOMAIN batch'.db : batch'.db[i].idx = i
      /\ InBatch' = InBatch \cup {r}
  BY <1>1, <1>3, <1>5, StageExtends
<1>7. StageOK'
  <2>1. InBatch' \cup w'.records = Stored' \cup Deposits(w'.endHash, w'.from, w'.end)
    BY <1>1, <1>3, <1>4, <1>5, <1>6
  <2>2. Seeded(w.endHash)' /\ w'.ctc = w'.endHash[w'.end].out
    BY <1>0, <1>4, <1>5 DEF Seeded, First
  <2>. QED
    BY <1>0, <1>6, <2>1, <2>2 DEF StageOK
<1>8. EndOK' /\ SourceOK'
  BY <1>0, <1>4
     DEF EndOK, SourceOK, Tracked, Live, Dead, HashAt, IInv, StepInv, First
<1>9. StepInv'
  BY <1>0, <1>2, <1>3, <1>4, <1>7, <1>8
     DEF StepInv, PageOK, BootPcs, WindowOK, SeedOK, LogsOK, ClosedOK, DecodedOK,
         Scanning, Checking, Windowed, First
<1>. QED
  BY <1>0, <1>3, <1>4, <1>6, <1>9, WindowFrame DEF IInv, CoreInv, TypeOK

\* The batch of a window brings the database to the window's last block.
LEMMA ApplyOK ==
  ASSUME IInv, pc = "stage", w.records = {}, Apply(w.end, w.endHash, w.ctc),
         UNCHANGED <<tip, chain, epoch>>
  PROVE  /\ Contiguous' /\ StateOK' /\ IsState(state)'
         /\ batch' = NoBatch /\ db' = batch.db
         /\ state'.height = w.end /\ state'.hash = w.endHash /\ state'.ctc = w.ctc
         /\ w.end \in Nat /\ WellFormed(w.endHash, w.end)
         /\ Stored' = Stored \cup Deposits(w.endHash, w.from, w.end)
         /\ Stored' = Deposits(w.endHash, Start, w.end)
         /\ w.ctc = w.endHash[w.end].out
         /\ ~First => w.before.hash = Upto(w.endHash, w.before.height)
         /\ ~First => w.before.height < w.end
<1>1. /\ CoreInv /\ IsWindow(w) /\ w.before = state /\ w.from = From(w.before)
      /\ w.from \in 0..w.end /\ w.end \in 0..MaxHeight
      /\ w.from \in Nat /\ w.end \in Nat /\ MaxHeight \in Nat
  BY InWindow
<1>2. /\ IsBatch(batch) /\ DOMAIN batch.db = 0..batch.latest
      /\ \A i \in DOMAIN batch.db : batch.db[i].idx = i
      /\ Seeded(w.endHash) /\ w.ctc = w.endHash[w.end].out
      /\ InBatch = Stored \cup Deposits(w.endHash, w.from, w.end)
      /\ Tracked(w.endHash, w.end)
  BY DEF IInv, CoreInv, TypeOK, StepInv, StageOK, EndOK
<1>3. /\ db' = batch.db /\ batch' = NoBatch
      /\ state' = [height |-> w.end, hash |-> w.endHash, ctc |-> w.ctc,
                   latest |-> batch.latest]
  BY DEF Apply
<1>4. Stored' = InBatch
  BY <1>3 DEF Stored, InBatch
<1>5. Contiguous'
  BY <1>2, <1>3 DEF Contiguous
<1>6. batch.latest \in Nat \cup {-1} /\ w.ctc \in Addr /\ IsHash(w.endHash)
  BY <1>1, <1>2 DEF IsBatch, IsWindow
<1>7. /\ state'.height = w.end /\ state'.hash = w.endHash /\ state'.ctc = w.ctc
      /\ IsState(state)'
  BY <1>1, <1>3, <1>6 DEF IsState
<1>8. Start <= w.end /\ Deposits(w.endHash, Start, w.end)
                          = Stored \cup Deposits(w.endHash, w.from, w.end)
  <2>1. CASE First
    BY <1>1, <2>1 DEF First, From, CoreInv, StateOK
  <2>2. CASE ~First
    <3>1. state.height \in Nat /\ w.from = state.height + 1 /\ Start \in Nat
      BY <1>1, <2>2, ConfigAssumption DEF First, From, CoreInv, TypeOK, IsState
    <3>2. /\ Start <= state.height
          /\ Stored = Deposits(state.hash, Start, state.height)
      BY <1>1, <3>1 DEF CoreInv, StateOK
    <3>3. state.hash = Upto(w.endHash, state.height)
      BY <1>1, <1>2, <2>2 DEF Seeded
    <3>4. state.height \in 0..w.end /\ Start \in 0..state.height
      BY <1>1, <3>1, <3>2
    <3>5. Deposits(w.endHash, Start, w.end)
            = Deposits(Upto(w.endHash, state.height), Start, state.height)
              \cup Deposits(w.endHash, state.height + 1, w.end)
      <4> DEFINE c == w.endHash
                 h == w.end
                 m == state.height
      <4>1. h \in Nat /\ m \in 0..h /\ Start \in 0..m
        BY <1>1, <3>4
      <4> HIDE DEF c, h, m
      <4>2. Deposits(c, Start, h) = Deposits(Upto(c, m), Start, m) \cup Deposits(c, m + 1, h)
        BY <4>1, DepositsSplit
      <4>. QED
        BY <4>2 DEF c, h, m
    <3>6. Start <= w.end
      BY <1>1, <3>1, <3>4
    <3>. QED
      BY <3>1, <3>2, <3>3, <3>5, <3>6
  <2>. QED
    BY <2>1, <2>2
<1>10. StateOK'
  BY <1>1, <1>2, <1>4, <1>7, <1>8
     DEF StateOK, Tracked, Live, Dead, HashAt
<1>11. ~First => /\ w.before.hash = Upto(w.endHash, w.before.height)
                 /\ w.before.height < w.end
  BY <1>1, <1>2, ConfigAssumption DEF Seeded, First, From, CoreInv, TypeOK, IsState
<1>. QED
  BY <1>1, <1>2, <1>3, <1>4, <1>5, <1>7, <1>8, <1>10, <1>11 DEF Tracked

\* The batch brings records and checkpoint to the same block.
LEMMA CommitBatchOK ==
  ASSUME IInv, CommitBatch
  PROVE  IInv'
<1>0. /\ pc = "stage" /\ pc' = "publish" /\ w.records = {}
      /\ Apply(w.end, w.endHash, w.ctc)
      /\ UNCHANGED <<tip, chain, epoch, boot, crashes, ready, fatal, w>>
  BY DEF CommitBatch, Goto, chainVars, statusVars
<1>1. /\ Contiguous' /\ StateOK' /\ IsState(state)' /\ batch' = NoBatch
  BY <1>0, ApplyOK
<1>2. CoreInv /\ ChainTypeOK' /\ ChainOK'
  BY <1>0 DEF IInv, CoreInv, TypeOK, ChainTypeOK, ChainOK
<1>3. BootOK' /\ IsBoot(boot)'
  BY <1>0, <1>2, BootFrame
<1>4. TypeOK'
  BY <1>0, <1>1, <1>2, <1>3 DEF CoreInv, TypeOK, IsBatch, NoBatch
<1>5. StepInv'
  BY <1>0, <1>1
     DEF StepInv, PageOK, BootPcs, WindowOK, SeedOK, SourceOK, EndOK, LogsOK,
         ClosedOK, DecodedOK, StageOK, Scanning, Checking, Windowed
<1>. QED
  BY <1>1, <1>2, <1>3, <1>4, <1>5 DEF IInv, CoreInv

\* A failed batch commit leaves the old database or the new one.
LEMMA CommitFailsOK ==
  ASSUME IInv, CommitFails
  PROVE  IInv'
<1>0. /\ pc = "stage" /\ w.records = {} /\ pc' = "halt" /\ w' = NoWindow
      /\ UNCHANGED <<tip, chain, epoch, boot, crashes, ready, fatal>>
  BY DEF CommitFails, Return, Goto, chainVars, statusVars
<1>1. CASE Discard
  BY <1>0, <1>1, ReturnOK DEF Discard, Resting, IInv, CoreInv, TypeOK
<1>2. CASE Apply(w.end, w.endHash, w.ctc)
  <2>1. /\ Contiguous' /\ StateOK' /\ IsState(state)' /\ batch' = NoBatch
    BY <1>0, <1>2, ApplyOK
  <2>2. CoreInv /\ ChainTypeOK' /\ ChainOK'
    BY <1>0 DEF IInv, CoreInv, TypeOK, ChainTypeOK, ChainOK
  <2>3. BootOK' /\ IsBoot(boot)'
    BY <1>0, <2>2, BootFrame
  <2>4. StepInv' /\ IsWindow(w)' /\ IsBatch(batch)'
    BY <1>0, <2>1, RestingOK DEF Resting
  <2>5. TypeOK'
    BY <1>0, <2>1, <2>2, <2>3, <2>4 DEF CoreInv, TypeOK
  <2>. QED
    BY <2>1, <2>2, <2>3, <2>4, <2>5 DEF IInv, CoreInv
<1>. QED
  BY <1>1, <1>2 DEF CommitFails

------------------------------------------------------------------------------
(* Steps that end a Step, Run, and the rest of the system. *)

\* Every way a Step ends, and every move of Run between Steps, forgets the window
\* and leaves the database alone.
LEMMA EndStepOK ==
  ASSUME IInv,
         \/ CaughtUp \/ NothingConfirmed \/ HistoryMismatch \/ AnchorChanged
         \/ CommitRefused \/ RejectRecord \/ Publish
         \/ CallFails \/ BadAnswer \/ Retry \/ Halt \/ Poll
  PROVE  IInv'
<1>0. ready \in BOOLEAN /\ fatal \in BOOLEAN
  BY DEF IInv, CoreInv, TypeOK
<1>1. pc \in Resting => w = NoWindow
  BY DEF IInv, StepInv, WindowOK, Resting
<1>2. ~ RejectRecord => pc # "stage"
  BY DEF CaughtUp, NothingConfirmed, HistoryMismatch, AnchorChanged, CommitRefused,
         Publish, CallFails, BadAnswer, Retry, Halt, Poll, Calling
<1>3. ~ RejectRecord => batch = NoBatch
  BY <1>2, BatchClosed
<1>4. UNCHANGED <<tip, chain, epoch, db, state, boot, crashes>> /\ batch' = NoBatch
  <2>1. CASE RejectRecord
    BY <2>1 DEF RejectRecord, Rejected, Discard, chainVars
  <2>2. CASE ~ RejectRecord
    BY <1>3, <2>2
       DEF CaughtUp, NothingConfirmed, HistoryMismatch, AnchorChanged, CommitRefused,
           Publish, CallFails, BadAnswer, Retry, Halt, Poll, chainVars, storeVars
  <2>. QED
    BY <2>1, <2>2
<1>5. ready' \in BOOLEAN /\ fatal' \in BOOLEAN
  BY <1>0
     DEF CaughtUp, NothingConfirmed, HistoryMismatch, AnchorChanged, CommitRefused,
         RejectRecord, Publish, CallFails, BadAnswer, Retry, Halt, Poll, Set, statusVars
<1>6. pc' \in Resting /\ w' = NoWindow
  BY <1>1
     DEF CaughtUp, NothingConfirmed, HistoryMismatch, AnchorChanged, CommitRefused,
         RejectRecord, Publish, CallFails, BadAnswer, Retry, Halt, Poll, Return, Goto,
         Resting
<1>. QED
  BY <1>4, <1>5, <1>6, ReturnOK

\* A fatal error published elsewhere disturbs nothing of the worker.
LEMMA FatalElsewhereOK ==
  ASSUME IInv, FatalElsewhere
  PROVE  IInv'
<1>0. /\ UNCHANGED <<tip, chain, epoch, db, state, batch, pc, w, boot, crashes>>
      /\ ready' = FALSE /\ fatal' = TRUE
  BY DEF FatalElsewhere, Set, chainVars, storeVars, IInv, CoreInv, TypeOK
<1>1. CoreInv
  BY DEF IInv
<1>2. ChainTypeOK' /\ ChainOK' /\ Contiguous' /\ StateOK' /\ IsState(state)' /\ Stored' = Stored
  BY <1>0, <1>1, StoreFrame
<1>3. BootOK' /\ IsBoot(boot)'
  BY <1>0, <1>1, BootFrame
<1>4. TypeOK'
  BY <1>0, <1>1, <1>2, <1>3 DEF CoreInv, TypeOK
<1>5. PageOK' /\ WindowOK' /\ SeedOK' /\ SourceOK' /\ ClosedOK'
  BY <1>0 DEF IInv, StepInv, PageOK, WindowOK, SeedOK, SourceOK, ClosedOK,
              First, Live, HashAt
<1>6. EndOK' /\ LogsOK' /\ DecodedOK'
  BY <1>0 DEF IInv, StepInv, EndOK, LogsOK, DecodedOK, Tracked, Live, Dead, HashAt,
              Seeded, Scanned, First
<1>7. StageOK'
  BY <1>0, <1>2 DEF IInv, StepInv, StageOK, Seeded, First, InBatch
<1>. QED
  BY <1>2, <1>3, <1>4, <1>5, <1>6, <1>7 DEF IInv, CoreInv, StepInv

\* A restart finds the database as it was and nothing else.
LEMMA RestartOK ==
  ASSUME IInv, Restart
  PROVE  IInv'
<1>0. /\ UNCHANGED <<tip, chain, epoch, db, state>> /\ batch' = NoBatch /\ pc' = "idle"
      /\ w' = NoWindow /\ boot' = NoBoot /\ ready' = FALSE /\ fatal' = FALSE
      /\ crashes' = crashes + 1 /\ crashes < MaxCrashes
  BY DEF Restart, Goto, Discard, chainVars
<1>1. ChainTypeOK' /\ ChainOK' /\ Contiguous' /\ StateOK' /\ IsState(state)'
  BY <1>0, StoreFrame DEF IInv
<1>2. BootOK' /\ IsBoot(boot)'
  BY <1>0, ChainAssumption DEF NoBoot, BootOK, IsBoot, IsHash
<1>3. StepInv' /\ IsWindow(w)' /\ IsBatch(batch)'
  BY <1>0, RestingOK DEF Resting
<1>4. crashes' \in 0..MaxCrashes
  BY <1>0, ConfigAssumption DEF IInv, CoreInv, TypeOK
<1>5. TypeOK'
  BY <1>0, <1>1, <1>2, <1>3, <1>4 DEF TypeOK
<1>. QED
  BY <1>1, <1>2, <1>3, <1>5 DEF IInv, CoreInv

\* Whatever the chain does, what the worker remembers stays true of it.
LEMMA ChainOKStep ==
  ASSUME IInv, Chain
  PROVE  IInv'
<1>0. ChainNext /\ UNCHANGED <<db, state, batch, ready, fatal, pc, w, boot, crashes>>
  BY DEF Chain, storeVars, statusVars
<1>1. CoreInv /\ ChainTypeOK /\ ChainOK /\ ChainTypeOK' /\ ChainOK'
  BY <1>0, ChainStepOK DEF IInv, CoreInv, TypeOK
<1>2. ASSUME NEW c, NEW h, Tracked(c, h)
      PROVE  /\ Tracked(c, h)'
             /\ Live(c, h)' => Live(c, h)
  BY <1>0, <1>1, <1>2, TrackedStep
<1>3. state.height # Nil =>
        /\ Tracked(state.hash, state.height)'
        /\ Live(state.hash, state.height)' => Live(state.hash, state.height)
  BY <1>0, <1>1, <1>2 DEF CoreInv, StateOK, Tracked, Live, Dead, HashAt
<1>4. boot.open =>
        /\ Tracked(boot.anchor, Start - 1)'
        /\ Live(boot.anchor, Start - 1)' => Live(boot.anchor, Start - 1)
  BY <1>0, <1>1, <1>2 DEF CoreInv, BootOK, Tracked, Live, Dead, HashAt
<1>5. pc \in (Scanning \ {"anchor"}) \cup Checking \cup {"stage"} =>
        /\ Tracked(w.endHash, w.end)'
        /\ Live(w.endHash, w.end)' => Live(w.endHash, w.end)
  BY <1>0, <1>2 DEF IInv, StepInv, EndOK, Tracked, Live, Dead, HashAt
<1>6. Stored' = Stored /\ Contiguous' /\ IsState(state)' /\ IsBoot(boot)'
  BY <1>0, <1>1 DEF CoreInv, TypeOK, Stored, Contiguous
<1>7. StateOK' /\ BootOK'
  BY <1>0, <1>1, <1>3, <1>4, <1>6 DEF CoreInv, StateOK, BootOK
<1>8. TypeOK'
  BY <1>0, <1>1, <1>6 DEF CoreInv, TypeOK
<1>9. WindowOK' /\ SeedOK' /\ SourceOK' /\ ClosedOK' /\ EndOK'
  BY <1>0, <1>5 DEF IInv, StepInv, WindowOK, SeedOK, SourceOK, ClosedOK, EndOK, First
<1>10. PageOK'
  BY <1>0, <1>4 DEF IInv, StepInv, PageOK, First, BootPcs
<1>11. LogsOK'
  BY <1>0, <1>5 DEF IInv, StepInv, LogsOK, Scanning
<1>12. DecodedOK'
  <2>2. Seeded(w.endHash)' <=> Seeded(w.endHash)
    BY <1>0 DEF Seeded, First
  <2>3. (Scanned' <=> Scanned) /\ (First' <=> First)
    BY <1>0 DEF Scanned, First
  <2>4. pc = "checkpointFinal" =>
          (Live(w.before.hash, w.before.height)' => Live(w.before.hash, w.before.height))
    <3>1. pc = "checkpointFinal" => w.before = state /\ state.height # Nil
      BY DEF IInv, StepInv, WindowOK, First, Windowed, Checking
    <3>. QED
      BY <1>0, <1>3, <3>1
  <2>. QED
    BY <1>0, <1>5, <2>2, <2>3, <2>4 DEF IInv, StepInv, DecodedOK, Checking
<1>13. StageOK'
  BY <1>0, <1>6 DEF IInv, StepInv, StageOK, Seeded, First, InBatch
<1>. QED
  BY <1>1, <1>6, <1>7, <1>8, <1>9, <1>10, <1>11, <1>12, <1>13 DEF IInv, CoreInv, StepInv

------------------------------------------------------------------------------
(* The theorems. *)

\* An empty database and a fresh worker satisfy the invariant.
LEMMA InitOK ==
  ASSUME Init
  PROVE  IInv
<1>1. ChainTypeOK /\ ChainOK
  BY ChainInitOK DEF Init
<1>2. /\ db = [i \in {} |-> <<>>] /\ state = NoState(NoAddr) /\ batch = NoBatch
      /\ ready = FALSE /\ fatal = FALSE /\ pc = "idle" /\ w = NoWindow
      /\ boot = NoBoot /\ crashes = 0
  BY DEF Init, StoreInit, StatusInit
<1>3. IsState(state) /\ IsWindow(w) /\ IsBatch(batch) /\ IsBoot(boot)
  BY <1>2, ChainAssumption
     DEF IsState, IsWindow, IsBatch, IsBoot, IsHash, NoState, NoWindow, NoBatch,
         NoBoot, NoPage
<1>4. TypeOK
  <2>1. crashes \in 0..MaxCrashes
    BY <1>2, ConfigAssumption
  <2>2. ready \in BOOLEAN /\ fatal \in BOOLEAN
    BY <1>2
  <2>3. pc \in Calling \cup {"idle", "plan", "decode", "ctcCheck", "commit", "stage",
                          "publish", "retry", "halt", "wait", "stopped"}
    BY <1>2
  <2>. QED
    BY <1>1, <1>3, <2>1, <2>2, <2>3 DEF TypeOK
<1>5. DOMAIN db = {} /\ Stored = {}
  BY <1>2 DEF Stored
<1>6. Contiguous /\ StateOK /\ BootOK
  BY <1>2, <1>5 DEF Contiguous, StateOK, BootOK, NoState, NoBoot
<1>7. StepInv
  BY <1>2
     DEF StepInv, PageOK, BootPcs, WindowOK, SeedOK, SourceOK, EndOK, LogsOK,
         ClosedOK, DecodedOK, StageOK, Scanning, Checking, Windowed
<1>. QED
  BY <1>1, <1>4, <1>6, <1>7 DEF IInv, CoreInv

\* Every step of the worker, of the chain and of the rest of the system keeps it.
LEMMA NextOK ==
  ASSUME IInv, [Next]_vars
  PROVE  IInv'
<1>1. CASE Chain
  BY <1>1, ChainOKStep
<1>2. CASE Prepare
  BY <1>2, StartStepOK, CheckCheckpointOK, ReadTipOK, OpenWindowOK, EndStepOK DEF Prepare
<1>3. CASE Bootstrap
  BY <1>3, ReadBootAnchorOK, CheckBootstrapOK, LoadBootPageOK, NextPageOK, BootReadyOK
     DEF Bootstrap
<1>4. CASE Scan
  BY <1>4, AnchorWindowOK, LoadChangesOK, LoadEnqueuesOK, DecodeLogsOK, EndStepOK
     DEF Scan
<1>5. CASE Commit
  BY <1>5, CheckBootFinalOK, CheckCtcOK, CheckEndOK, CheckCheckpointFinalOK,
     CommitWindowOK, StageRecordOK, CommitBatchOK, EndStepOK DEF Commit
<1>6. CASE AnchorChanged \/ Retry \/ Halt \/ Poll
  BY <1>6, EndStepOK
<1>7. CASE Faults
  BY <1>7, CommitFailsOK, FatalElsewhereOK, RestartOK, EndStepOK DEF Faults
<1>8. CASE UNCHANGED vars
  <2>1. /\ UNCHANGED <<tip, chain, epoch, db, state, batch, ready, fatal, pc, w, boot, crashes>>
    BY <1>8 DEF vars
  <2>2. CoreInv /\ ChainTypeOK' /\ ChainOK' /\ Contiguous' /\ StateOK' /\ Stored' = Stored
    BY <2>1, StoreFrame DEF IInv
  <2>3. BootOK'
    BY <2>1, <2>2, BootFrame
  <2>4. TypeOK'
    BY <2>1, <2>2 DEF CoreInv, TypeOK
  <2>5. PageOK' /\ WindowOK' /\ SeedOK' /\ SourceOK' /\ ClosedOK'
    BY <2>1 DEF IInv, StepInv, PageOK, WindowOK, SeedOK, SourceOK, ClosedOK,
                First, Live, HashAt
  <2>6. EndOK' /\ LogsOK' /\ DecodedOK'
    BY <2>1 DEF IInv, StepInv, EndOK, LogsOK, DecodedOK, Tracked, Live, Dead, HashAt,
                Seeded, Scanned, First
  <2>7. StageOK'
    BY <2>1, <2>2 DEF IInv, StepInv, StageOK, Seeded, First, InBatch
  <2>. QED
    BY <2>2, <2>3, <2>4, <2>5, <2>6, <2>7 DEF IInv, CoreInv, StepInv
<1>. QED
  BY <1>1, <1>2, <1>3, <1>4, <1>5, <1>6, <1>7, <1>8 DEF Next, Worker, Stopped

\* The invariant holds in every reachable state of the deposit worker.
THEOREM Invariance == Spec => []IInv
<1>1. Init => IInv
  BY InitOK
<1>2. IInv /\ [Next]_vars => IInv'
  BY NextOK
<1>. QED
  BY <1>1, <1>2, PTL DEF Spec

\* Every variable of the deposit worker always has its type.
THEOREM TypeCorrect == Spec => []TypeOK
<1>1. IInv => TypeOK
  BY DEF IInv, CoreInv
<1>. QED
  BY <1>1, Invariance, PTL

\* Whatever the chain, the node, the other parts of the service and restarts do
\* between the calls of a Step, the database holds exactly the deposits of the
\* committed block's ancestry, and its CTC.
THEOREM Faithful == Spec => []CommittedFaithful
<1>1. IInv => CommittedFaithful
  BY DEF IInv, CoreInv, StateOK, Tracked, WellFormed, CommittedFaithful
<1>. QED
  BY <1>1, Invariance, PTL

\* The stored queue never has a gap: Commit accepts only the next index.
THEOREM NoGap == Spec => []Contiguous
<1>1. IInv => Contiguous
  BY DEF IInv, CoreInv
<1>. QED
  BY <1>1, Invariance, PTL

------------------------------------------------------------------------------
(* Status: readiness and the fatal error. *)

\* What readiness and the commit lock need beside IInv.
StatusInv ==
  /\ ReadyIsHonest
  /\ pc = "stage" => ~fatal
  /\ pc = "publish" => state.height # Nil

\* Readiness is only published with a checkpoint and without a fatal error, and a
\* commit in progress excludes one.
LEMMA StatusStep ==
  ASSUME IInv, StatusInv, [Next]_vars
  PROVE  StatusInv'
<1>0. /\ ready \in BOOLEAN /\ fatal \in BOOLEAN
      /\ pc = "plan" => w.before = state
  BY DEF IInv, CoreInv, TypeOK, StepInv, WindowOK
<1>1. CASE Chain
  BY <1>1 DEF Chain, storeVars, statusVars, StatusInv, ReadyIsHonest
<1>2. CASE Prepare
  <2>1. CASE StartStep \/ CheckCheckpoint \/ ReadTip \/ NothingConfirmed
    BY <1>0, <2>1
       DEF StartStep, CheckCheckpoint, ReadTip, NothingConfirmed, Return, Goto,
           storeVars, statusVars, StatusInv, ReadyIsHonest
  <2>2. CASE CaughtUp
    BY <1>0, <2>2
       DEF CaughtUp, Set, First, Return, Goto, storeVars, StatusInv, ReadyIsHonest
  <2>3. CASE OpenWindow
    <3>1. ready' = FALSE /\ pc' \in {"anchor", "bootCheck", "bootAnchor"}
      BY <1>0, <2>3, ConfigAssumption DEF OpenWindow, Set, Goto, IInv, CoreInv, TypeOK, IsBoot
    <3>. QED
      BY <3>1 DEF StatusInv, ReadyIsHonest
  <2>. QED
    BY <1>2, <2>1, <2>2, <2>3 DEF Prepare
<1>3. CASE Bootstrap
  BY <1>3
     DEF Bootstrap, ReadBootAnchor, CheckBootstrap, LoadBootPage, NextPage, BootReady,
         Return, Goto, storeVars, statusVars, StatusInv, ReadyIsHonest
<1>4. CASE Scan
  BY <1>4
     DEF Scan, AnchorWindow, LoadChanges, LoadEnqueues, DecodeLogs, HistoryMismatch,
         Return, Goto, storeVars, statusVars, StatusInv, ReadyIsHonest
<1>5. CASE Commit
  <2>1. CASE CheckBootFinal \/ CheckCtc \/ CheckEnd \/ CheckCheckpointFinal
    BY <2>1
       DEF CheckBootFinal, CheckCtc, CheckEnd, CheckCheckpointFinal,
           Return, Goto, storeVars, statusVars, StatusInv, ReadyIsHonest
  <2>2. CASE CommitWindow
    BY <1>0, <2>2
       DEF CommitWindow, Healthy, BeginCommit, Return, Goto, storeVars, statusVars,
           StatusInv, ReadyIsHonest
  <2>3. CASE StageRecord \/ RejectRecord
    BY <2>3
       DEF StageRecord, RejectRecord, Rejected, Discard, Stage, Return, Goto, statusVars,
           StatusInv, ReadyIsHonest
  <2>4. CASE CommitBatch
    <3>1. pc = "stage" /\ state'.height = w.end /\ pc' = "publish" /\ UNCHANGED statusVars
      BY <2>4 DEF CommitBatch, Apply, Goto
    <3>2. w.end \in Nat
      BY <3>1, InWindow
    <3>. QED
      BY <1>0, <3>1, <3>2 DEF StatusInv, ReadyIsHonest, statusVars
  <2>5. CASE Publish
    BY <1>0, <2>5 DEF Publish, Set, Return, Goto, storeVars, StatusInv, ReadyIsHonest
  <2>. QED
    BY <1>5, <2>1, <2>2, <2>3, <2>4, <2>5 DEF Commit
<1>6. CASE AnchorChanged \/ Retry \/ Halt \/ Poll
  BY <1>0, <1>6
     DEF AnchorChanged, Retry, Halt, Poll, Set, Return, Goto, storeVars, statusVars,
         StatusInv, ReadyIsHonest
<1>7. CASE Faults
  <2>1. CASE CommitRefused \/ CallFails \/ BadAnswer
    BY <1>0, <2>1
       DEF CommitRefused, CallFails, BadAnswer, Return, Goto, storeVars, statusVars,
           StatusInv, ReadyIsHonest
  <2>2. CASE CommitFails \/ Restart
    <3>1. ready' = FALSE /\ pc' \in {"halt", "idle"}
      BY <1>0, <2>2
         DEF CommitFails, Restart, Return, Goto, statusVars, StatusInv, ReadyIsHonest
    <3>. QED
      BY <3>1 DEF StatusInv, ReadyIsHonest
  <2>3. CASE FatalElsewhere
    BY <1>0, <2>3 DEF FatalElsewhere, Set, storeVars, StatusInv, ReadyIsHonest
  <2>. QED
    BY <1>7, <2>1, <2>2, <2>3 DEF Faults
<1>8. CASE UNCHANGED vars
  BY <1>8 DEF vars, StatusInv, ReadyIsHonest
<1>. QED
  BY <1>1, <1>2, <1>3, <1>4, <1>5, <1>6, <1>7, <1>8 DEF Next, Worker, Stopped

\* The status invariant holds in every reachable state.
LEMMA StatusInvariance == Spec => []StatusInv
<1>1. Init => StatusInv
  BY DEF Init, StatusInit, StatusInv, ReadyIsHonest
<1>2. IInv /\ StatusInv /\ [Next]_vars => StatusInv'
  BY StatusStep
<1>. QED
  BY <1>1, <1>2, Invariance, PTL DEF Spec

\* Readiness is never reported without a checkpoint, after a fatal error, or while
\* a window is being scanned or committed.
THEOREM HonestReadiness == Spec => []ReadyIsHonest
<1>1. StatusInv => ReadyIsHonest
  BY DEF StatusInv
<1>. QED
  BY <1>1, StatusInvariance, PTL

\* Only a commit writes the database.
LEMMA OnlyCommitWrites ==
  ASSUME IInv, [Next]_vars, ~(CommitBatch \/ CommitFails)
  PROVE  UNCHANGED <<db, state>>
<1>1. CASE Chain
  BY <1>1 DEF Chain, storeVars
<1>2. CASE Prepare
  BY <1>2 DEF Prepare, StartStep, CheckCheckpoint, ReadTip, CaughtUp, NothingConfirmed,
              OpenWindow, storeVars
<1>3. CASE Bootstrap
  BY <1>3 DEF Bootstrap, ReadBootAnchor, CheckBootstrap, LoadBootPage, NextPage,
              BootReady, storeVars
<1>4. CASE Scan
  BY <1>4 DEF Scan, AnchorWindow, LoadChanges, LoadEnqueues, DecodeLogs,
              HistoryMismatch, storeVars
<1>5. CASE Commit
  BY <1>5 DEF Commit, CheckBootFinal, CheckCtc, CheckEnd, CheckCheckpointFinal,
              CommitWindow, BeginCommit, StageRecord, Stage, RejectRecord, Rejected,
              Discard, Publish, storeVars
<1>6. CASE AnchorChanged \/ Retry \/ Halt \/ Poll
  BY <1>6 DEF AnchorChanged, Retry, Halt, Poll, storeVars
<1>7. CASE Faults
  BY <1>7 DEF Faults, CommitRefused, CallFails, BadAnswer, FatalElsewhere, Restart,
              Discard, storeVars
<1>8. CASE UNCHANGED vars
  BY <1>8 DEF vars
<1>. QED
  BY <1>1, <1>2, <1>3, <1>4, <1>5, <1>6, <1>7, <1>8 DEF Next, Worker, Stopped

\* After a fatal error anywhere in the service, no step changes the database, not
\* even the commit of a scan that was finished before.
THEOREM FatalFreezes == Spec => NoCommitAfterFatal
<1>1. IInv /\ StatusInv /\ [Next]_vars => [fatal => UNCHANGED <<db, state>>]_vars
  <2>. SUFFICES ASSUME IInv, StatusInv, [Next]_vars, fatal
                PROVE  UNCHANGED <<db, state>>
    OBVIOUS
  <2>1. ~(CommitBatch \/ CommitFails)
    BY DEF CommitBatch, CommitFails, StatusInv
  <2>. QED
    BY <2>1, OnlyCommitWrites
<1>. QED
  BY <1>1, Invariance, StatusInvariance, PTL DEF Spec, NoCommitAfterFatal

------------------------------------------------------------------------------
(* Refinement. *)

\* A commit moves the index to a descendant and to that block's deposits.
LEMMA ApplyAdvances ==
  ASSUME IInv, pc = "stage", w.records = {}, Apply(w.end, w.endHash, w.ctc),
         UNCHANGED <<tip, chain, epoch>>
  PROVE  Index!Advance
<1>1. /\ state'.height = w.end /\ state'.hash = w.endHash /\ state'.ctc = w.ctc
      /\ w.end \in Nat /\ WellFormed(w.endHash, w.end)
      /\ Stored' = Deposits(w.endHash, Start, w.end)
      /\ w.ctc = w.endHash[w.end].out
      /\ ~First => w.before.hash = Upto(w.endHash, w.before.height)
      /\ ~First => w.before.height < w.end
  BY ApplyOK
<1>2. w.before = state
  BY InWindow
<1>3. state.height \in Int /\ (state.height >= 0 => ~First) /\ (First => state.height = -1)
  BY <1>2, ChainAssumption DEF IInv, CoreInv, TypeOK, IsState, First
<1>4. DOMAIN w.endHash = 0..w.end
  BY <1>1 DEF WellFormed
<1>5. /\ Index!Upto(w.endHash, state.height) = Upto(w.endHash, state.height)
      /\ Index!Deposits(w.endHash, Start, w.end) = Deposits(w.endHash, Start, w.end)
  BY DEF Index!Upto, Index!Deposits, Index!Records, Index!Record, Index!Active,
         Index!Enqueues, Index!CtcAt, Index!CtcAfter, Index!Sets, Index!Last,
         Index!Precedes, Upto, Deposits, Records, Record, Active, Enqueues, CtcAt,
         CtcAfter, Sets, Last, Precedes
<1>6. state'.height > state.height
  BY <1>1, <1>2, <1>3
<1>. QED
  BY <1>1, <1>2, <1>3, <1>4, <1>5, <1>6 DEF Index!Advance

\* The worker implements DepositIndex: the committed index starts empty and only
\* ever moves from a block to one of its descendants, with all of its deposits.
THEOREM Implements == Spec => FollowsOneChain
<1>1. Init => Index!Init
  BY DEF Init, StoreInit, NoState, Index!Init, Stored
<1>2. IInv /\ [Next]_vars => [Index!Advance]_(Index!vars)
  <2>. SUFFICES ASSUME IInv, [Next]_vars
                PROVE  Index!Advance \/ UNCHANGED Index!vars
    BY DEF Index!vars
  <2>1. CASE CommitBatch
    BY <2>1, ApplyAdvances DEF CommitBatch, chainVars
  <2>2. CASE CommitFails
    <3>1. CASE Apply(w.end, w.endHash, w.ctc)
      BY <2>2, <3>1, ApplyAdvances DEF CommitFails, chainVars
    <3>2. CASE Discard
      BY <3>2 DEF Discard, Index!vars, Stored
    <3>. QED
      BY <2>2, <3>1, <3>2 DEF CommitFails
  <2>3. CASE ~(CommitBatch \/ CommitFails)
    <3>1. UNCHANGED <<db, state>>
      BY <2>3, OnlyCommitWrites
    <3>. QED
      BY <3>1 DEF Index!vars, Stored
  <2>. QED
    BY <2>1, <2>2, <2>3
<1>. QED
  BY <1>1, <1>2, Invariance, PTL DEF Spec, FollowsOneChain, Index!Spec

------------------------------------------------------------------------------
(* What readers of the store see. *)

\* A commit keeps every record that was stored: the batch holds all of them, and
\* the index of a record is its key.
LEMMA ApplyKeeps ==
  ASSUME IInv, pc = "stage", w.records = {}, Apply(w.end, w.endHash, w.ctc)
  PROVE  /\ \A i \in DOMAIN db : i \in DOMAIN db' /\ db'[i] = db[i]
         /\ DOMAIN db' = 0..state'.latest
<1>1. /\ DOMAIN batch.db = 0..batch.latest
      /\ \A i \in DOMAIN batch.db : batch.db[i].idx = i
      /\ InBatch \cup w.records = Stored \cup Deposits(w.endHash, w.from, w.end)
  BY DEF IInv, StepInv, StageOK
<1>2. \A i \in DOMAIN db : db[i].idx = i
  BY DEF IInv, CoreInv, Contiguous
<1>3. db' = batch.db /\ state'.latest = batch.latest
  BY DEF Apply
<1>4. ASSUME NEW i \in DOMAIN db
      PROVE  i \in DOMAIN batch.db /\ batch.db[i] = db[i]
  <2>1. db[i] \in InBatch
    BY <1>1 DEF Stored
  <2>2. PICK j \in DOMAIN batch.db : batch.db[j] = db[i]
    BY <2>1 DEF InBatch
  <2>3. j = i
    BY <1>1, <1>2, <2>2
  <2>. QED
    BY <2>2, <2>3
<1>. QED
  BY <1>1, <1>3, <1>4

\* No step of any part of the service removes or changes a stored record.
LEMMA RecordsKept ==
  ASSUME IInv, [Next]_vars
  PROVE  /\ \A i \in DOMAIN db : i \in DOMAIN db' /\ db'[i] = db[i]
         /\ DOMAIN db' = 0..state'.latest
<1>0. DOMAIN db = 0..state.latest
  BY DEF IInv, CoreInv, Contiguous
<1>1. CASE UNCHANGED <<db, state>>
  BY <1>0, <1>1
<1>2. CASE CommitBatch
  BY <1>2, ApplyKeeps DEF CommitBatch
<1>3. CASE CommitFails
  <2>1. CASE Apply(w.end, w.endHash, w.ctc)
    BY <1>3, <2>1, ApplyKeeps DEF CommitFails
  <2>2. CASE Discard
    BY <1>1, <2>2 DEF Discard
  <2>. QED
    BY <1>3, <2>1, <2>2 DEF CommitFails
<1>. QED
  BY <1>1, <1>2, <1>3, OnlyCommitWrites

\* An answered deposit never changes, the latest index never goes back, and no
\* read meets a hole, whatever the chain, the node and restarts do.
THEOREM AnswersStable == Spec => StableDeposits
<1>. DEFINE Stable ==
       /\ \A i \in 0..MaxIndex :
            /\ ReadEnqueue(i) # Missing
            /\ ReadEnqueue(i) # NoEnqueue => ReadEnqueue(i)' = ReadEnqueue(i)
       /\ state.latest <= state'.latest
<1>1. IInv /\ IInv' /\ [Next]_vars => [Stable]_vars
  <2>. SUFFICES ASSUME IInv, IInv', [Next]_vars
                PROVE  Stable
    OBVIOUS
  <2>1. /\ DOMAIN db = 0..state.latest
        /\ \A i \in DOMAIN db : db[i].idx = i
        /\ state.latest \in Int /\ state.latest >= Nil
    BY DEF IInv, CoreInv, Contiguous, TypeOK, IsState, Nil
  <2>2. state'.latest \in Int /\ state'.latest >= Nil
    BY DEF IInv, CoreInv, TypeOK, IsState, Nil
  <2>3. /\ \A i \in DOMAIN db : i \in DOMAIN db' /\ db'[i] = db[i]
        /\ DOMAIN db' = 0..state'.latest
    BY RecordsKept
  <2>4. state.latest <= state'.latest
    BY <2>1, <2>2, <2>3 DEF Nil
  <2>5. ASSUME NEW i \in 0..MaxIndex
        PROVE  /\ ReadEnqueue(i) # Missing
               /\ ReadEnqueue(i) # NoEnqueue => ReadEnqueue(i)' = ReadEnqueue(i)
    <3>1. i \in Nat /\ i # Nil
      BY MaxIndexAssumption DEF Nil
    <3>2. ReadEnqueue(i) = IF i \in DOMAIN db THEN db[i] ELSE NoEnqueue
      BY <2>1, <3>1 DEF ReadEnqueue
    <3>3. i \in DOMAIN db => ReadEnqueue(i)' = db[i]
      BY <2>3, <3>1 DEF ReadEnqueue
    <3>4. NoEnqueue.idx = -1 /\ Missing.idx = -2
      BY DEF NoEnqueue, Missing, Nil
    <3>5. i \in DOMAIN db => db[i] # Missing
      BY <2>1, <3>1, <3>4
    <3>. QED
      BY <3>2, <3>3, <3>4, <3>5
  <2>. QED
    BY <2>4, <2>5
<1>. QED
  BY <1>1, Invariance, PTL DEF Spec, StableDeposits
==============================================================================
