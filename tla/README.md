# Verification of metis-l1dtl

metis-l1dtl follows an L1 chain and serves, over HTTP, the deposits that the
CanonicalTransactionChain (CTC) contract has queued and, optionally, the L2
blocks that a sequencer has published in Blobs. This directory models its two
ingestion workers, the store they write, the status they share, the decoders and
the Beacon client behind the Blob worker, the HTTP server and the process around
them. It checks the models with TLC on small instances, and proves the safety
properties of every component with TLAPS for every value of the constants; only
liveness is left to TLC (section 4).

## 1. The system

| part | source | state | operations |
|---|---|---|---|
| deposit worker | `internal/ingest` (`ingest.go`, `syncer_step.go`, `bootstrap.go`) | position in `Run`/`Step`, the window being scanned, the in-memory CTC search | `Step`: check checkpoint, read tip, search the CTC backwards page by page, read two log queries, decode, recheck anchors, commit, publish readiness |
| log decoding | `ingest/decode.go`, `abi.go` | none | `Decode`, `validateLog` |
| status | `ingest/status.go` | `ready`, `blobReady`, first fatal error | `Set`, `SetBlobReady`, `Snapshot`, `commitIfHealthy` |
| deposit store | `store/store.go`, `commit.go`, `read.go` | records by queue index, checkpoint (height, hash, CTC, latest index), lock | `Open`, `Commit`, `Get`, `State`, `Close` |
| store identity | `store/identity.go` | identity of the owning configuration | `initIdentity` |
| Blob store | `store/blob.go` | source transactions, channels, L2 blocks, index, expiry keys, Blob checkpoint | `InitBlob`, `CommitBlob` (with pruning), `GetBlock` |
| Blob worker | `blobingest/syncer.go`, `scan.go` | position, locals of the Step | `Step`: `prepare` with the retention commit, `scan`, commit |
| sender authorisation | `blobingest/auth.go` | manager, sender schedules, backfill pages | `authLogs`, `backfillManager`, `apply` |
| channel decoding | `blob/frames.go` | frames, end and size of a channel being collected | `DecodeChannels`, `add`, `decodeReadyChannel` |
| span batches | `blob/span.go` | the fields of a span, four cursors | `decodeSpan`, `readTransactions`, `deriveBlocks` |
| Beacon client | `blob/beacon.go` | slot clock, read once | `Slot`, `Frames` |
| HTTP server | `internal/server` | none | guarded reads; a failing read publishes a fatal error |
| process | `cmd/metis-l1dtl` | none | validate the node, open the database under its identities, start both workers and the server, shut down |

Both workers run concurrently in one process. They share the database (one lock;
each writes its own namespace in atomic batches) and the status. Either worker,
or an HTTP read that meets corrupt data, may publish the first fatal error; from
then on `commitIfHealthy` lets nobody commit until the process is restarted.
Everything else a worker depends on is remote: an L1 node whose chain may
reorganise between any two calls, and a Beacon service that may fail or have
pruned a Blob.

What is hard here, and what the properties are for, is listed with source lines
under `hazards` in `PROJECT.json`: reorganisations between the calls of one Step,
a halt that races a commit, commits whose outcome is unknown, restarts that lose
the in-memory search, retention that must go on while the Beacon service is down,
channels whose sources have different ages, sender history that is read in pages
and after the fact, two locks that are taken inside one another, and a database
that is opened by the wrong configuration or after a crash at the wrong moment.

## 2. Modules

| module | role |
|---|---|
| `CtcHistory` | order of logs, CTC history, which deposits count: pure operators |
| `L1Chain` | the L1 chain for the deposit worker (external) |
| `Status` | `ready`, `fatal`, `Set`, the commit barrier |
| `DepositStore` | `Store.Commit` on a staged batch, `readEnqueue` |
| `DepositSync` | the deposit worker, composing the four above; its properties |
| `DepositIndex` | abstract specification of the deposit index |
| `DepositInvariant` | the inductive invariant `IInv` |
| `L1ChainProofs`, `DepositSyncProofs` | theorems about the chain and the deposit worker |
| `InboxChain` | L1 blocks with Blob transactions and Inbox submissions (external) |
| `BlobStore` | `CommitBlob`, pruning and `GetBlock` |
| `BlobSync` | the Blob worker, composing `InboxChain`, `BlobStore` and `Status` |
| `BlobWindow` | abstract specification of the retained channels |
| `AuthHistory` | manager history and sender schedules as functions of logs: pure operators |
| `AuthChain` | L1 blocks with authorisation logs and submissions (external) |
| `AuthSync` | the Blob worker's bootstrap, backfill and position-by-position scan, on top of the two above |
| `ChannelInput` | `channelInput.add` and the assembly of a channel |
| `SpanBatch` | the field layout and the cursors of a span batch |
| `ChannelDecoding` | `decodeReadyChannel`: composes the two above, from frames to the blocks of a channel |
| `BeaconClient` | `Slot` and `Frames`, with an unreliable node |
| `Service` | both workers, requests and shutdown around the locks of `Status` and `Store` |
| `Startup` | which configuration may open which database |
| `BlobSyncProofs`, `AuthSyncProofs` | theorems about the Blob store, the Blob worker and its sender authorisation |
| `ChannelDecodingProofs`, `BeaconClientProofs` | theorems about the Blob input |
| `ServiceProofs`, `StartupProofs` | theorems about the process |
| `MC...` | instances for TLC, one per specification (`Service` needs none) |

`BlobSync` and `AuthSync` are two views of one worker. `BlobSync` has the retention
commit, sources, channels and the Blob store; a submission has a field for its
authorisation (`auth`) and one for its receipt's status (`ok`). `AuthSync` has where
`auth` comes from, with the bootstrap it needs when the Inbox starts above block 0,
and of the rest of the Step only what moves the checkpoint. The calls that
`AuthSync` models belong to the places `anchor` and `height3` of `BlobSync`: where
they fail, the Step does what it does when the calls of these two places fail.
`Service` in turn reduces a Step to its effects on locks, status and database.

### How state and actions correspond to the code

A worker is a program counter `pc` and the locals of its Step (`w` of
`DepositSync`, `v` of `BlobSync`). One action is the code from one remote call to
the next; the action reads the chain *as it is at that moment*, and `Mine` and
`Reorg` may happen between any two actions. An early return is `Return(l)`, which
drops the locals and goes to what `Run` does with the result: `wait` (caught up),
`idle` (scan on), `retry` (transient error) or `halt` (integrity error). `CallFails`
and `BadAnswer` are the two ways a call can go wrong; which errors are fatal follows
`Run`'s `errors.Is` tests.

A store operation that holds the lock is one action, except that `Store.Commit`
stages one record per step, so that a restart can happen in the middle.
`CommitFails` is the failing `Commit(pebble.Sync)`: the batch is on disk or not.
Status and commit are ordered as `commitIfHealthy` orders them: `Healthy` is
tested in the step that begins the commit. In `DepositSync` the lock stays held
while records are staged, so `FatalElsewhere` waits for the end of the commit.

`Service` is where the locks themselves are state. `status` names the worker that
is inside `commitIfHealthy`; every other use of `Status.mu` is one step and waits
for it. `writer` names who holds *or awaits* `Store.mu` for writing, since a waiting
writer keeps new readers of a `sync.RWMutex` out, and `readers` are the requests
inside. A request is `guard` (the check of `dataHandler`, or all of `/readyz`),
then its endpoint, then its reply; a store read is two steps, the checkpoint and
the rest. `main` goes through `serve`, `shutdownHTTP` and the deferred `Close`. The
ten seconds of `shutdownHTTP` can pass (`DrainTimeout`) only while some request is
`Slow`: in the remote call of `l1Context`, which has fifteen, or waiting for a lock
that a commit holds.

In `AuthSync`, `boot` and `back` are `Syncer.bootstrap` and `Syncer.backfills`,
which live across Steps and die with the process. `cloneAuth` needs no model: TLA+
values are not shared, and what the code must copy for that to be faithful is
exactly what it clones.  A backfill is one `Step` per page: `FinishPage` ends the
Step as `errBackfillPending` does.

In `BeaconClient` what the node holds changes freely between requests; a node that
lacks a slot may answer 404, one that has it does not, and a proxy may answer 404
for the other paths at any time. In `SpanBatch` the encoder is external and writes
what `decodeSpan` documents it reads; a stream is a sequence of items, so the
truncation and trailing-data checks are about items. The encoder is given by counting
(`Offset`: the transactions before a block; `Rank`: the position of a transaction
among those that have a field), not by recursion over lists, so that it can be proved
about; `EncoderAssumption` of `MCChannelDecoding` compares it with the concatenation
and the filtering of lists. `ChannelDecoding` hands the
assembled data over to a list of spans chosen freely, since nothing in the code
relates how data was cut into frames to what it contains; from there on the frames
are gone, as they are in `decodeChannel`. In `Startup` a record carries
who wrote it and from which chain, which is what `OneOwner` reads.

The hash of block `h` is the chain up to `h`: hashes determine their ancestors
and do not collide. An abandoned block does not come back. Without that
assumption the deposit scan is not faithful: it anchors the window's end before
and after and trusts the logs in between, and the repository accepts the residual
risk ("Stable anchors do not detect logs returned from another fork").

Abstracted data: calldata, gas, timestamps and addresses of deposits are carried
along unread. ABI, RLP, compression and KZG decoding have a valid result or are
`BadAnswer`. A Blob transaction has a set of frames, a channel a number of frames
and a list of L2 blocks, each with the queue indexes of its deposits in order. Block
`h` of `InboxChain` has timestamp `h`. The largest values of the deposit queue
(`MaxIndex`) and of revisions and a block's queue indexes (`MaxU64`) stand for
2^64-1; heights and timestamps stay far below it. In `Startup` the check that the
AddressManager has code is not modelled: where it fails the process stops before it
opens the database, as after any failed check of `validateL1`.

Operators marked `fault` are used by no specification. Each is a plausible bug
in the operator that follows it, used to confirm that a property would notice.

## 3. Runs

| run | configuration | what it shows |
|---|---|---|
| `deposit_scan` | `MCDepositScan.cfg` | from block 0, one confirmation, windows of two blocks; a block that replaces the CTC between deposits of the old and the new one |
| `deposit_boot` | `MCDepositBoot.cfg` | start at block 2, pages of one block: the backward search for the CTC, checked with `IInv`; progress, readiness after outages, a halt after a reorganisation of the checkpoint |
| `deposit_ready_ctc` | `MCDepositNoCtc.cfg` | **violation**: ready without a CTC |
| `blob_sync` | `MCBlobSync.cfg` | safety of the Blob worker and store, with submissions that failed or came from another sender, and a block whose last queue index no deposit can have |
| `blob_live` | `MCBlobLive.cfg` | retention during a Beacon outage, catching up from an Inbox start the chain has yet to reach |
| `blob_duplicate` | `MCBlobDup.cfg` | **violation**: a channel whose expiry is refused |
| `auth_sync` | `MCAuthSync.cfg` | start at block 3, pages and windows of two blocks: bootstrap, backfill and scan, with a reorganisation and a restart between any two pages; all of it comes to an end |
| `service` | `MCService.cfg` | two workers, requests one after another, shutdown: safety of the two locks, no starvation or deadlock, halt and shutdown end |
| `service_drain` | `MCServiceDrain.cfg` | **violation**: the database is closed under a context request in its remote call |
| `channel_decoding` | `MCChannelDecoding.cfg` | every set of up to four frames in every order; then up to two spans, each of up to two transactions in up to three blocks |
| `beacon_client` | `MCBeaconClient.cfg` | failures at every request, blobs that come and go |
| `startup` | `MCStartup.cfg` | restarts with other configurations, nodes and databases |

Properties of the deposit worker (`DepositSync`):

* `CommittedFaithful`: the committed CTC and the stored records are exactly what
  the committed block's own history says.
* `Contiguous`: the stored queue has no gap and no misplaced record.
* `ReadyIsHonest`: ready only with a checkpoint, without a fatal error, and not
  while a window is scanned.
* `NoCommitAfterFatal`: the database is frozen once a fatal error is published.
* `FollowsOneChain`: refinement of `DepositIndex`; the index only moves from a
  block to one of its descendants.
* `StableDeposits`: what `/enqueue` has answered is answered the same for ever, the
  latest index never goes back, and no read up to it meets a hole.
* `EventuallyIndexed`, `ReadyAgain`, `ReorgHalts`: liveness.

Properties of the Blob worker (`BlobSync`):

* `ReadsSucceed`: each index entry leads to a block, a channel and unexpired sources,
  whatever was scanned and expired, and the checkpoint names the highest retained
  block. So `GetBlock` ends in an integrity error only for a block that was published
  with the queue index 2^64-1. Such a block is accepted (`deriveBlocks` takes the
  index from a nonce) and the read refuses it on purpose, as
  `TestBlockDepositInvalidQueueIndex` demands, but only once the deposits the block
  lists before it are stored (`Refused`); until then the answer is null.
* `RetainedFaithful`: sources, channels, blocks, index and expiry keys are
  exactly the unexpired part of what the scanned chain says.
* `RetentionNeverRefused`: the store accepts every retention commit.
* `BlobReadyIsHonest`: the worker becomes ready only when everything from the Inbox
  start to the confirmed block of the Step is committed, or when the start lies above
  that block, and it is not ready while a window is scanned or committed.
* `StableAnswers`: a block once served is served unchanged until one of its
  sources expires, also with respect to the deposits it is filled in with.
* `KeepsWindow`: refinement of `BlobWindow`; a scan loses nothing, an expiry
  removes exactly the channels with an expired source.
* `CleanupDespiteBeacon`, `BlobCaughtUp`: liveness. While the Inbox start lies above
  the confirmed block `prepare` takes readiness back in every Step and the end of the
  Step sets it again, so there `BlobCaughtUp` says ready again and again, not for good.

Properties of the sender authorisation (`AuthSync`):

* `AuthFaithful`: the committed authorisation is the one the committed block's whole
  history gives, and the accepted submissions are exactly those whose sender was in
  force at their position, with the Blob sender of that moment. The reference
  (`AuthOf`, `RightSender`) is a function of the chain and knows no pages.
* `NoFalseAlarm`: without a reorganisation no anchor fails, no log is refused and
  every authorisation passes `decodeAuth`.
* `AuthCaughtUp`: liveness of bootstrap and backfill.

Properties of the process (`Service`, `Startup`):

* `SnapshotReads`: no commit or `Close` between the two reads of a request.
* `CommitBarrier`: no commit after a fatal error, whoever publishes it.
* `HaltedRoutes`: a request that arrives after the halt gets no data.
* `RequestsAnswered`, `HaltEndsWorkers`, `ShutdownEnds`: liveness.
* `OneOwner`: all records of a database come from one configuration and its chain.
* `OwnerNeverRefused`: the configuration that owns a database can open it again
  after a crash at any moment.

Properties of the Blob input (`ChannelInput`, `SpanBatch`, `ChannelDecoding`,
`BeaconClient`):

* `KeepsByContent`: frames, end and size after `add` are a function of the set of
  frames added, not of their order.
* `AssembledWhole`: a channel that is assembled has frames 0 to its end, counts
  their bytes, and expires with its oldest source.
* `ProperAccepted`: a proper channel is accepted in every order of its frames.
* `RoundTrip`: a complete decoding returns what was encoded; no lookup of
  `deriveBlocks` is out of range and every item is used once (`CursorsAligned`);
  block numbers follow one another without wrapping around (`IndexesRise`).
* `InsideCommitment`: the comparison of a channel's blocks with the range its
  submission commits to is exact up to the last `uint64`.
* `SlotFaithful`: blobs are asked for at the slot of their block only.
* `SkipsOnlyMissing`: a batch is skipped only if the node lacks one of its blobs.

### Bounds

`MaxHeight` is 3 (4 in `blob_duplicate` and `auth_sync`), so a scan has at least two windows and,
with `MaxReorgs = 1`, a reorganisation can fall between any two calls of a Step,
below, inside or above the window. One restart (`MaxCrashes`) reaches every
half-done Step, since a restart keeps nothing but the database and the chain. `Retention = 1` makes
channel `c1` of `MCBlobSync`, whose two sources are in different blocks, expire
while its younger source stays. `SkipFrom = 0` stands for the failed enqueue 20397,
so that block reads shift the queue index; `MaxQueued = 2` reaches the moment the
shifted deposit is stored. `MaxU64 = 10` is above what the bounded chain can reach,
and the second queue index of `c1`'s last block is `MaxU64`, so that its read is null
first and refused later. `Start = 1` (2 in `blob_live`) lets the worker find the start
above the confirmed block, be ready, and scan later. `MCServiceDrain.cfg` has
context requests only.

`MCAuthSync` has two managers that both speak before they are named, a block that
names one between submissions of two senders, one in which the second speaks and
replaces the first, and one that removes it; with `Start = 3` and `BatchSize = 2` a
bootstrap has two pages, a backfill from block 3 or 4 two, and a window up to two
blocks. `MCService.cfg` has both workers and one request slot, which any number of
requests use one after another; requests share nothing but the locks, and a second
one inside only keeps a writer waiting for longer. The database is a bit that every
commit flips: two states are enough for a read that straddles a commit.
`MCChannelDecoding` has three frame numbers, two lengths and two sources, and a byte
limit that one dropped frame decides; it takes `MaxU64 = 7`, so that spans start
and commitments end at both ends of the range.
`MCBeaconClient` has block times before the genesis and at both ends of a slot.

### Fairness

`FairSpec` is weak fairness of the worker's next step: every call returns, because
`Run` bounds each Step to five minutes, and every wait ends, because `Poll` is a
timer. Nothing is assumed of the chain. That the remote services recover is a
hypothesis of each liveness property, not a fairness condition: `NodeRecovers`
says that from some moment on calls fail only when the chain lacks what they ask
for, `BeaconRecovers` the same for the Beacon service. `CleanupDespiteBeacon`
assumes only the former.

`Service` assumes strong fairness of each worker, of each request's handler and of
shutdown. It stands for the queues of `sync.RWMutex`: a waiting writer keeps new
readers out, and waiting readers go in when a writer leaves, so a goroutine that
keeps waiting gets its lock although others take it in between. Remote calls
end with their contexts, after five minutes or fifteen seconds. No request has to
arrive and nobody has to stop the process.

### Findings

1. `prepareWindow` publishes ready when the checkpoint is at the confirmed block,
   without the check of `commitWindow` (`no active CanonicalTransactionChain at
   confirmed tip`). A window that ends below the confirmed block commits without a
   CTC; if the tip then falls back to that block, the next Step reports ready.
2. A channel that contains the same L2 block twice is stored but cannot expire:
   `expireRecord` deletes the block at its first mention and fails at the second.
   The retention commit is refused, which is an integrity halt, and the same
   happens after every restart.
3. `serve` does not wait for HTTP shutdown to finish, as its comment says, but at
   most ten seconds. A handler of `/eth/context` may take fifteen, and meets a closed
   RPC client; TLC's trace is such a request, in its remote call when the wait ends
   and still there when the database is closed. Reads are safe all the same:
   `SnapshotReads` holds, since `Close` takes the lock.

## 4. Proofs

Each theorem holds for all constants that satisfy the assumptions below: chains of
any length, any number of reorganisations and restarts, any window, page and
retention size, any frames.

| module | theorem | statement |
|---|---|---|
| `DepositSyncProofs` | `Invariance` | `Spec => []IInv` |
| | `TypeCorrect` | `Spec => []TypeOK` |
| | `Faithful` | `Spec => []CommittedFaithful` |
| | `NoGap` | `Spec => []Contiguous` |
| | `HonestReadiness` | `Spec => []ReadyIsHonest` |
| | `FatalFreezes` | `Spec => NoCommitAfterFatal` |
| | `Implements` | `Spec => FollowsOneChain` |
| | `AnswersStable` | `Spec => StableDeposits` |
| `BlobSyncProofs` | `TypeCorrect` | `Spec => []TypeOK` |
| | `HonestBlobReadiness` | `Spec => BlobReadyIsHonest` |
| | `Reads` | `Spec => []ReadsSucceed` |
| | `RetainsExactly` | `Spec => []RetainedFaithful` |
| | `RetentionAccepted` | `DistinctBlocks` implies `Spec => []RetentionNeverRefused` |
| | `Windowed` | `Spec => KeepsWindow` |
| | `Stable` | `Spec => StableAnswers` |
| `AuthSyncProofs` | `TypeCorrect` | `Spec => []TypeOK` |
| | `Authorised` | `Spec => []AuthFaithful` |
| | `Calm` | `Spec => []NoFalseAlarm` |
| `ServiceProofs` | `TypeCorrect` | `Spec => []TypeOK` |
| | `Snapshot` | `Spec => []SnapshotReads` |
| | `Halted` | `Spec => []HaltedRoutes` |
| | `Barrier` | `Spec => CommitBarrier` |
| `StartupProofs` | `Owned` | `Spec => []OneOwner` |
| | `NotRefused` | `Spec => []OwnerNeverRefused` |
| `ChannelDecodingProofs` | `OrderIrrelevant` | `Spec => []KeepsByContent` |
| | `WholeChannel` | `Spec => []AssembledWhole` |
| | `ProperInput` | `Spec => []ProperAccepted` |
| | `SpanRoundTrip` | `Spec => []RoundTrip` |
| | `CommitmentExact` | `Spec => []InsideCommitment` |
| `BeaconClientProofs` | `AsksAtSlot` | `Spec => []SlotFaithful` |
| | `SkipsJustly` | `Spec => SkipsOnlyMissing` |

### Assumptions

TLC evaluates all of them on the runs. They are the ranges of the configuration
constants, and of the data that comes from outside:

* `ChainAssumption`: blocks carry well-formed events at distinct positions, each
  set of which has a last one. `AuthChainAssumption`: the authorisation logs of a
  block are finitely many and have distinct positions, and a grant has a sender
  (`apply` refuses a zero sender, an answer the model counts under `BadAnswer`).
* `InboxAssumption`: a channel is a list of L2 blocks with a number and a list of
  queue indexes. `BlobConfigAssumption`: any start block; `MaxU64` is above twice the
  length of the chain, as 2^64-1 is: a block is the target of at most one scan and
  one retention commit, so the revision does not run out.
* `ChannelAssumption`, `SpanAssumption`, `DecodingAssumption`: frame numbers,
  lengths, times and start blocks are naturals in the range of their type; a span is
  a list of lists of transactions, each of one of the three signature kinds.
* `BeaconAssumption`: a referenced transaction has at least one blob (`scan.go`
  rejects one without), and block times are below the modulus of the clock.
* `StartupAssumption`: no configuration has the identity that stands for none or
  for a foreign database. `ServiceAssumption`: the names of workers and main differ.

The modelling assumption that an abandoned block does not return is part of the
chain modules. `RetentionAccepted` has one hypothesis more, `DistinctBlocks`: no
channel mentions an L2 block twice. The run `blob_duplicate` shows it is needed,
and finding 2 that nothing in the code provides it.

### The deposit worker

A Step reads headers and logs at different moments, so no invariant
can say that what it has read is on the chain now. What can be said is that every
block the worker remembers is `Tracked`: either still on the chain (`Live`), or
`Dead`, that is replaced, or due to be replaced, by a block of a later fork, and
then off the chain for good. `LogsOK` and `DecodedOK` say of the logs and records
in hand that *if* the window's last block is still live, they are that block's.
The last checks before the commit see it live; a reorganisation between the check
and the commit makes it dead, but it does not change what the block says. The
invariant then follows the bootstrap (pages above `next` hold no change of the
CTC), the batch (a prefix of the window's records on top of the database) and the
checkpoint. `L1ChainProofs` proves that chains stay well formed under `Mine` and
`Reorg`, that `Live` and `Dead` blocks stay so or turn from one to the other, and
how a CTC history splits at a block boundary.

`AnswersStable` needs no more than that: when a commit applies its batch, `StageOK`
says the batch holds every stored record, `Contiguous` says each is stored under
its own index, so every record is where it was.

### The Blob store and worker

`Coherent` says that the four tables agree: transactions and channels are stored
under their keys, the sources of a channel are there and the oldest sets its expiry,
index entries and blocks are exactly those of the channels. `PutCoherent` and
`PruneCoherent` show that the two halves of `CommitBlob` keep it, for any arguments
the store accepts. The second rests on one fact: a channel expires no later than
any of its sources, so a channel that stays keeps its sources, and a block goes
only with the one channel the index names for it. `BaseInv` adds the checkpoint (its
latest index is the highest one stored), the well-formedness of what a scan has found
(`FoundOK`) and where the worker is between its checks. The anchors are again `Live`
or `Dead`, so `Windowed` follows: a commit moves the checkpoint to a descendant.
`Stable` adds that the deposit worker only appends.

`RetainsExactly` needs two more parts. `Faithful` states the property in inductive
form: every transaction is one of the scanned chain, every reference younger than
the cutoff is there, no two sources of a submission share a frame, the channels are
those the sources complete. The retention commit keeps it by `ExpiryExact`: since
no other source has its frames, a channel that is complete among the sources that
are left had no others. The commit of a scan keeps it because an old submission
gets no new source: its sources were mined before it, so each was stored then or is
older than the cutoff. `ScanOK` follows the scan up to that commit: the cache holds
transactions of the anchor's chain and, of each submission handled so far, all
sources, *if* the anchor still stands, and without that condition once
`CheckEnd` has seen it stand.

### Sender authorisation

`AuthSyncProofs` first proves the algebra of histories: which manager a set of logs
names last, and that the schedule of a history cut in two is the schedule of its
earlier part overwritten by that of the later one. A backfill reads pages, a scan
reads windows, and each overwrites what is known; since overwriting composes, any
way of cutting the history gives the same authorisation. The invariant then says
of each thing the worker has read *for which block, if that block is live*, it is
right: `HistoryOK` of the managers, `PageOK` of a backfill page, `BlockOK` of the
position inside a block. `Sound` collects the anchors that are still to be checked,
and `Done` states the conclusion once they have been.

`Calm` needs that alarms are impossible without a fork: while `epoch` is 0 every
tracked block is live, so every anchor is found, and the authorisation that
`decodeAuth` checks is the one of the history.

### Service and start-up

`ServiceProofs` says who is where while a lock is held: a worker between test and
commit holds the status (`CommitOK`), a request between its two reads is among the
readers and there is no writer inside (`ReadersOK`), `Close` holds the
writer's lock (`CloseOK`), and a late request has not passed the guard (`LateOK`).
`StartupProofs` follows the identities from the moment they are written: each is
that of a configuration that has opened the database (`IdentityOK`), everything
stored carries it or is foreign (`ContentsOK`), and a process past its checks runs
under it (`RunOK`).

### Blob input

`ContentOK` gives end, frames and size of a channel as functions of the set of
frames added; `add` in any order keeps it. The size is counted byte by byte
(`Bytes` is the number of pairs of a kept frame and an offset in it), so that
adding a frame adds its length. `WholeOK` carries this through the assembly.

`SpanRoundTrip` is about lists of any length and would be an induction over them,
which the provers cannot do; counting takes its place. `TxsPlace` says that
transaction `k` of block `i` is number `Offset(B, i) + k` of the span, and
`ColumnItems` that a transaction's item of a field is at its `Rank`, so `EncodeHolds`
knows what is at each position of the stream. `LayoutCounts` shows that
`readTransactions` finds the boundaries of the fields by counting bits even when the
last item is missing, hence accepts only the stream that was encoded, and then reads
the right columns (`FieldsRead`, `FieldsOf`). The inductive invariant `SpanInv` gives
the state of `deriveBlocks` as a function of how many transactions it has derived:
each cursor is one more than the rank of that number among the transactions that
have the field (`CursorAt`), the blocks are those encoded except for the last `todo`
transactions of the current one (`Progress`), and the block numbers rise from the
start, where `RangeOK` keeps them below the modulus. One more transaction adds one to
exactly the ranks whose bits are set (`RankStep`, `Lookups`), which is what
`deriveBlocks` adds to its cursors; at the end the ranks are the lengths of the
fields.

`BlocksOK` adds the block numbers kept of earlier spans. The comparison with the commitment is
arithmetic on naturals, exact where the code's guards rule out a wrap-around.
`BeaconClientProofs` says that a clock that was read is the node's (`ClockOK`), and
what the current call asks for follows from it (`CallOK`).

### Only model-checked

The liveness properties: fairness is out of the prover's reach. Every invariant and
every action property of the passing runs is proved.

## 5. Not modelled

* Conversions of bytes: ABI, RLP, JSON, varints, compression, KZG, `DecodeBlob` and
  `ParseFrames`. They have a valid result or an error; no state depends on how.
* `/eth/context`: what it answers. It keeps no state, and its two calls to the node
  are not tied together by any check, so nothing beyond each answer can be claimed.
* HTTP parameter parsing, formatting of replies, `/healthz`, the health check
  command, the parsing of flags and environment (its constraints are the
  assumptions on the constants), and the generator of test data.

## 6. Plan

Done: all components of section 1 modelled and checked, and all their safety
properties proved. An extension that would say more: the state of `DepositSync` and
`BlobSync` in one module, with the deposits that fill in a block taken from the
deposit worker rather than from the counter `queued`.
