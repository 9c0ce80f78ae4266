------------------------------- MODULE Service -------------------------------
(***************************************************************************)
(* The process: two ingestion workers, the HTTP handlers and the shutdown  *)
(* of cmd/metis-l1dtl/service.go, around the lock of Status and the lock   *)
(* of Store.                                                               *)
(*                                                                         *)
(* Both locks are sync.RWMutex: a writer that waits keeps new readers out. *)
(* Status is held across steps only by a worker that commits              *)
(* (commitIfHealthy), so it has an owner; its other uses are one step.     *)
(* Store has the readers that hold it and the writer that holds or awaits  *)
(* it.  What a Step computes is left to DepositSync, BlobSync and          *)
(* AuthSync: here it calls out and ends in a commit, in a report that      *)
(* nothing is left to do, in a retry or in an integrity error.             *)
(***************************************************************************)
EXTENDS Naturals, FiniteSets

CONSTANTS Workers,   \* "deposit" and, if Blobs are enabled, "blob"
          Requests,  \* requests the server handles at a time
          Kinds,     \* kinds of routes: "readyz", "syncing", "store", "context"
          None

ASSUME ServiceAssumption ==
  /\ "deposit" \in Workers
  /\ Workers \subseteq {"deposit", "blob"}
  /\ Kinds \subseteq {"readyz", "syncing", "store", "context"}
  /\ None \notin Workers \cup {"main"}

VARIABLES status,   \* who holds Status.mu for writing across steps
          writer,   \* who holds or awaits Store.mu for writing
          readers,  \* the requests that hold Store.mu for reading
          fatal,    \* Status.fatal # nil
          ready,    \* Status.ready and blobReady, per worker
          version,  \* which of two states the database is in
          closed,   \* Store.closed
          worker,   \* where each worker is
          req,      \* each request: [pc, kind, late, seen, code]
          main      \* where serve and its caller are

lockVars == <<status, writer, readers>>
statusVars == <<fatal, ready>>
dbVars == <<version, closed>>
vars == <<status, writer, readers, fatal, ready, version, closed, worker, req, main>>

NoRequest == [pc |-> "none", kind |-> "none", late |-> FALSE, seen |-> 0, code |-> 0]

Active(r) == req[r].pc # "none"

\* The context of the workers is cancelled.
Stopping == main # "serving"

StatusFree == status = None

\* Snapshot.
AllReady == \A w \in Workers : ready[w]

-------------------------------------------------------------------------------
(* A worker: Run, Step and commit. *)

At(w, l) == worker[w] = l
To(w, l) == worker' = [worker EXCEPT ![w] = l]

StartStepBlind(w) ==                                             \* fault
  /\ At(w, "idle")
  /\ To(w, "state")
  /\ UNCHANGED <<lockVars, statusVars, dbVars, req, main>>

\* The loop ends when its context is cancelled: by shutdown, or by the goroutine
\* that watches for a fatal error.  A Step that is faster than it returns the error.
StartStep(w) ==
  /\ At(w, "idle")
  /\ IF Stopping THEN To(w, "done")
     ELSE \/ fatal /\ To(w, "done")
          \/ StatusFree /\ To(w, IF fatal THEN "halt" ELSE "state")
  /\ UNCHANGED <<lockVars, statusVars, dbVars, req, main>>

\* State or BlobState, under the read lock.
ReadState(w) ==
  /\ At(w, "state")
  /\ writer = None
  /\ To(w, IF closed THEN "halt" ELSE "call")
  /\ UNCHANGED <<lockVars, statusVars, dbVars, req, main>>

\* The remote calls of the Step and what it makes of them.
Call(w) ==
  /\ At(w, "call")
  /\ \E l \in {"commit", "caught", "retry", "halt"} : To(w, l)
  /\ UNCHANGED <<lockVars, statusVars, dbVars, req, main>>

BeginCommitUnguarded(w) ==                                       \* fault
  /\ At(w, "commit")
  /\ StatusFree
  /\ status' = w /\ To(w, "lock")
  /\ UNCHANGED <<writer, readers, statusVars, dbVars, req, main>>

\* commitIfHealthy: without a fatal error, and with the context alive, the callback
\* runs and keeps Status locked.
BeginCommit(w) ==
  /\ At(w, "commit")
  /\ StatusFree
  /\ IF fatal \/ Stopping
       THEN status' = status /\ To(w, "retry")
       ELSE status' = w /\ To(w, "lock")
  /\ UNCHANGED <<writer, readers, statusVars, dbVars, req, main>>

LockStore(w) ==
  /\ At(w, "lock")
  /\ writer = None
  /\ writer' = w
  /\ To(w, "write")
  /\ UNCHANGED <<status, readers, statusVars, dbVars, req, main>>

WriteEarly(w) ==                                                 \* fault
  /\ At(w, "write")
  /\ \/ version' = 1 - version /\ To(w, "caught")
     \/ version' \in {version, 1 - version} /\ To(w, "halt")
  /\ writer' = None
  /\ status' = None
  /\ UNCHANGED <<readers, statusVars, closed, req, main>>

\* The batch is written, or its outcome is unknown, and both locks are released.
Write(w) ==
  /\ At(w, "write")
  /\ readers = {}
  /\ ~closed
  /\ \/ version' = 1 - version /\ To(w, "caught")
     \/ version' \in {version, 1 - version} /\ To(w, "halt")
  /\ writer' = None
  /\ status' = None
  /\ UNCHANGED <<readers, statusVars, closed, req, main>>

\* Set(caught, nil) or SetBlobReady(caught).
Caught(w) ==
  /\ At(w, "caught")
  /\ StatusFree
  /\ \E caught \in BOOLEAN :
       /\ ready' = [ready EXCEPT ![w] = caught /\ ~fatal]
       /\ To(w, IF caught THEN "wait" ELSE "idle")
  /\ UNCHANGED <<lockVars, fatal, dbVars, req, main>>

\* A transient error, or one that the cancelled context has caused.  After a fatal
\* error the loop sees it at once, or waits and is woken by the cancelled context.
Retry(w) ==
  /\ At(w, "retry")
  /\ StatusFree
  /\ ready' = [ready EXCEPT ![w] = FALSE]
  /\ \/ (Stopping \/ fatal) /\ To(w, "done")
     \/ ~Stopping /\ To(w, "wait")
  /\ UNCHANGED <<lockVars, fatal, dbVars, req, main>>

\* Set(false, err).
Halt(w) ==
  /\ At(w, "halt")
  /\ StatusFree
  /\ fatal' = TRUE
  /\ ready' = [ready EXCEPT ![w] = FALSE, !["deposit"] = FALSE]
  /\ To(w, "done")
  /\ UNCHANGED <<lockVars, dbVars, req, main>>

\* The poll timer, or the cancelled context.
Wait(w) ==
  /\ At(w, "wait")
  /\ \/ To(w, "idle")
     \/ (Stopping \/ fatal) /\ To(w, "done")
  /\ UNCHANGED <<lockVars, statusVars, dbVars, req, main>>

WorkerStep(w) ==
  \/ StartStep(w) \/ ReadState(w) \/ Call(w) \/ BeginCommit(w) \/ LockStore(w)
  \/ Write(w) \/ Caught(w) \/ Retry(w) \/ Halt(w) \/ Wait(w)

-------------------------------------------------------------------------------
(* A request. *)

On(r, l) == req[r].pc = l
Go(r, l) == req' = [req EXCEPT ![r].pc = l]
Reply(r, code) == req' = [req EXCEPT ![r].pc = "reply", ![r].code = code]

\* The listener is open until Shutdown closes it.
Arrive(r) ==
  /\ On(r, "none")
  /\ main \in {"serving", "stopping"}
  /\ \E k \in Kinds :
       req' = [req EXCEPT ![r] = [NoRequest EXCEPT !.pc = "guard", !.kind = k,
                                                   !.late = fatal]]
  /\ UNCHANGED <<lockVars, statusVars, dbVars, worker, main>>

\* The endpoint: enqueue, highestL1 and block read the store, l1Context asks the
\* node, and syncing (like transaction, which needs nothing) only the status.
Endpoint(kind) == CASE kind = "store" -> "lock"
                    [] kind = "context" -> "rpc"
                    [] kind = "syncing" -> "syncing"

GuardReadiness(r) ==                                             \* fault
  /\ On(r, "guard")
  /\ StatusFree
  /\ IF req[r].kind = "readyz"
       THEN Reply(r, IF AllReady /\ ~fatal THEN 200 ELSE 503)
       ELSE Reply(r, 400) \/ Go(r, Endpoint(req[r].kind))
  /\ UNCHANGED <<lockVars, statusVars, dbVars, worker, main>>

\* readiness; or dataHandler's guard, then validateRequest.
Guard(r) ==
  /\ On(r, "guard")
  /\ StatusFree
  /\ IF req[r].kind = "readyz"
       THEN Reply(r, IF AllReady /\ ~fatal THEN 200 ELSE 503)
       ELSE IF fatal THEN Reply(r, 503)
       ELSE Reply(r, 400) \/ Go(r, Endpoint(req[r].kind))
  /\ UNCHANGED <<lockVars, statusVars, dbVars, worker, main>>

Syncing(r) ==
  /\ On(r, "syncing")
  /\ StatusFree
  /\ Reply(r, 200)
  /\ UNCHANGED <<lockVars, statusVars, dbVars, worker, main>>

\* l1Context: the number does not parse, or the node answers, fails, or the fifteen
\* seconds are over.
Context(r) ==
  /\ On(r, "rpc")
  /\ \E code \in {200, 400, 503} : Reply(r, code)
  /\ UNCHANGED <<lockVars, statusVars, dbVars, worker, main>>

\* Get, State or GetBlock takes the read lock and reads the checkpoint.
LockRead(r) ==
  /\ On(r, "lock")
  /\ writer = None
  /\ IF closed
       THEN readers' = readers /\ Go(r, "error")
       ELSE /\ readers' = readers \cup {r}
            /\ req' = [req EXCEPT ![r].pc = "read", ![r].seen = version]
  /\ UNCHANGED <<status, writer, statusVars, dbVars, worker, main>>

ReadLeaks(r) ==                                                  \* fault
  /\ On(r, "read")
  /\ readers' = readers
  /\ Go(r, "error") \/ Reply(r, 200)
  /\ UNCHANGED <<status, writer, statusVars, dbVars, worker, main>>

ReadRetries(r) ==                                                \* fault
  /\ On(r, "read")
  /\ readers' = readers \ {r}
  /\ Go(r, "lock") \/ Reply(r, 200)
  /\ UNCHANGED <<status, writer, statusVars, dbVars, worker, main>>

\* The rest of the read, for a block also the deposits it is joined with, without
\* taking the lock again; it succeeds or meets corrupt data.
Read(r) ==
  /\ On(r, "read")
  /\ readers' = readers \ {r}
  /\ Go(r, "error") \/ Reply(r, 200)
  /\ UNCHANGED <<status, writer, statusVars, dbVars, worker, main>>

\* Set(false, err).
PublishError(r) ==
  /\ On(r, "error")
  /\ StatusFree
  /\ fatal' = TRUE
  /\ ready' = [ready EXCEPT !["deposit"] = FALSE]
  /\ Reply(r, 503)
  /\ UNCHANGED <<lockVars, dbVars, worker, main>>

Finish(r) ==
  /\ On(r, "reply")
  /\ req' = [req EXCEPT ![r] = NoRequest]
  /\ UNCHANGED <<lockVars, statusVars, dbVars, worker, main>>

Handle(r) == \/ Guard(r) \/ Syncing(r) \/ Context(r) \/ LockRead(r) \/ Read(r)
             \/ PublishError(r) \/ Finish(r)

-------------------------------------------------------------------------------
(* serve, shutdownHTTP and the deferred calls of runService. *)

MainTo(l) == main' = l

\* The process is told to stop, or Serve returns an error: stop().
Stop ==
  /\ main = "serving"
  /\ MainTo("stopping")
  /\ UNCHANGED <<lockVars, statusVars, dbVars, worker, req>>

\* Shutdown closes the listener.
CloseListener ==
  /\ main = "stopping"
  /\ MainTo("draining")
  /\ UNCHANGED <<lockVars, statusVars, dbVars, worker, req>>

\* Shutdown returns when no request is left, or after ten seconds.
Drained ==
  /\ main = "draining"
  /\ \A r \in Requests : ~Active(r)
  /\ MainTo("joining")
  /\ UNCHANGED <<lockVars, statusVars, dbVars, worker, req>>

\* A request that may outlast the ten seconds: l1Context gives its remote call
\* fifteen, and a commit holds both locks for as long as its write takes.
Slow(r) ==
  \/ On(r, "rpc")
  \/ req[r].pc \in {"guard", "syncing", "error"} /\ status \in Workers
  \/ On(r, "lock") /\ writer \in Workers

DrainTimeout ==
  /\ main = "draining"
  /\ \E r \in Requests : Slow(r)
  /\ MainTo("joining")
  /\ UNCHANGED <<lockVars, statusVars, dbVars, worker, req>>

\* <-syncDone.
Join ==
  /\ main = "joining"
  /\ \A w \in Workers : At(w, "done")
  /\ MainTo("closing")
  /\ UNCHANGED <<lockVars, statusVars, dbVars, worker, req>>

\* Store.Close, in two steps for its lock; the RPC client is closed next.
LockClose ==
  /\ main = "closing"
  /\ writer = None
  /\ writer' = "main"
  /\ MainTo("close")
  /\ UNCHANGED <<status, readers, statusVars, dbVars, worker, req>>

Close ==
  /\ main = "close"
  /\ readers = {}
  /\ closed' = TRUE
  /\ writer' = None
  /\ MainTo("exited")
  /\ UNCHANGED <<status, readers, statusVars, version, worker, req>>

Shutdown == CloseListener \/ Drained \/ DrainTimeout \/ Join \/ LockClose \/ Close

-------------------------------------------------------------------------------
Init ==
  /\ status = None /\ writer = None /\ readers = {}
  /\ fatal = FALSE /\ ready = [w \in Workers |-> FALSE]
  /\ version = 0 /\ closed = FALSE
  /\ worker = [w \in Workers |-> "idle"]
  /\ req = [r \in Requests |-> NoRequest]
  /\ main = "serving"

\* The process has ended.
Exited == main = "exited" /\ (\A r \in Requests : ~Active(r)) /\ UNCHANGED vars

Next == \/ \E w \in Workers : WorkerStep(w)
        \/ \E r \in Requests : Arrive(r) \/ Handle(r)
        \/ Stop \/ Shutdown
        \/ Exited

Spec == Init /\ [][Next]_vars

-------------------------------------------------------------------------------
(* Safety. *)

\* Every variable has its type, and the locks are held by those who are at a place
\* where the code holds them.
TypeOK ==
  /\ fatal \in BOOLEAN /\ closed \in BOOLEAN /\ version \in 0..1
  /\ ready \in [Workers -> BOOLEAN]
  /\ status # None => At(status, "lock") \/ At(status, "write")
  /\ \A w \in Workers : (writer = w) = At(w, "write")
  /\ readers = {r \in Requests : On(r, "read")}

\* "Readers hold a shared lock so latest-index lookup and record lookup see the
\* same committed state" (store.go): no commit and no Close falls between the
\* reads of one request.
SnapshotReads ==
  \A r \in readers : req[r].seen = version /\ ~closed

\* "A commit already in progress finishes before the halt is published; none can
\* start after" (status.go): whoever publishes the fatal error, worker or request.
CommitBarrier == [][fatal => version' = version]_vars

\* "Any integrity halt makes all data routes unavailable" (README.md): a request
\* that arrives after the halt gets no data.
HaltedRoutes ==
  \A r \in Requests : On(r, "reply") /\ req[r].late => req[r].code # 200

\* "serve waits for HTTP shutdown and ingestion to finish before its caller closes
\* the shared database and RPC client" (service.go): no request is left either.
RequestsDrained == closed => \A r \in Requests : ~Active(r)

-------------------------------------------------------------------------------
(* Liveness.  A remote call of a worker or of a request ends, because its      *)
(* context does, at the latest after five minutes or fifteen seconds.  Locks   *)
(* are taken eventually by those who keep trying: sync.RWMutex lets the        *)
(* waiting readers in when a writer leaves, and a writer when they leave.      *)

FairSpec ==
  /\ Spec
  /\ \A w \in Workers : SF_vars(WorkerStep(w))
  /\ \A r \in Requests : SF_vars(Handle(r))
  /\ SF_vars(Shutdown)

\* Every request is answered: nobody waits for a lock for ever, though a commit
\* takes the Store lock while it holds Status, and requests use both.
RequestsAnswered == \A r \in Requests : Active(r) ~> ~Active(r)

\* A fatal error, from wherever, ends both workers.
HaltEndsWorkers == fatal ~> \A w \in Workers : At(w, "done")

\* Once the process is told to stop, it ends, whatever workers and requests do.
ShutdownEnds == Stopping ~> main = "exited"
==============================================================================
