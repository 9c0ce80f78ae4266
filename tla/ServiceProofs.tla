---------------------------- MODULE ServiceProofs ----------------------------
(***************************************************************************)
(* Safety of Service for any number of requests: who is where while a lock *)
(* is held decides what can happen to the database and to a request.       *)
(***************************************************************************)
EXTENDS Service, TLAPS

Places == {"idle", "state", "call", "commit", "lock", "write", "caught", "retry",
           "halt", "wait", "done"}

Phases == {"none", "guard", "syncing", "rpc", "lock", "read", "error", "reply"}

Request == [pc : Phases, kind : Kinds \cup {"none"}, late : BOOLEAN, seen : 0..1,
            code : {0, 200, 400, 503}]

\* Every variable has its range.
RangeOK ==
  /\ status \in Workers \cup {None}
  /\ writer \in Workers \cup {None, "main"}
  /\ readers \subseteq Requests
  /\ fatal \in BOOLEAN /\ closed \in BOOLEAN /\ version \in 0..1
  /\ ready \in [Workers -> BOOLEAN]
  /\ worker \in [Workers -> Places]
  /\ req \in [Requests -> Request]
  /\ \A r \in Requests : Active(r) => req[r].kind \in Kinds
  /\ main \in {"serving", "stopping", "draining", "joining", "closing", "close", "exited"}

\* A worker that has begun its commit owns Status, and then no fatal error has been
\* published; it is Store's writer exactly while it writes.
CommitOK ==
  \A w \in Workers :
    /\ worker[w] \in {"lock", "write"} <=> status = w
    /\ writer = w <=> worker[w] = "write"
    /\ status = w => ~fatal

\* A request holds the read lock exactly while it reads, and sees the present state.
ReadersOK ==
  /\ readers = {r \in Requests : req[r].pc = "read"}
  /\ \A r \in readers : req[r].seen = version /\ ~closed

\* Close holds Store's lock; the database is closed when the process has ended.
CloseOK ==
  /\ writer = "main" <=> main = "close"
  /\ closed <=> main = "exited"

\* A request that came after the halt gets no further than the guard.
LateOK ==
  \A r \in Requests :
    req[r].late =>
      /\ fatal
      /\ req[r].pc \in {"guard", "reply"}
      /\ req[r].pc = "reply" => req[r].code # 200

IInv == RangeOK /\ CommitOK /\ ReadersOK /\ CloseOK /\ LateOK

------------------------------------------------------------------------------
USE ServiceAssumption

(* The invariant holds before the workers and the listener start. *)
LEMMA InitOK == Init => IInv
<1> SUFFICES ASSUME Init PROVE IInv
  OBVIOUS
<1>1. NoRequest \in Request
  BY DEF NoRequest, Request, Phases
<1>2. RangeOK
  <2>1. ready \in [Workers -> BOOLEAN]
    BY DEF Init
  <2>2. worker \in [Workers -> Places]
    BY DEF Init, Places
  <2>3. req \in [Requests -> Request]
    BY <1>1 DEF Init
  <2>4. fatal \in BOOLEAN /\ closed \in BOOLEAN
    BY DEF Init
  <2> QED
    BY <2>1, <2>2, <2>3, <2>4 DEF Init, RangeOK, Active, NoRequest
<1>3. CommitOK
  BY DEF Init, CommitOK
<1>4. ReadersOK
  BY DEF Init, ReadersOK, NoRequest
<1>5. CloseOK
  BY DEF Init, CloseOK
<1>6. LateOK
  BY DEF Init, LateOK, NoRequest
<1> QED
  BY <1>2, <1>3, <1>4, <1>5, <1>6 DEF IInv

------------------------------------------------------------------------------
(* The workers. *)

(* A step of a worker that takes no lock, gives none back and publishes nothing    *)
(* preserves the invariant: most of Run and of Step.                                *)
LEMMA QuietStep ==
  ASSUME IInv, NEW w \in Workers, NEW l \in Places \ {"lock", "write"},
         At(w, "lock") \/ At(w, "write") => FALSE,
         To(w, l), UNCHANGED <<lockVars, fatal, dbVars, req, main>>,
         ready' \in [Workers -> BOOLEAN]
  PROVE  IInv'
<1> USE DEF IInv, At, To, lockVars, dbVars
<1>1. RangeOK'
  BY DEF RangeOK, Places, Active
<1>2. CommitOK'
  BY DEF CommitOK, RangeOK
<1>3. ReadersOK' /\ CloseOK' /\ LateOK'
  BY DEF ReadersOK, CloseOK, LateOK
<1> QED
  BY <1>1, <1>2, <1>3

(* Every step of a worker preserves the invariant. *)
LEMMA WorkerOK == ASSUME IInv, NEW w \in Workers, WorkerStep(w) PROVE IInv'
<1> USE DEF At
<1>0. ready \in [Workers -> BOOLEAN] /\ fatal \in BOOLEAN /\ "deposit" \in Workers
  BY DEF IInv, RangeOK
<1>1. CASE StartStep(w)
  <2>1. PICK l \in {"done", "halt", "state"} : To(w, l)
    BY <1>1 DEF StartStep
  <2> QED
    BY <1>0, <1>1, <2>1, QuietStep DEF StartStep, statusVars, Places
<1>2. CASE ReadState(w)
  <2>1. PICK l \in {"halt", "call"} : To(w, l)
    BY <1>2 DEF ReadState
  <2> QED
    BY <1>0, <1>2, <2>1, QuietStep DEF ReadState, statusVars, Places
<1>3. CASE Call(w)
  <2>1. PICK l \in {"commit", "caught", "retry", "halt"} : To(w, l)
    BY <1>3 DEF Call
  <2> QED
    BY <1>0, <1>3, <2>1, QuietStep DEF Call, statusVars, Places
<1>4. CASE BeginCommit(w)
  <2>1. CASE fatal \/ Stopping
    BY <1>0, <1>4, <2>1, QuietStep DEF BeginCommit, statusVars, lockVars, Places
  <2>2. CASE ~(fatal \/ Stopping)
    <3> USE <1>4, <2>2 DEF BeginCommit, StatusFree, IInv, To, statusVars, dbVars
    <3>1. RangeOK'
      BY DEF RangeOK, Places, Active
    <3>2. CommitOK'
      BY DEF CommitOK, RangeOK
    <3>3. ReadersOK' /\ CloseOK' /\ LateOK'
      BY DEF ReadersOK, CloseOK, LateOK
    <3> QED
      BY <3>1, <3>2, <3>3
  <2> QED
    BY <2>1, <2>2
<1>5. CASE LockStore(w)
  <2> USE <1>5 DEF LockStore, IInv, To, statusVars, dbVars
  <2>1. RangeOK'
    BY DEF RangeOK, Places, Active
  <2>2. CommitOK'
    BY DEF CommitOK, RangeOK
  <2>3. w # "main"
    OBVIOUS
  <2>4. ReadersOK' /\ CloseOK' /\ LateOK'
    BY <2>3 DEF ReadersOK, CloseOK, LateOK
  <2> QED
    BY <2>1, <2>2, <2>4
<1>6. CASE Write(w)
  <2> USE <1>6 DEF Write, IInv, To, statusVars
  <2>0. PICK l \in {"caught", "halt"} : To(w, l)
    OBVIOUS
  <2>1. RangeOK'
    BY <2>0 DEF RangeOK, Places, Active
  <2>2. CommitOK'
    BY <2>0 DEF CommitOK, RangeOK
  <2>3. ReadersOK' /\ LateOK'
    BY DEF ReadersOK, LateOK
  <2>4. CloseOK'
    BY DEF CloseOK, CommitOK
  <2> QED
    BY <2>1, <2>2, <2>3, <2>4
<1>7. CASE Caught(w)
  <2>1. PICK l \in {"wait", "idle"} : To(w, l)
    BY <1>7 DEF Caught
  <2>2. ready' \in [Workers -> BOOLEAN]
    BY <1>0, <1>7 DEF Caught
  <2> QED
    BY <1>7, <2>1, <2>2, QuietStep DEF Caught, Places
<1>8. CASE Retry(w)
  <2>1. PICK l \in {"done", "wait"} : To(w, l)
    BY <1>8 DEF Retry
  <2>2. ready' \in [Workers -> BOOLEAN]
    BY <1>0, <1>8 DEF Retry
  <2> QED
    BY <1>8, <2>1, <2>2, QuietStep DEF Retry, Places
<1>9. CASE Halt(w)
  <2> USE <1>9 DEF Halt, IInv, To, lockVars, dbVars, StatusFree
  <2>1. RangeOK'
    BY DEF RangeOK, Places, Active
  <2>2. CommitOK'
    BY DEF CommitOK, RangeOK
  <2>3. ReadersOK' /\ CloseOK' /\ LateOK'
    BY DEF ReadersOK, CloseOK, LateOK
  <2> QED
    BY <2>1, <2>2, <2>3
<1>10. CASE Wait(w)
  <2>1. PICK l \in {"idle", "done"} : To(w, l)
    BY <1>10 DEF Wait
  <2> QED
    BY <1>0, <1>10, <2>1, QuietStep DEF Wait, statusVars, Places
<1> QED
  BY <1>1, <1>2, <1>3, <1>4, <1>5, <1>6, <1>7, <1>8, <1>9, <1>10 DEF WorkerStep

------------------------------------------------------------------------------
(* The requests. *)

(* Only request r changes, and it changes to q. *)
Becomes(r, q) == req' = [s \in Requests |-> IF s = r THEN q ELSE req[s]]

(* Going to a place changes the request's place only. *)
LEMMA GoFields ==
  ASSUME req \in [Requests -> Request], NEW r \in Requests, NEW l \in Phases, Go(r, l)
  PROVE  \E q \in Request :
           /\ q.pc = l /\ q.kind = req[r].kind /\ q.late = req[r].late
           /\ q.seen = req[r].seen
           /\ Becomes(r, q)
<1> DEFINE q == [req[r] EXCEPT !.pc = l]
<1>1. req[r] \in Request
  OBVIOUS
<1>2. q \in Request /\ q.pc = l /\ q.kind = req[r].kind /\ q.late = req[r].late
      /\ q.seen = req[r].seen
  BY <1>1 DEF Request
<1>3. Becomes(r, q)
  BY DEF Becomes, Go
<1> QED
  BY <1>2, <1>3

(* Replying changes the request's place and its code. *)
LEMMA ReplyFields ==
  ASSUME req \in [Requests -> Request], NEW r \in Requests,
         NEW c \in {200, 400, 503}, Reply(r, c)
  PROVE  \E q \in Request :
           /\ q.pc = "reply" /\ q.kind = req[r].kind /\ q.late = req[r].late
           /\ q.code = c
           /\ Becomes(r, q)
<1> DEFINE p == [req[r] EXCEPT !.pc = "reply"]
<1> DEFINE q == [p EXCEPT !.code = c]
<1>1. req[r] \in Request
  OBVIOUS
<1>2. p \in Request /\ p.pc = "reply" /\ p.kind = req[r].kind /\ p.late = req[r].late
  BY <1>1 DEF Request, Phases
<1> HIDE DEF p
<1>3. q \in Request /\ q.pc = p.pc /\ q.kind = p.kind /\ q.late = p.late /\ q.code = c
  BY <1>2 DEF Request
<1>4. Becomes(r, q)
  <2> DEFINE mid == [req EXCEPT ![r].pc = "reply"]
  <2>1. mid = [s \in Requests |-> IF s = r THEN p ELSE req[s]]
    BY DEF p
  <2>2. req' = [mid EXCEPT ![r].code = c]
    BY DEF Reply
  <2> HIDE DEF mid
  <2> QED
    BY <2>1, <2>2 DEF Becomes
<1> QED
  BY <1>2, <1>3, <1>4

(* A step of a request that takes no lock, gives none back and publishes nothing   *)
(* preserves the invariant, if a request that came late gets no data by it.        *)
LEMMA QuietRequest ==
  ASSUME IInv, NEW r \in Requests, NEW q \in Request, Becomes(r, q),
         req[r].pc # "read", q.pc # "read",
         q.pc # "none" => q.kind \in Kinds,
         q.late => /\ fatal'
                   /\ q.pc \in {"guard", "reply"}
                   /\ q.pc = "reply" => q.code # 200,
         fatal' \in BOOLEAN, ready' \in [Workers -> BOOLEAN],
         fatal => fatal', fatal' => fatal \/ status = None,
         UNCHANGED <<lockVars, dbVars, worker, main>>
  PROVE  IInv'
<1> USE DEF IInv, lockVars, dbVars, Becomes
<1>0. /\ req \in [Requests -> Request] /\ readers \subseteq Requests
      /\ \A s \in Requests : Active(s) => req[s].kind \in Kinds
  BY DEF RangeOK
<1>1. RangeOK'
  <2>1. req' \in [Requests -> Request]
    BY <1>0
  <2>2. \A s \in Requests : Active(s)' => req'[s].kind \in Kinds
    BY <1>0 DEF Active
  <2> QED
    BY <2>1, <2>2 DEF RangeOK
<1>2. CommitOK' /\ CloseOK'
  BY DEF CommitOK, CloseOK
<1>3. ReadersOK'
  BY <1>0 DEF ReadersOK
<1>4. LateOK'
  BY <1>0 DEF LateOK
<1> QED
  BY <1>1, <1>2, <1>3, <1>4

(* Every step of a request preserves the invariant. *)
LEMMA RequestOK == ASSUME IInv, NEW r \in Requests, Arrive(r) \/ Handle(r) PROVE IInv'
<1> USE DEF On
<1>0. /\ req \in [Requests -> Request] /\ req[r] \in Request
      /\ fatal \in BOOLEAN /\ ready \in [Workers -> BOOLEAN]
      /\ req[r].pc # "none" => req[r].kind \in Kinds
      /\ req[r].late => fatal /\ req[r].pc \in {"guard", "reply"}
  BY DEF IInv, RangeOK, LateOK, Active
<1>1. CASE Arrive(r)
  <2>1. PICK k \in Kinds :
          req' = [req EXCEPT ![r] = [NoRequest EXCEPT !.pc = "guard", !.kind = k,
                                                      !.late = fatal]]
    BY <1>1 DEF Arrive
  <2> DEFINE q == [pc |-> "guard", kind |-> k, late |-> fatal, seen |-> 0, code |-> 0]
  <2>2. q \in Request /\ q.pc = "guard" /\ q.kind = k /\ (q.late => fatal)
    BY <1>0 DEF Request, Phases
  <2>3. [NoRequest EXCEPT !.pc = "guard", !.kind = k, !.late = fatal] = q
    <3>1. \A f : [[pc |-> "none", kind |-> "none", late |-> f, seen |-> 0, code |-> 0]
                    EXCEPT !.pc = "guard", !.kind = k, !.late = fatal] = q
      <4> TAKE f
      <4>1. [[pc |-> "none", kind |-> "none", late |-> f, seen |-> 0, code |-> 0]
               EXCEPT !.pc = "guard"]
            = [pc |-> "guard", kind |-> "none", late |-> f, seen |-> 0, code |-> 0]
        OBVIOUS
      <4>2. [[pc |-> "guard", kind |-> "none", late |-> f, seen |-> 0, code |-> 0]
               EXCEPT !.kind = k]
            = [pc |-> "guard", kind |-> k, late |-> f, seen |-> 0, code |-> 0]
        OBVIOUS
      <4>3. [[pc |-> "guard", kind |-> k, late |-> f, seen |-> 0, code |-> 0]
               EXCEPT !.late = fatal] = q
        BY <1>0
      <4> QED
        BY <4>1, <4>2, <4>3, Zenon
    <3> QED
      BY <3>1, Zenon DEF NoRequest
  <2>4. Becomes(r, q)
    BY <1>0, <2>1, <2>3 DEF Becomes
  <2> HIDE DEF q
  <2> QED
    BY <1>0, <1>1, <2>2, <2>4, QuietRequest DEF Arrive, statusVars
<1>2. ASSUME NEW c \in {200, 400, 503}, Reply(r, c), req[r].pc \notin {"none", "read"},
             req[r].late => c # 200,
             UNCHANGED <<lockVars, statusVars, dbVars, worker, main>>
      PROVE  IInv'
  <2>1. PICK q \in Request :
          /\ q.pc = "reply" /\ q.kind = req[r].kind /\ q.late = req[r].late
          /\ q.code = c
          /\ Becomes(r, q)
    BY <1>0, <1>2, ReplyFields
  <2>2. q.late => fatal /\ c # 200
    BY <1>0, <1>2, <2>1
  <2> QED
    BY <1>0, <1>2, <2>1, <2>2, QuietRequest DEF statusVars
<1>3. ASSUME NEW l \in {"syncing", "rpc", "lock", "error"}, Go(r, l),
             req[r].pc \notin {"none", "read"}, ~req[r].late,
             UNCHANGED <<lockVars, statusVars, dbVars, worker, main>>
      PROVE  IInv'
  <2>1. PICK q \in Request :
          /\ q.pc = l /\ q.kind = req[r].kind /\ q.late = req[r].late
          /\ Becomes(r, q)
    BY <1>0, <1>3, GoFields DEF Phases
  <2>2. ~q.late
    BY <1>0, <1>3, <2>1
  <2> QED
    BY <1>0, <1>3, <2>1, <2>2, QuietRequest DEF statusVars
<1>4. CASE Guard(r)
  <2>1. CASE \E c \in {200, 400, 503} : Reply(r, c) /\ (fatal => c # 200)
    BY <1>0, <1>2, <1>4, <2>1 DEF Guard
  <2>2. CASE ~fatal /\ req[r].kind # "readyz" /\ Go(r, Endpoint(req[r].kind))
    <3>1. Endpoint(req[r].kind) \in {"lock", "rpc", "syncing"}
      BY <1>0, <1>4, <2>2 DEF Endpoint, Guard
    <3> QED
      BY <1>0, <1>3, <1>4, <2>2, <3>1 DEF Guard
  <2> QED
    BY <1>0, <1>4, <2>1, <2>2 DEF Guard
<1>5. CASE Syncing(r)
  BY <1>0, <1>2, <1>5 DEF Syncing
<1>6. CASE Context(r)
  BY <1>0, <1>2, <1>6 DEF Context
<1>7. CASE LockRead(r)
  <2>1. CASE closed
    BY <1>0, <1>3, <1>7, <2>1 DEF LockRead, lockVars
  <2>2. CASE ~closed
    <3> DEFINE p == [req[r] EXCEPT !.pc = "read"]
    <3> DEFINE q == [p EXCEPT !.seen = version]
    <3>0. version \in 0..1
      BY DEF IInv, RangeOK
    <3>a. p \in Request /\ p.pc = "read" /\ p.kind = req[r].kind /\ p.late = req[r].late
      BY <1>0 DEF Request, Phases
    <3> HIDE DEF p
    <3>1. q \in Request /\ q.pc = "read" /\ q.kind = req[r].kind /\ q.late = req[r].late
          /\ q.seen = version
      BY <1>0, <3>0, <3>a DEF Request
    <3>2. Becomes(r, q)
      <4> DEFINE mid == [req EXCEPT ![r].pc = "read"]
      <4>1. mid = [s \in Requests |-> IF s = r THEN p ELSE req[s]]
        BY <1>0 DEF p
      <4>2. req' = [mid EXCEPT ![r].seen = version]
        BY <1>7, <2>2 DEF LockRead
      <4> HIDE DEF mid
      <4> QED
        BY <4>1, <4>2 DEF Becomes
    <3> HIDE DEF q
    <3>3. ~q.late
      BY <1>0, <1>7, <3>1 DEF LockRead
    <3> USE <1>0, <1>7, <2>2, <3>1, <3>2, <3>3
            DEF LockRead, IInv, Becomes, statusVars, dbVars
    <3>4. RangeOK'
      <4>1. req' \in [Requests -> Request]
        OBVIOUS
      <4>2. \A s \in Requests : Active(s)' => req'[s].kind \in Kinds
        BY DEF RangeOK, Active
      <4> QED
        BY <4>1, <4>2 DEF RangeOK
    <3>5. CommitOK' /\ CloseOK'
      BY DEF CommitOK, CloseOK
    <3>6. ReadersOK'
      BY DEF ReadersOK
    <3>7. LateOK'
      BY DEF LateOK
    <3> QED
      BY <3>4, <3>5, <3>6, <3>7
  <2> QED
    BY <2>1, <2>2
<1>8. CASE Read(r)
  <2>1. PICK q \in Request :
          /\ q.pc \in {"error", "reply"} /\ q.kind = req[r].kind
          /\ q.late = req[r].late
          /\ Becomes(r, q)
    <3>1. CASE Go(r, "error")
      BY <1>0, <3>1, GoFields DEF Phases
    <3>2. CASE Reply(r, 200)
      BY <1>0, <3>2, ReplyFields
    <3> QED
      BY <1>8, <3>1, <3>2 DEF Read
  <2>2. ~q.late
    BY <1>0, <1>8, <2>1 DEF Read
  <2> USE <1>0, <1>8, <2>1, <2>2 DEF Read, IInv, Becomes, statusVars, dbVars
  <2>3. RangeOK'
    <3>1. req' \in [Requests -> Request]
      OBVIOUS
    <3>2. \A s \in Requests : Active(s)' => req'[s].kind \in Kinds
      BY DEF RangeOK, Active
    <3> QED
      BY <3>1, <3>2 DEF RangeOK
  <2>4. CommitOK' /\ CloseOK'
    BY DEF CommitOK, CloseOK
  <2>5. ReadersOK'
    BY DEF ReadersOK
  <2>6. LateOK'
    BY DEF LateOK
  <2> QED
    BY <2>3, <2>4, <2>5, <2>6
<1>9. CASE PublishError(r)
  <2>1. PICK q \in Request :
          /\ q.pc = "reply" /\ q.kind = req[r].kind /\ q.code = 503
          /\ Becomes(r, q)
    BY <1>0, <1>9, ReplyFields DEF PublishError
  <2> QED
    BY <1>0, <1>9, <2>1, QuietRequest DEF PublishError, StatusFree
<1>10. CASE Finish(r)
  <2>1. NoRequest \in Request /\ NoRequest.pc = "none" /\ ~NoRequest.late
    BY DEF NoRequest, Request, Phases
  <2>2. Becomes(r, NoRequest)
    BY <1>0, <1>10 DEF Finish, Becomes
  <2> QED
    BY <1>0, <1>10, <2>1, <2>2, QuietRequest DEF Finish, statusVars
<1> QED
  BY <1>1, <1>4, <1>5, <1>6, <1>7, <1>8, <1>9, <1>10 DEF Handle

------------------------------------------------------------------------------
(* The shutdown, and the theorems. *)

(* Every step of serve and of its caller preserves the invariant: Close waits for  *)
(* the readers, and no worker is left that could hold Store's lock.                *)
LEMMA MainOK == ASSUME IInv, Stop \/ Shutdown PROVE IInv'
<1> USE DEF IInv, lockVars, statusVars, dbVars, MainTo
<1>1. CASE Stop \/ CloseListener \/ Drained \/ DrainTimeout \/ Join
  <2> USE <1>1 DEF Stop, CloseListener, Drained, DrainTimeout, Join
  <2>1. RangeOK'
    BY DEF RangeOK, Active
  <2>2. CommitOK' /\ CloseOK'
    BY DEF CommitOK, CloseOK
  <2>3. ReadersOK' /\ LateOK'
    BY DEF ReadersOK, LateOK
  <2> QED
    BY <2>1, <2>2, <2>3
<1>2. CASE LockClose
  <2> USE <1>2 DEF LockClose
  <2>1. RangeOK'
    BY DEF RangeOK, Active
  <2>2. CommitOK' /\ CloseOK'
    BY DEF CommitOK, CloseOK, RangeOK
  <2>3. ReadersOK' /\ LateOK'
    BY DEF ReadersOK, LateOK
  <2> QED
    BY <2>1, <2>2, <2>3
<1>3. CASE Close
  <2> USE <1>3 DEF Close
  <2>1. RangeOK'
    BY DEF RangeOK, Active
  <2>2. CommitOK' /\ CloseOK'
    BY DEF CommitOK, CloseOK, RangeOK
  <2>3. ReadersOK' /\ LateOK'
    BY DEF ReadersOK, LateOK
  <2> QED
    BY <2>1, <2>2, <2>3
<1> QED
  BY <1>1, <1>2, <1>3 DEF Shutdown

(* The invariant is inductive. *)
LEMMA NextOK == IInv /\ [Next]_vars => IInv'
<1> SUFFICES ASSUME IInv, [Next]_vars PROVE IInv'
  OBVIOUS
<1>1. CASE UNCHANGED vars
  BY <1>1 DEF vars, IInv, RangeOK, Active, CommitOK, ReadersOK, CloseOK, LateOK
<1> QED
  BY <1>1, WorkerOK, RequestOK, MainOK DEF Next, Exited

(* The invariant holds in every reachable state.                                  *)
LEMMA Invariance == Spec => []IInv
BY InitOK, NextOK, PTL DEF Spec

(* The invariant gives the properties. *)
LEMMA Consequences == IInv => TypeOK /\ SnapshotReads /\ HaltedRoutes
<1> SUFFICES ASSUME IInv PROVE TypeOK /\ SnapshotReads /\ HaltedRoutes
  OBVIOUS
<1> USE DEF IInv, At, On
<1>1. TypeOK
  <2>1. status # None => At(status, "lock") \/ At(status, "write")
    BY DEF RangeOK, CommitOK
  <2>2. \A w \in Workers : (writer = w) = At(w, "write")
    BY DEF CommitOK
  <2> QED
    BY <2>1, <2>2 DEF TypeOK, RangeOK, ReadersOK
<1>2. SnapshotReads
  BY DEF SnapshotReads, ReadersOK
<1>3. HaltedRoutes
  BY DEF HaltedRoutes, LateOK
<1> QED
  BY <1>1, <1>2, <1>3

(* The locks of Status and of Store are held by those who are at a place where the *)
(* code holds them, however many requests there are.                               *)
THEOREM TypeCorrect == Spec => []TypeOK
BY Invariance, Consequences, PTL

(* No commit and no Close falls between the two reads of a request under Store's   *)
(* read lock (Get, GetBlock, State).                                               *)
THEOREM Snapshot == Spec => []SnapshotReads
BY Invariance, Consequences, PTL

(* A request that arrives after the fatal error is never answered with data        *)
(* (dataHandler, readiness).                                                       *)
THEOREM Halted == Spec => []HaltedRoutes
BY Invariance, Consequences, PTL

(* The database does not change once the fatal error is published: a writer owns   *)
(* Status, and whoever publishes waits for it (commitIfHealthy, Set).              *)
THEOREM Barrier == Spec => CommitBarrier
<1>1. IInv /\ [Next]_vars => [fatal => version' = version]_vars
  <2> SUFFICES ASSUME IInv, Next, fatal PROVE version' = version
    BY DEF vars
  <2>1. ASSUME NEW w \in Workers, WorkerStep(w) PROVE version' = version
    <3>1. ~Write(w)
      BY DEF Write, At, IInv, CommitOK
    <3> QED
      BY <2>1, <3>1 DEF WorkerStep, StartStep, ReadState, Call, BeginCommit, LockStore,
           Caught, Retry, Halt, Wait, dbVars
  <2>2. ASSUME NEW r \in Requests, Arrive(r) \/ Handle(r) PROVE version' = version
    BY <2>2 DEF Arrive, Handle, Guard, Syncing, Context, LockRead, Read, PublishError,
         Finish, dbVars
  <2>3. ASSUME Stop \/ Shutdown PROVE version' = version
    BY <2>3 DEF Stop, Shutdown, CloseListener, Drained, DrainTimeout, Join, LockClose,
         Close, dbVars
  <2> QED
    BY <2>1, <2>2, <2>3 DEF Next, Exited, vars
<1> QED
  BY <1>1, Invariance, PTL DEF Spec, CommitBarrier
==============================================================================
