-------------------------------- MODULE Status --------------------------------
(***************************************************************************)
(* The service-wide status of internal/ingest/status.go as the deposit     *)
(* worker, the Blob worker and the HTTP handlers share it: whether the     *)
(* deposit index has caught up, and the first fatal error, after which     *)
(* nothing is committed until the process is restarted.                    *)
(***************************************************************************)
VARIABLES ready,   \* Status.ready
          fatal    \* Status.fatal # nil

statusVars == <<ready, fatal>>

StatusInit == ready = FALSE /\ fatal = FALSE

SetKeepsReady(r, err) ==                                      \* fault
  /\ fatal' = (fatal \/ err)
  /\ ready' = (r \/ ready)

\* Set(ready, err): the first error stays, and an error excludes readiness.
Set(r, err) ==
  /\ fatal' = (fatal \/ err)
  /\ ready' = (r /\ ~fatal')

AlwaysHealthy == TRUE                                         \* fault

\* commitIfHealthy runs its callback, under the lock, only without an error.
Healthy == ~fatal
===============================================================================
