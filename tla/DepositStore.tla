----------------------------- MODULE DepositStore -----------------------------
(***************************************************************************)
(* The deposit half of internal/store: the enqueue/ records and the        *)
(* meta/state checkpoint in one Pebble database, and Store.Commit, which   *)
(* extends both in one synced batch.                                       *)
(*                                                                         *)
(* Commit holds the store's lock from the checkpoint comparison to the     *)
(* batch commit, so nothing reads or writes db and state while batch is    *)
(* open; the records are staged one by one because each is compared with   *)
(* what the batch already holds, and because the process may stop between  *)
(* any two of them.                                                        *)
(***************************************************************************)
EXTENDS Integers

CONSTANT MaxIndex     \* the largest queue index, 2^64-1 in the code

ASSUME MaxIndexAssumption == MaxIndex \in Nat

VARIABLES db,         \* enqueue/ keys: queue index -> record
          state,      \* meta/state: [height, hash, ctc, latest]
          batch       \* the indexed batch of a Commit in progress

storeVars == <<db, state, batch>>

Nil == -1             \* a nil *uint64
NoHash == <<>>        \* the zero hash

\* The checkpoint of an empty database: nothing scanned, no deposit stored.
NoState(zero) == [height |-> Nil, hash |-> NoHash, ctc |-> zero, latest |-> Nil]

NoBatch == [open |-> FALSE, db |-> <<>>, latest |-> Nil]

StoreInit(zero) ==
  /\ db = [i \in {} |-> <<>>]
  /\ state = NoState(zero)
  /\ batch = NoBatch

-------------------------------------------------------------------------------
(* Commit's loop body, on a batch b and the next record r. *)

Duplicate(b, r) == r.idx \in DOMAIN b.db /\ b.db[r.idx] = r

AnyIndex(b, r) == TRUE                                       \* fault

\* The next free index; after the largest one there is none.
Expected(b, r) == b.latest # MaxIndex /\ r.idx = b.latest + 1

AcceptsAgain(b, r) == r.idx <= b.latest + 1                  \* fault

\* A stored index with another record is a conflict.
Accepts(b, r) == r.idx \notin DOMAIN b.db /\ Expected(b, r)

Staged(b, r) ==
  [b EXCEPT !.db = [i \in DOMAIN b.db \cup {r.idx} |->
                      IF i = r.idx THEN r ELSE b.db[i]],
            !.latest = r.idx]

-------------------------------------------------------------------------------
NotStale(before) == state = before

BeginCommit(before) ==
  /\ ~batch.open
  /\ NotStale(before)
  /\ batch' = [open |-> TRUE, db |-> db, latest |-> before.latest]
  /\ UNCHANGED <<db, state>>

Stage(r) ==
  /\ batch.open
  /\ Duplicate(batch, r) \/ Accepts(batch, r)
  /\ batch' = IF Duplicate(batch, r) THEN batch ELSE Staged(batch, r)
  /\ UNCHANGED <<db, state>>

\* An error closes the batch and leaves the database as it was.
Discard ==
  /\ batch' = NoBatch
  /\ UNCHANGED <<db, state>>

Rejected(r) ==
  /\ batch.open
  /\ ~Duplicate(batch, r)
  /\ ~Accepts(batch, r)
  /\ Discard

\* batch.Commit(pebble.Sync): records and checkpoint together.
Apply(height, hash, ctc) ==
  /\ batch.open
  /\ db' = batch.db
  /\ state' = [height |-> height, hash |-> hash, ctc |-> ctc,
               latest |-> batch.latest]
  /\ batch' = NoBatch

-------------------------------------------------------------------------------
(* Get and readEnqueue.  Get holds the read lock over both of its reads, so   *)
(* it never sees a batch in progress.                                        *)

NoEnqueue == [idx |-> Nil]    \* the answer with null fields
Missing == [idx |-> -2]       \* ErrIntegrity: missing committed enqueue

ReadEnqueue(index) ==
  LET i == IF index = Nil THEN state.latest ELSE index
  IN  IF i \in DOMAIN db THEN db[i]
      ELSE IF i # Nil /\ i <= state.latest THEN Missing ELSE NoEnqueue
===============================================================================
