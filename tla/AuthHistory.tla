----------------------------- MODULE AuthHistory -----------------------------
(***************************************************************************)
(* Who may submit to the Inbox: the authorization of                       *)
(* internal/blobingest/auth.go as a function of L1 logs.                   *)
(*                                                                         *)
(* A log is [at, e, tx, idx, kind, manager, old, role, from, sender]:      *)
(* block number and fork, its position in the block, and either            *)
(* AddressManager's AddressSet("Proxy__MVM_InboxSenderManager"), kind      *)
(* "name", that replaces old by manager, or a manager's InboxSenderSet,    *)
(* kind "grant", that makes sender the one for a role ("batch" or "blob")  *)
(* from a block height on.  ABI and topics are taken as decoded.           *)
(*                                                                         *)
(* An authorization is [manager, known, table]: the active manager, the    *)
(* managers with a schedule, and the entries of all schedules.             *)
(***************************************************************************)
EXTENDS Integers

CONSTANT NoAddr  \* the zero address

\* positionLess.
Precedes(k, l) == \/ k.at < l.at
                  \/ k.at = l.at /\ k.tx < l.tx
                  \/ k.at = l.at /\ k.tx = l.tx /\ k.idx < l.idx

Names(logs) == {l \in logs : l.kind = "name"}

Grants(logs, managers) == {l \in logs : l.kind = "grant" /\ l.manager \in managers}

Newest(logs) == CHOOSE l \in logs : \A k \in logs : k = l \/ Precedes(k, l)

NewAuthorization == [manager |-> NoAddr, known |-> {}, table |-> {}]

-------------------------------------------------------------------------------
(* apply, over a set of logs in orderedLogs' order. *)

ManagerAfter(m, logs) ==
  IF Names(logs) = {} THEN m ELSE Newest(Names(logs)).manager

\* Every change of the manager names the one it replaces.
Linked(m, logs) ==
  \A l \in Names(logs) : l.old = ManagerAfter(m, {k \in logs : Precedes(k, l)})

SameSlot(x, y) == x.manager = y.manager /\ x.role = y.role /\ x.from = y.from

Entry(l) == [manager |-> l.manager, role |-> l.role, from |-> l.from,
             sender |-> l.sender]

\* A later grant of the same manager, role and height replaces an earlier one.
Overwrite(table, grants) ==
  {x \in table : \A g \in grants : ~SameSlot(x, g)}
    \cup {Entry(l) : l \in {g \in grants : g = Newest({k \in grants : SameSlot(k, g)})}}

Apply(a, logs) ==
  [manager |-> ManagerAfter(a.manager, logs),
   known   |-> a.known,
   table   |-> Overwrite(a.table, {l \in logs : l.kind = "grant"})]

\* apply refuses a broken manager history and a grant of an unknown manager.
Applies(a, logs) ==
  /\ Linked(a.manager, logs)
  /\ \A l \in logs : l.kind = "grant" => l.manager \in a.known

\* decodeAuth, which every stored or cloned authorisation goes through.
Decodes(a) ==
  /\ NoAddr \notin a.known
  /\ a.manager = NoAddr \/ a.manager \in a.known
  /\ \A x \in a.table : x.manager \in a.known /\ x.sender # NoAddr

-------------------------------------------------------------------------------
(* sender: the entry of the active manager with the highest effective height. *)

InForce(a, role, h) ==
  {x \in a.table : x.manager = a.manager /\ x.role = role /\ x.from <= h}

AnyInForce(a, role, h, fallback) ==                              \* fault
  LET S == {x \in a.table : x.manager = a.manager /\ x.role = role}
  IN  IF S = {} THEN fallback
      ELSE (CHOOSE x \in S : \A y \in S : y.from <= x.from).sender

SenderAt(a, role, h, fallback) ==
  LET S == InForce(a, role, h)
  IN  IF S = {} THEN fallback
      ELSE (CHOOSE x \in S : \A y \in S : y.from <= x.from).sender
===============================================================================
