------------------------------ MODULE MCAuthSync ------------------------------
(***************************************************************************)
(* A small instance of AuthSync: managers mgr1 and mgr2, the configured    *)
(* sender snd1 and another one, snd2.  A manager speaks before it is       *)
(* named, a block names it between two submissions, a second manager       *)
(* replaces it and is removed.  With Start = 3 and BatchSize = 2 the       *)
(* bootstrap, a backfill and a window all have several pages or blocks.    *)
(***************************************************************************)
EXTENDS AuthSync

CONSTANTS mgr1, mgr2, snd1, snd2

Name(tx, new, old) ==
  [tx |-> tx, idx |-> tx, kind |-> "name", manager |-> new, old |-> old,
   role |-> "batch", from |-> 0, sender |-> NoAddr]

Grant(tx, manager, role, from, sender) ==
  [tx |-> tx, idx |-> tx, kind |-> "grant", manager |-> manager, old |-> NoAddr,
   role |-> role, from |-> from, sender |-> sender]

Sub(tx, sender) == [tx |-> tx, sender |-> sender]

\* mgr1 and mgr2 make snd2 the batch sender, unnamed.
Speak == [logs |-> {Grant(0, mgr1, "batch", 0, snd2), Grant(2, mgr2, "batch", 0, snd2)},
          subs |-> {Sub(1, snd1)}]

\* mgr1 is named between submissions of both senders, and changes its mind.
Appoint == [logs |-> {Name(1, mgr1, NoAddr), Grant(3, mgr1, "batch", 3, snd1),
                      Grant(4, mgr1, "blob", 0, snd2)},
            subs |-> {Sub(0, snd1), Sub(2, snd2), Sub(5, snd2)}]

\* mgr2, which has spoken in the same block, replaces mgr1.
Replace == [logs |-> {Grant(0, mgr2, "batch", 0, snd1), Name(1, mgr2, mgr1)},
            subs |-> {Sub(2, snd1), Sub(3, snd2)}]

\* The manager is removed.
Remove == [logs |-> {Name(0, NoAddr, mgr2)}, subs |-> {Sub(1, snd1)}]

MCBodies == {Speak, Appoint, Replace, Remove}
===============================================================================
