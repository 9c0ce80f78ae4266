------------------------------ MODULE BlobWindow ------------------------------
(***************************************************************************)
(* What the Blob worker promises about the channels it keeps, with neither *)
(* calls, failures nor restarts: a window of channels over one chain that  *)
(* grows at the head and loses at the tail exactly what has expired.       *)
(***************************************************************************)
EXTENDS Integers

VARIABLES height,  \* the last scanned block, -1 before the first scan
          block,   \* its hash: the chain up to it
          cutoff,  \* channels with a source older than this are gone
          kept     \* the channels, with their expires and numbers

vars == <<height, block, cutoff, kept>>

Init == height = -1 /\ block = <<>> /\ cutoff = 0 /\ kept = {}

\* The cutoff moves: exactly the channels behind it go.
Expire ==
  /\ cutoff' > cutoff
  /\ kept' = {r \in kept : r.expires >= cutoff'}
  /\ UNCHANGED <<height, block>>

\* A descendant of the scanned block is scanned: nothing kept is lost, and what
\* is new has not expired.
Extend ==
  /\ height' > height
  /\ DOMAIN block' = 0..height'
  /\ \A k \in 0..height : block'[k] = block[k]
  /\ kept \subseteq kept'
  /\ \A r \in kept' \ kept : r.expires >= cutoff
  /\ UNCHANGED cutoff

Next == Expire \/ Extend

Spec == Init /\ [][Next]_vars
===============================================================================
