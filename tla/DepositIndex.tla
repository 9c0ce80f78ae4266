----------------------------- MODULE DepositIndex -----------------------------
(***************************************************************************)
(* What the deposit service promises its readers: at every moment it       *)
(* serves the deposits of one L1 block's ancestry, all of them and nothing *)
(* else, and it only ever moves on to a descendant of that block.          *)
(***************************************************************************)
EXTENDS CtcHistory

CONSTANTS Start,    \* first block whose deposits count
          NoAddr    \* the zero address

VARIABLES height,   \* number of the indexed block, or -1
          block,    \* the indexed block: the chain up to it
          ctc,      \* the CTC in force after it
          index     \* the deposits served

vars == <<height, block, ctc, index>>

Init ==
  /\ height = -1
  /\ block = <<>>
  /\ ctc = NoAddr
  /\ index = {}

\* Move to a later block on the same chain.
Advance ==
  /\ height' > height
  /\ DOMAIN block' = 0..height'
  /\ height >= 0 => Upto(block', height) = block
  /\ ctc' = block'[height'].out
  /\ index' = Deposits(block', Start, height')

Spec == Init /\ [][Advance]_vars
===============================================================================
