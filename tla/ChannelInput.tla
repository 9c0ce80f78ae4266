----------------------------- MODULE ChannelInput -----------------------------
(***************************************************************************)
(* DecodeChannels of internal/blob/frames.go for one channel id of one     *)
(* Inbox submission: the frames are added in the order of the referenced   *)
(* Blob transactions, which is the submitter's choice, and the channel is  *)
(* assembled at the end if it is closed and complete.  Channels of other   *)
(* ids share nothing with it.                                              *)
(*                                                                         *)
(* A frame is [n, last, len, src]: its number, whether it closes the       *)
(* channel, the length of its data and the Blob transaction it came in,    *)
(* whose timestamp is Time[src].                                           *)
(***************************************************************************)
EXTENDS Integers, FiniteSets, FiniteSetsExt

CONSTANTS Frames,    \* the frames that may occur
          Time,      \* Blob transaction -> timestamp
          MaxBytes,  \* MaxChannelBytes
          MaxInput   \* bound: frames of one input

ASSUME ChannelAssumption ==
  /\ \A f \in Frames : /\ f.n \in Nat /\ f.last \in BOOLEAN
                       /\ f.len \in Nat /\ f.src \in DOMAIN Time
  /\ \A s \in DOMAIN Time : Time[s] \in Nat
  /\ MaxBytes \in Nat
  /\ MaxInput \in Nat

VARIABLES left,    \* the frames still to be added
          added,   \* the frames given to add so far
          frames,  \* channelInput.frames
          end,     \* channelInput.end
          size,    \* channelInput.size
          result   \* "adding", "error", "partial", "whole", or "taken" by decodeChannel

channelVars == <<left, added, frames, end, size, result>>

Nil == -1

\* The data of frames, byte by byte.
Data(F) == UNION {{f} \X (1..f.len) : f \in F}

Bytes(F) == Cardinality(Data(F))

-------------------------------------------------------------------------------
(* add. *)

Duplicate(f) == \E g \in frames : g.n = f.n

AfterClose(f) == end # Nil                                       \* fault

\* A second closing frame, or a frame at or beyond the end.
PastEnd(f) == end # Nil /\ (f.last \/ f.n >= end)

\* What a closing frame drops of the frames before it.
Dropped(f) == IF f.last THEN {g \in frames : g.n > f.n} ELSE {}

SizeKeepsDropped(f) == size + f.len                              \* fault

SizeAfter(f) == size - Bytes(Dropped(f)) + f.len

Acceptable(f) == ~Duplicate(f) /\ ~PastEnd(f) /\ SizeAfter(f) <= MaxBytes

Add(f) ==
  /\ result = "adding"
  /\ f \in left
  /\ Acceptable(f)
  /\ left' = left \ {f}
  /\ added' = added \cup {f}
  /\ frames' = (frames \ Dropped(f)) \cup {f}
  /\ end' = IF f.last THEN f.n ELSE end
  /\ size' = SizeAfter(f)
  /\ UNCHANGED result

\* An error of add is an integrity error of the whole scan.
Refuse(f) ==
  /\ result = "adding"
  /\ f \in left
  /\ ~Acceptable(f)
  /\ result' = "error"
  /\ UNCHANGED <<left, added, frames, end, size>>

-------------------------------------------------------------------------------
(* decodeReadyChannel. *)

Ready == end # Nil /\ Cardinality(frames) = end + 1

Frame(n) == CHOOSE f \in frames : f.n = n

AssembledNewest ==                                               \* fault
  [parts   |-> [n \in 0..end |-> Frame(n)],
   bytes   |-> size,
   sources |-> {Frame(n).src : n \in 0..end},
   expires |-> Max({Time[Frame(n).src] : n \in 0..end})]

\* The channel that is returned: its data in order, the Blobs it came from.
Assembled ==
  [parts   |-> [n \in 0..end |-> Frame(n)],
   bytes   |-> size,
   sources |-> {Frame(n).src : n \in 0..end},
   expires |-> Min({Time[Frame(n).src] : n \in 0..end})]

Decode ==
  /\ result = "adding"
  /\ left = {}
  /\ result' = IF ~Ready THEN "partial"
               ELSE IF \E n \in 0..end : \A f \in frames : f.n # n THEN "error"
               ELSE "whole"
  /\ UNCHANGED <<left, added, frames, end, size>>

ChannelInit ==
  /\ left \in {F \in SUBSET Frames : IsFiniteSet(F) /\ Cardinality(F) <= MaxInput}
  /\ added = {}
  /\ frames = {}
  /\ end = Nil
  /\ size = 0
  /\ result = "adding"

ChannelNext == (\E f \in Frames : Add(f) \/ Refuse(f)) \/ Decode

-------------------------------------------------------------------------------
(* The reference: a function of the set of frames, whatever their order. *)

Closing(F) == {f \in F : f.last}

\* The frames up to the closing one, or all of them.
Kept(F) == {f \in F : \A c \in Closing(F) : f.n <= c.n}

\* What add keeps does not depend on the order of the frames: it is the part of
\* them that the closing frame delimits, without two of one number, and the size
\* counts exactly the kept data, dropped frames included in neither, and is bounded.
KeepsByContent ==
  /\ frames = Kept(added)
  /\ Cardinality(Closing(added)) <= 1
  /\ \A f, g \in frames : f.n = g.n => f = g
  /\ end = (IF Closing(added) = {} THEN Nil ELSE (CHOOSE f \in Closing(added) : TRUE).n)
  /\ size = Bytes(frames) /\ size <= MaxBytes

\* An assembled channel consists of one frame for each number up to the end, so
\* the gap that decodeReadyChannel guards against cannot occur; it expires with the
\* oldest Blob it needs, and with no other.
AssembledWhole ==
  result = "whole" =>
    /\ {Assembled.parts[n] : n \in 0..end} = Kept(added)
    /\ \A n \in 0..end : Assembled.parts[n].n = n
    /\ Assembled.bytes = Bytes(Kept(added))
    /\ Assembled.sources = {f.src : f \in Kept(added)}
    /\ \A f \in Kept(added) : Assembled.expires <= Time[f.src]

Proper(F) ==
  /\ \A f, g \in F : f.n = g.n => f = g
  /\ \A c \in Closing(F) : \A f \in F : f.n <= c.n
  /\ Bytes(F) <= MaxBytes

\* Frames that are distinct, fit, and lie within the channel they close are accepted
\* in every order, and they assemble exactly when none is missing.
ProperAccepted ==
  Proper(left \cup added) =>
    /\ result # "error"
    /\ result = "partial" =>
         (\A c \in Closing(added) : \E n \in 0..c.n : \A f \in added : f.n # n)
===============================================================================
