---------------------------- MODULE ChannelDecoding ----------------------------
(***************************************************************************)
(* decodeReadyChannel and decodeChannel of internal/blob: the frames of a  *)
(* channel are collected (ChannelInput), the assembled data is             *)
(* decompressed into a list of spans, each of which is decoded             *)
(* (SpanBatch), and the blocks of all of them must lie in the range that   *)
(* the Inbox submission commits to.                                        *)
(*                                                                         *)
(* What the data contains does not depend on how it was cut into frames:   *)
(* any list of spans may come out.  Of a decoded span, the channel record  *)
(* keeps the block numbers.                                                *)
(***************************************************************************)
EXTENDS ChannelInput, SpanBatch

CONSTANTS Commitments,  \* [prev, size] of the submission: PrevTotalElements and Size
          MaxSpans      \* bound: spans in a channel

ASSUME DecodingAssumption ==
  /\ \A c \in Commitments : {c.prev, c.size} \subseteq 0..MaxU64
  /\ MaxSpans \in Nat

VARIABLES at,          \* "input", "spans", "returned" or "refused"
          indexes,     \* the block numbers of the spans decoded so far
          spans,       \* how many spans that were
          commitment   \* the one the blocks were compared with

decodingVars == <<indexes, spans, commitment>>
vars == <<channelVars, spanVars, at, decodingVars>>

NoCommitment == [prev |-> 0, size |-> 0]

-------------------------------------------------------------------------------
CollectFrames ==
  /\ at = "input"
  /\ ChannelNext
  /\ UNCHANGED <<spanVars, at, decodingVars>>

\* Only the data of the frames is used from here on.
OpenChannel ==
  /\ at = "input"
  /\ result = "whole"
  /\ at' = "spans"
  /\ result' = "taken"
  /\ left' = {} /\ added' = {} /\ frames' = {} /\ end' = Nil /\ size' = 0
  /\ UNCHANGED <<spanVars, decodingVars>>

\* The next element of the RLP stream.
NextSpan ==
  /\ at = "spans"
  /\ spans < MaxSpans
  /\ ReceiveSpan
  /\ spans' = spans + 1
  /\ UNCHANGED <<channelVars, at, indexes, commitment>>

DecodeSpan ==
  /\ at = "spans"
  /\ SpanNext
  /\ UNCHANGED <<channelVars, at, decodingVars>>

TakeBlocks ==
  /\ at = "spans"
  /\ stage = "done"
  /\ indexes' = indexes \o [i \in DOMAIN blocks |-> blocks[i].index]
  /\ Clear
  /\ UNCHANGED <<channelVars, at, spans, commitment>>

\* Empty, oversized or malformed data, a batch of another type, or a span that
\* does not decode: an integrity error of the whole scan.
RefuseData ==
  /\ at = "spans"
  /\ stage \in {"idle", "error"}
  /\ at' = "refused"
  /\ Clear
  /\ UNCHANGED <<channelVars, decodingVars>>

CoversModulo(c, i) == c.prev <= i /\ i < (c.prev + c.size) % (MaxU64 + 1)   \* fault

\* Block i is one of the c.size blocks from c.prev, in uint64 arithmetic.
Covers(c, i) == c.prev <= i /\ i - c.prev < c.size

\* The end of the stream.
CompareWithCommitment ==
  /\ at = "spans"
  /\ stage = "idle"
  /\ \E c \in Commitments :
       /\ commitment' = c
       /\ at' = IF indexes # <<>> /\ \A k \in DOMAIN indexes : Covers(c, indexes[k])
                THEN "returned" ELSE "refused"
  /\ UNCHANGED <<channelVars, spanVars, indexes, spans>>

Init ==
  /\ ChannelInit
  /\ SpanInit
  /\ at = "input"
  /\ indexes = <<>>
  /\ spans = 0
  /\ commitment = NoCommitment

\* The channel, nothing, or an error has been returned.
Over ==
  /\ at \in {"returned", "refused"} \/ result \in {"partial", "error"}
  /\ UNCHANGED vars

Next == CollectFrames \/ OpenChannel \/ NextSpan \/ DecodeSpan \/ TakeBlocks
        \/ RefuseData \/ CompareWithCommitment \/ Over

Spec == Init /\ [][Next]_vars

-------------------------------------------------------------------------------
\* A channel is refused for a block outside its commitment only if it has one, and
\* is returned only if it has none: the comparison is exact up to the last uint64,
\* where the end of the commitment itself is no uint64 (decodeReadyChannel).
InsideCommitment ==
  commitment # NoCommitment /\ indexes # <<>> =>
    (at = "returned") =
      (\A k \in DOMAIN indexes : indexes[k] \in commitment.prev..(commitment.prev + commitment.size - 1))
===============================================================================
