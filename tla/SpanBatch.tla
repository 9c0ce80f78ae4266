------------------------------- MODULE SpanBatch -------------------------------
(***************************************************************************)
(* decodeSpan of internal/blob/span.go: the transactions of a span of L2   *)
(* blocks are written field by field, each field of all transactions       *)
(* before the next one, and some fields only for some of them.             *)
(* readTransactions must take as many items for each field as the fields   *)
(* before it imply, and deriveBlocks must walk all of them in step.        *)
(*                                                                         *)
(* A transaction is [id, to, kind, origin]: its target or None (a contract *)
(* creation), "typed", "protected" or "bare" (a legacy transaction with or *)
(* without a chain id), and the L1 origin of a deposit or None.  The other *)
(* fields, which every transaction has, travel with its payload, the id.   *)
(* A stream is a sequence of items [f, x]: a field and its value.          *)
(***************************************************************************)
EXTENDS Integers, Sequences, FiniteSets, SequencesExt

CONSTANTS Transactions, \* the transactions that may occur
          Spans,        \* the spans [start, blocks] that may be sent
          None,
          MaxU64,       \* the largest uint64
          MaxElements   \* maxElements

ASSUME SpanAssumption ==
  /\ MaxU64 \in Nat /\ MaxElements \in Nat
  /\ \A t \in Transactions : t.kind \in {"typed", "protected", "bare"}
  /\ \A s \in Spans : s.start \in 0..MaxU64 /\ s.blocks \in Seq(Seq(Transactions))

VARIABLES span,    \* what was encoded
          stream,  \* the stream, after the block counts
          fields,  \* txFields
          cursor,  \* [tx, to, origin, legacy] of deriveBlocks
          todo,    \* transactions of the current block still to derive
          blocks,  \* the blocks derived so far, the current one last
          stage    \* "idle" between spans, "done" or "error" at the end of one

spanVars == <<span, stream, fields, cursor, todo, blocks, stage>>

-------------------------------------------------------------------------------
(* The encoder of the sequencer: external, in the order decodeSpan reads.  What *)
(* goes where is given by counting, so that it can be reasoned about without     *)
(* recursion.                                                                    *)

\* How many transactions the blocks before block i have.
Offset(B, i) == Cardinality(UNION {{j} \X DOMAIN B[j] : j \in 1..(i - 1)})

\* The transactions of all blocks, in order.
Txs(B) ==
  [p \in 1..Offset(B, Len(B) + 1) |->
     LET i == CHOOSE i \in DOMAIN B : Offset(B, i) < p /\ p <= Offset(B, i + 1)
     IN  B[i][p - Offset(B, i)]]

\* Block i of the span carries timestamp i.
Stamp(i) == i

Payload(t) == [id |-> t.id, legacy |-> t.kind # "typed"]

\* The transactions that have a target, a protected bit, an L1 origin.
Calls(T) == {k \in DOMAIN T : T[k].to # None}
Legacies(T) == {k \in DOMAIN T : T[k].kind # "typed"}
Deposits(T) == {k \in DOMAIN T : T[k].origin # None}

\* How many members of S there are up to k, and the r-th of them.
Rank(S, k) == Cardinality({j \in S : j <= k})
Nth(S, r) == CHOOSE k \in S : Rank(S, k) = r

\* A field of the transactions in S: their values, in order.
Column(f, S, value) == [r \in 1..Cardinality(S) |-> [f |-> f, x |-> value[Nth(S, r)]]]

Encode(B) ==
  LET T == Txs(B)
      All == DOMAIN T
  IN  Column("creation", All, [k \in All |-> T[k].to = None])
      \o Column("to", Calls(T), [k \in All |-> T[k].to])
      \o Column("payload", All, [k \in All |-> Payload(T[k])])
      \o Column("protected", Legacies(T), [k \in All |-> T[k].kind = "protected"])
      \o Column("queue", All, [k \in All |-> T[k].origin # None])
      \o Column("origin", Deposits(T), [k \in All |-> T[k].origin])

\* The stream arrives whole, or its last item is missing, or one is too many.
Streams(B) ==
  LET s == Encode(B)
  IN  {s, Append(s, [f |-> "extra", x |-> None])}
        \cup (IF s = <<>> THEN {} ELSE {Front(s)})

-------------------------------------------------------------------------------
(* decodeSpan: the header and the counts. *)

Count == Len(span.blocks)

Total == Offset(span.blocks, Count + 1)

\* start and count are positive, bounded, and start + count - 1 does not overflow.
RangeOK ==
  /\ span.start # 0 /\ Count # 0 /\ Count <= MaxElements
  /\ Count - 1 <= MaxU64 - span.start

ReadHeader ==
  /\ stage = "header"
  /\ stage' = IF RangeOK /\ Total <= MaxElements THEN "fields" ELSE "error"
  /\ UNCHANGED <<span, stream, fields, cursor, todo, blocks>>

-------------------------------------------------------------------------------
(* readTransactions. *)

\* The next n items of the stream from position at, or what is left of them.
Take(at, n) == SubSeq(stream, at + 1, IF at + n <= Len(stream) THEN at + n ELSE Len(stream))

\* How many items each field has, given the fields read before it.
Layout(n) ==
  LET creation  == Take(0, n)
      tos       == Cardinality({k \in DOMAIN creation : creation[k].x = FALSE})
      payloads  == Take(n + tos, n)
      legacy    == Cardinality({k \in DOMAIN payloads : payloads[k].x.legacy})
      queue     == Take(2 * n + tos + legacy, n)
      origins   == Cardinality({k \in DOMAIN queue : queue[k].x = TRUE})
  IN  [creation |-> creation, to |-> Take(n, tos), payload |-> payloads,
       protected |-> Take(2 * n + tos, legacy), queue |-> queue,
       origin |-> Take(3 * n + tos + legacy, origins),
       length |-> 3 * n + tos + legacy + origins]

\* A truncated stream, or trailing bytes, are an error.
ReadTransactions ==
  /\ stage = "fields"
  /\ LET l == Layout(Total)
     IN  /\ fields' = l
         /\ stage' = IF l.length = Len(stream) THEN "block" ELSE "error"
  /\ UNCHANGED <<span, stream, cursor, todo, blocks>>

-------------------------------------------------------------------------------
(* deriveBlocks; indexes count from 1 here. *)

\* start + i - 1 of block i, counted from 0, in uint64 arithmetic.
Index(i) == (span.start + i - 1) % (MaxU64 + 1)

\* An empty block keeps timestamp zero.
NextBlock ==
  /\ stage = "block"
  /\ todo = 0
  /\ IF Len(blocks) = Count
       THEN stage' = "done" /\ UNCHANGED <<todo, blocks>>
       ELSE LET i == Len(blocks)
            IN  /\ blocks' = Append(blocks, [index |-> Index(i),
                                             time  |-> IF span.blocks[i + 1] = <<>> THEN 0
                                                       ELSE Stamp(i + 1),
                                             txs   |-> <<>>])
                /\ todo' = Len(span.blocks[i + 1])
                /\ stage' = stage
  /\ UNCHANGED <<span, stream, fields, cursor>>

Creates == fields.creation[cursor.tx].x
Legacy == fields.payload[cursor.tx].x.legacy
Queued == fields.queue[cursor.tx].x

\* restoreTransaction.
Restored(protected) ==
  IF ~Legacy THEN "typed" ELSE IF protected THEN "protected" ELSE "bare"

ToByTx ==                                                        \* fault
  [tx |-> cursor.tx + 1, to |-> cursor.to + 1,
   legacy |-> cursor.legacy + (IF Legacy THEN 1 ELSE 0),
   origin |-> cursor.origin + (IF Queued THEN 1 ELSE 0)]

\* A cursor moves when its field has an item for this transaction.
Advanced ==
  [tx |-> cursor.tx + 1, to |-> cursor.to + (IF Creates THEN 0 ELSE 1),
   legacy |-> cursor.legacy + (IF Legacy THEN 1 ELSE 0),
   origin |-> cursor.origin + (IF Queued THEN 1 ELSE 0)]

InRange ==
  /\ ~Creates => cursor.to \in DOMAIN fields.to
  /\ Legacy => cursor.legacy \in DOMAIN fields.protected
  /\ Queued => cursor.origin \in DOMAIN fields.origin

\* The entry of a transaction: a deposit names its L1 origin and keeps nothing of
\* the target or the signature, any other is kept as it was signed.
Deposit(id, origin) == [queue |-> "l1", id |-> id, origin |-> origin]
Sequenced(id, to, kind) == [queue |-> "sequencer", id |-> id, to |-> to, kind |-> kind]

Derived ==
  LET id == fields.payload[cursor.tx].x.id
  IN  IF Queued
        THEN Deposit(id, fields.origin[cursor.origin].x)
        ELSE Sequenced(id, IF Creates THEN None ELSE fields.to[cursor.to].x,
                       Restored(IF Legacy THEN fields.protected[cursor.legacy].x ELSE TRUE))

DeriveTransaction ==
  /\ stage = "block"
  /\ todo > 0
  /\ InRange
  /\ blocks' = [blocks EXCEPT ![Len(blocks)].txs = Append(@, Derived)]
  /\ todo' = todo - 1
  /\ cursor' = Advanced
  /\ UNCHANGED <<span, stream, fields, stage>>

\* A payload that does not decode, or a sequencer signature that does not recover.
InvalidTransaction ==
  /\ stage = "block"
  /\ todo > 0
  /\ stage' = "error"
  /\ UNCHANGED <<span, stream, fields, cursor, todo, blocks>>

NoSpan == [start |-> 0, blocks |-> <<>>]

Clear ==
  /\ span' = NoSpan /\ stream' = <<>>
  /\ fields' = <<>>
  /\ cursor' = [tx |-> 1, to |-> 1, origin |-> 1, legacy |-> 1]
  /\ todo' = 0
  /\ blocks' = <<>>
  /\ stage' = "idle"

SpanInit ==
  /\ span = NoSpan /\ stream = <<>>
  /\ fields = <<>>
  /\ cursor = [tx |-> 1, to |-> 1, origin |-> 1, legacy |-> 1]
  /\ todo = 0
  /\ blocks = <<>>
  /\ stage = "idle"

\* decodeSpan is given the bytes of a span.
ReceiveSpan ==
  /\ stage = "idle"
  /\ span' \in Spans
  /\ stream' \in Streams(span'.blocks)
  /\ stage' = "header"
  /\ UNCHANGED <<fields, cursor, todo, blocks>>

SpanNext == ReadHeader \/ ReadTransactions \/ NextBlock \/ DeriveTransaction
            \/ InvalidTransaction

-------------------------------------------------------------------------------
Entry(t) ==
  IF t.origin # None THEN Deposit(t.id, t.origin) ELSE Sequenced(t.id, t.to, t.kind)

\* No lookup of deriveBlocks is out of range, and at the end every item of every
\* field has been used once.
CursorsAligned ==
  /\ stage = "block" /\ todo > 0 => InRange
  /\ stage = "done" => /\ cursor.tx = Len(fields.payload) + 1
                       /\ cursor.to = Len(fields.to) + 1
                       /\ cursor.legacy = Len(fields.protected) + 1
                       /\ cursor.origin = Len(fields.origin) + 1

\* The L2 block numbers of a span follow one another from start - 1, without
\* wrapping around.
IndexesRise ==
  \A i \in DOMAIN blocks : blocks[i].index = span.start + i - 2

\* What a complete decoding returns is what was encoded: every block has its own
\* transactions, in order, each with its own target, origin and signature kind
\* although these are stored apart, and its own time if it is not empty; and the
\* stream had no missing and no superfluous item; on the way no lookup is out of
\* range and no block number wraps around (decodeSpan and deriveBlocks).
RoundTrip ==
  /\ CursorsAligned
  /\ IndexesRise
  /\ stage = "done" =>
       /\ stream = Encode(span.blocks)
       /\ Len(blocks) = Len(span.blocks)
       /\ \A i \in DOMAIN blocks :
            LET B == span.blocks[i]
            IN  /\ blocks[i].txs = [k \in DOMAIN B |-> Entry(B[k])]
                /\ B # <<>> => blocks[i].time = Stamp(i)
===============================================================================
