-------------------------- MODULE MCChannelDecoding --------------------------
(***************************************************************************)
(* Frames with three numbers, two lengths and two Blob transactions; up to *)
(* two spans of up to three blocks with at most two transactions of every  *)
(* kind, at the lowest and at the highest block numbers.                   *)
(***************************************************************************)
EXTENDS ChannelDecoding

CONSTANT MaxTxs  \* bound: transactions of a span

MCTime == [s \in {"a", "b"} |-> IF s = "a" THEN 1 ELSE 2]

MCFrames == [n : 0..2, last : BOOLEAN, len : 1..2, src : {"a", "b"}]

\* The k-th transaction of a span: targets and origins tell transactions apart.
Tx(k) == [id : {k}, to : {None, k}, kind : {"typed", "protected", "bare"}, origin : {None, k}]

MCTransactions == UNION {Tx(k) : k \in 1..MaxTxs}

TxSeqs(n) == {T \in [1..n -> UNION {Tx(k) : k \in 1..n}] : \A k \in 1..n : T[k] \in Tx(k)}

\* T cut into blocks at positions a and b.
Cut(T, a, b) == <<SubSeq(T, 1, a), SubSeq(T, a + 1, b), SubSeq(T, b + 1, Len(T))>>

MCBlocks ==
  {<<>>} \cup {<<T>> : T \in TxSeqs(1)}
    \cup UNION {{Cut(T, c[1], c[2]) : c \in {d \in (0..n) \X (0..n) : d[1] <= d[2]}, T \in TxSeqs(n)} :
                n \in 0..MaxTxs}

MCSpans == [start : {0, 1} \cup (MaxU64 - 2)..MaxU64, blocks : MCBlocks]

\* The encoder writes the transactions of the blocks one after another, and of a
\* field the values of those that have it.
ASSUME EncoderAssumption ==
  \A B \in MCBlocks :
    /\ Txs(B) = FlattenSeq(B)
    /\ LET T == Txs(B)
           HasTarget(t) == t.to # None
           calls == SelectSeq(T, HasTarget)
       IN  Column("to", Calls(T), [k \in DOMAIN T |-> T[k].to])
             = [k \in DOMAIN calls |-> [f |-> "to", x |-> calls[k].to]]

MCCommitments == [prev : {0, 1, MaxU64 - 1}, size : {1, 2, MaxU64}]
==============================================================================
