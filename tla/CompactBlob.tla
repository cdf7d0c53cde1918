---------------------------- MODULE CompactBlob -----------------------------
(***************************************************************************)
(* compact_blob_sql (sample.rs): the demo hive as a SQL expression,        *)
(* unhex('..' || repeat('00', n) || '..')::BLOB.  The expression is the    *)
(* sequence of its operands, each a hex literal or a repeat of zero bytes. *)
(***************************************************************************)
EXTENDS ByteText

CONSTANTS ZERO_RUN_MIN   \* the shortest run of zeros that is folded: 32

ASSUME RunAssumption == ZERO_RUN_MIN \in Nat \ {0}

Literal(text) == [op |-> "literal", text |-> text, count |-> 0]
Repeat(n)     == [op |-> "repeat", text |-> <<>>, count |-> n]

\* bytes[i..].iter().take_while(|b| b == 0).count()
ZeroRun(bytes, i) ==
    Max({n \in 0..(Len(bytes) + 1 - i) : \A k \in i..(i + n - 1) : bytes[k] = 0})

\* The literal collected so far becomes an operand, unless it is empty.
Flush(acc) == IF acc.lit = <<>> THEN acc.parts ELSE Append(acc.parts, Literal(acc.lit))

\* Mutant: the literal before a run is not flushed.
RenderByteNoFlush(bytes, acc, i) ==
    LET run == ZeroRun(bytes, i)
    IN  IF i < acc.next THEN acc
        ELSE IF run >= ZERO_RUN_MIN
        THEN [next |-> i + run, parts |-> Append(acc.parts, Repeat(run)), lit |-> acc.lit]
        ELSE [next |-> i + 1, parts |-> acc.parts, lit |-> acc.lit \o HexByte(bytes[i])]

\* The body of the loop at offset i; offsets inside a folded run are jumped.
RenderByte(bytes, acc, i) ==
    LET run == ZeroRun(bytes, i)
    IN  IF i < acc.next THEN acc
        ELSE IF run >= ZERO_RUN_MIN
        THEN [next |-> i + run, parts |-> Append(Flush(acc), Repeat(run)), lit |-> <<>>]
        ELSE [next |-> i + 1, parts |-> acc.parts, lit |-> acc.lit \o HexByte(bytes[i])]

CompactBlobSql(bytes) ==
    LET acc   == FoldLeft(LAMBDA a, i : RenderByte(bytes, a, i),
                          [next |-> 1, parts |-> <<>>, lit |-> <<>>],
                          [i \in 1..Len(bytes) |-> i])
        parts == Flush(acc)
    IN  IF parts = <<>> THEN <<Literal(<<>>)>> ELSE parts

\* What the database makes of the expression.
EvalSql(parts) ==
    Unhex(FlattenSeq([i \in DOMAIN parts |->
        IF parts[i].op = "literal" THEN parts[i].text
        ELSE [k \in 1..(2 * parts[i].count) |-> 0]]))
=============================================================================
