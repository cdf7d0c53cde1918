-------------------------- MODULE MCByteRendering ---------------------------
(* The renderings of small byte strings, for TLC: digits of base 2, so that  *)
(* a byte is 0..3, a unit 0..15 and a 64-bit integer has 16 bits.            *)
EXTENDS ValueCoerce, CompactBlob

MCHigh == 4..7
MCLow  == 8..11

SeqsUpTo(S, n) == UNION {[1..m -> S] : m \in 0..n}

UnitBytes(us) ==
    FlattenSeq([i \in DOMAIN us |-> <<us[i] % ByteBase, us[i] \div ByteBase>>])

\* Up to five units of NUL, a letter and the two kinds of surrogate; up to
\* three with a newline and U+FFFD among them; with and without an odd byte.
MCTexts ==
    {UnitBytes(us) \o tail :
        us \in SeqsUpTo({0, 1, 4, 9}, 5) \cup SeqsUpTo({0, 1, 2, 4, 9, 15}, 3),
        tail \in {<<>>, <<1>>}}

\* Around the widths 4 and 8, with every pattern of zeros.
MCNumbers == SeqsUpTo({0, 3}, 9) \cup SeqsUpTo({0, 1, 2}, 5)

Cell(t, b, n) == [type_raw |-> t, bytes |-> b, name |-> n]

\* Codes of every branch, a code without a name, and codes with high bits.
MCValueCell ==
    {Cell(t, <<b>>, "") : t \in {1, 7, 4103}, b \in MCTexts}
    \cup {Cell(t, <<b>>, "A") : t \in {4, 5, 11}, b \in MCNumbers}
    \cup {Cell(t, b, "A") : t \in 0..12 \cup {16, 4097, 4100, 4117},
                            b \in {<<>>, <<<<>>>>, <<<<1, 0>>>>, <<<<1, 2, 3, 0>>>>,
                                   <<<<1, 2, 3, 0, 1, 2, 3, 2>>>>}}

(* The SQL text of a blob evaluates to the blob, for every pattern of zeros  *)
(* around the run length that is folded; every run that long is folded, and  *)
(* no two operands of a kind adjoin (compact_blob_sql).                      *)
BlobSqlFaithful ==
    pc = "coerce" =>
        LET sql == CompactBlobSql(Raw)
        IN  /\ EvalSql(sql) = Raw
            /\ \A i \in 1..(Len(sql) - 1) : sql[i].op # sql[i + 1].op
            /\ \A i \in DOMAIN sql : sql[i].op = "literal" =>
                  LET bs == Unhex(sql[i].text)
                  IN  \A k \in DOMAIN bs : ZeroRun(bs, k) < ZERO_RUN_MIN
=============================================================================
