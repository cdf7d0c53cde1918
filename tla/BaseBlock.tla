----------------------------- MODULE BaseBlock ------------------------------
(***************************************************************************)
(* Reading the regf base block (baseblock.rs) from the first n bytes of a  *)
(* file: parse, read_fields, the checksum and the hive-type sniff.         *)
(*                                                                         *)
(* A file is the values of its header fields, the XOR of its first 127     *)
(* dwords, the name patterns its embedded file name contains, and its      *)
(* length.  Offsets and lengths are the real ones; u32 values range up to  *)
(* U32Max.                                                                 *)
(***************************************************************************)
EXTENDS Naturals, Sequences

CONSTANTS
    U32Max,     \* u32::MAX
    SeqNo,      \* sequence numbers
    FileType,   \* the file_type field: 0 is a primary
    BinsSize,   \* the declared hive-bins size
    Word,       \* checksum words
    Hint,       \* the name patterns used, out of Patterns
    Total       \* lengths a complete file may have

BASE_BLOCK_LEN  == 4096
CHECKSUM_OFFSET == 508

\* The patterns in the order hive_type tests them; "sam" only at the end of
\* the file name or as the whole root name.
Patterns == <<"amcache", "ntuser", "usrclass", "security", "software", "system", "sam">>

ASSUME HeaderAssumption ==
    /\ U32Max \in Nat \ {0, 1}
    /\ SeqNo \subseteq 0..U32Max /\ FileType \subseteq 0..U32Max
    /\ BinsSize \subseteq Nat /\ Word \subseteq 0..U32Max
    /\ Hint \subseteq {Patterns[i] : i \in DOMAIN Patterns}
    /\ Total \subseteq Nat

File == [regf : BOOLEAN, primary_seq : SeqNo, secondary_seq : SeqNo,
         file_type : FileType, bins : BinsSize, stored : Word, xor : Word,
         name : SUBSET Hint, total : Total]

\* xor32_checksum(blob).unwrap_or(0): 0 and u32::MAX are never stored.
Xor32Checksum(f, n) ==
    CASE n < CHECKSUM_OFFSET                      -> 0
      [] n >= CHECKSUM_OFFSET /\ f.xor = 0        -> 1
      [] n >= CHECKSUM_OFFSET /\ f.xor = U32Max   -> U32Max - 1
      [] OTHER                                    -> f.xor

\* rd_u32(blob, off).unwrap_or(0)
Field(n, off, v) == IF off + 4 <= n THEN v ELSE 0

\* read_fields: None without the first sequence number, else best effort.
ReadFields(f, n) ==
    IF n < 8 THEN <<>>
    ELSE <<[primary_seq   |-> f.primary_seq,
            secondary_seq |-> Field(n, 8, f.secondary_seq),
            file_type     |-> Field(n, 28, f.file_type),
            bins          |-> Field(n, 40, f.bins),
            name          |-> IF n >= 112 THEN f.name ELSE {},
            stored        |-> Field(n, CHECKSUM_OFFSET, f.stored),
            computed      |-> Xor32Checksum(f, n)]>>

ChecksumBad(bb) == bb.stored # bb.computed

IsDirty(bb) == ChecksumBad(bb) \/ bb.primary_seq # bb.secondary_seq

\* Mutant: the bins are measured from the start of the file.
KindFromStart(f, n) ==
    IF n < 4 THEN "truncated"
    ELSE IF ~f.regf THEN "bad-signature"
    ELSE IF n < BASE_BLOCK_LEN \/ ReadFields(f, n) = <<>> THEN "short-base-block"
    ELSE LET bb == ReadFields(f, n)[1] IN
         IF bb.file_type # 0 THEN "not-a-hive"
         ELSE IF bb.bins > n THEN "bin-size-overrun"
         ELSE IF ChecksumBad(bb) THEN "bad-checksum"
         ELSE "ok"

\* Mutant: bytes too short for a signature count as a wrong one.
KindUnsigned(f, n) ==
    IF n < 4 \/ ~f.regf THEN "bad-signature"
    ELSE IF n < BASE_BLOCK_LEN \/ ReadFields(f, n) = <<>> THEN "short-base-block"
    ELSE LET bb == ReadFields(f, n)[1] IN
         IF bb.file_type # 0 THEN "not-a-hive"
         ELSE IF bb.bins > 0 /\ BASE_BLOCK_LEN + bb.bins > n THEN "bin-size-overrun"
         ELSE IF ChecksumBad(bb) THEN "bad-checksum"
         ELSE "ok"

\* parse(blob).1: the tests in the order the code makes them.
ParseKind(f, n) ==
    IF n < 4 THEN "truncated"
    ELSE IF ~f.regf THEN "bad-signature"
    ELSE IF n < BASE_BLOCK_LEN \/ ReadFields(f, n) = <<>> THEN "short-base-block"
    ELSE LET bb == ReadFields(f, n)[1] IN
         IF bb.file_type # 0 THEN "not-a-hive"
         ELSE IF bb.bins > 0 /\ BASE_BLOCK_LEN + bb.bins > n THEN "bin-size-overrun"
         ELSE IF ChecksumBad(bb) THEN "bad-checksum"
         ELSE "ok"

\* parse(blob).0: the fields that could be read, without a signature none.
ParseBase(f, n) == IF n < 4 \/ ~f.regf THEN <<>> ELSE ReadFields(f, n)

\* hive_type: the first pattern that the file name or the root name contains.
HiveType(bb, root) ==
    LET hits == {i \in DOMAIN Patterns : Patterns[i] \in bb.name \cup root}
    IN  IF hits = {} THEN "unknown"
        ELSE Patterns[CHOOSE i \in hits : \A j \in hits : i <= j]
=============================================================================
