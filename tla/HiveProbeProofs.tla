-------------------------- MODULE HiveProbeProofs ---------------------------
(***************************************************************************)
(* The surfaces over a growing copy, for every u32 range, every set of     *)
(* header values and every set of lengths at which the copy is observed.   *)
(***************************************************************************)
EXTENDS HiveProbe, LeastNumber

-----------------------------------------------------------------------------
(* The next length of the copy.  Grow chooses the least member of Cut above  *)
(* the current length; that there is one is the least-number principle.      *)

\* What is copied stays copied: Grow only makes the copy longer.
LEMMA GrowLengthens ==
    ASSUME file \in File, have \in Nat, Grow
    PROVE  have' \in Nat /\ have' > have
<1>1. file.total \in Cut /\ Cut \subseteq Nat /\ have < file.total
    BY CutAssumption DEF File, Grow
<1>2. PICK m \in {k \in Cut : k > have} : \A k \in {k \in Cut : k > have} : m <= k
    <2>1. {k \in Cut : k > have} \subseteq Nat /\ {k \in Cut : k > have} # {}
        BY <1>1
    <2> QED BY <2>1, LeastMember
<1>3. \E n \in Cut : n > have /\ \A k \in Cut : k > have => n <= k
    BY <1>2
<1>4. have' \in Cut /\ have' > have
    BY <1>3 DEF Grow
<1> QED BY <1>1, <1>4

-----------------------------------------------------------------------------
(* The invariant: notatin only ever answers for bytes the header check let   *)
(* through.                                                                  *)

PInv ==
    /\ file \in File
    /\ have \in Nat
    /\ built \in NotatinOpen(file, have)
    /\ call \in ReadHiveOpen(file, have, built)

LEMMA ProbeInit == Init => PInv
    BY DEF Init, PInv, NotatinOpen, ReadHiveOpen

LEMMA ProbeStep == PInv /\ [Next]_vars => PInv'
<1> SUFFICES ASSUME PInv, [Next]_vars PROVE PInv'
    OBVIOUS
<1>1. CASE Grow
    <2>1. have' \in Nat
        BY <1>1, GrowLengthens DEF PInv
    <2> QED BY <1>1, <2>1 DEF Grow, PInv, NotatinOpen, ReadHiveOpen
<1>2. CASE Ask
    BY <1>2 DEF Ask, PInv
<1>3. CASE UNCHANGED vars
    BY <1>3 DEF PInv, vars
<1> QED BY <1>1, <1>2, <1>3 DEF Next, Copied

\* In every reachable state notatin has only been asked about bytes that
\* open_blob let through.
THEOREM ProbeInvariant == Spec => []PInv
    BY ProbeInit, ProbeStep, PTL DEF Spec

-----------------------------------------------------------------------------
(* The header reader. *)

\* A declared bins size is a number.
LEMMA BinsType ==
    ASSUME NEW f \in File
    PROVE  f.bins \in Nat
<1>1. BinsSize \subseteq Nat
    BY HeaderAssumption, Zenon
<1> QED BY <1>1 DEF File

\* With the whole base block there every field is the one in the file.
LEMMA WholeBlock ==
    ASSUME NEW f \in File, NEW n \in Nat, n >= BASE_BLOCK_LEN
    PROVE  /\ ReadFields(f, n) # <<>>
           /\ ReadFields(f, n)[1].primary_seq = f.primary_seq
           /\ ReadFields(f, n)[1].secondary_seq = f.secondary_seq
           /\ ReadFields(f, n)[1].file_type = f.file_type
           /\ ReadFields(f, n)[1].bins = f.bins
           /\ ReadFields(f, n)[1].stored = f.stored
           /\ ReadFields(f, n)[1].computed = Expected(f)
<1>1. n >= CHECKSUM_OFFSET /\ n >= 8 /\ CHECKSUM_OFFSET + 4 <= n
    BY DEF BASE_BLOCK_LEN, CHECKSUM_OFFSET
<1>2. Xor32Checksum(f, n) = Expected(f)
    <2>1. ~(n < CHECKSUM_OFFSET) /\ n >= CHECKSUM_OFFSET /\ U32Max # 0
        BY <1>1, HeaderAssumption DEF CHECKSUM_OFFSET
    <2>2. CASE f.xor = 0
        BY <2>1, <2>2, Zenon DEF Xor32Checksum, Expected
    <2>3. CASE f.xor = U32Max
        BY <2>1, <2>3, Zenon DEF Xor32Checksum, Expected
    <2>4. CASE f.xor # 0 /\ f.xor # U32Max
        BY <2>1, <2>4, Zenon DEF Xor32Checksum, Expected
    <2> QED BY <2>2, <2>3, <2>4
<1> QED BY <1>1, <1>2 DEF ReadFields, Field, BASE_BLOCK_LEN

\* Bytes that open_blob lets through to notatin are a primary with all of its
\* bins, and the kind tells whether the checksum is right.
LEMMA OpenableBytes ==
    ASSUME NEW f \in File, NEW n \in Nat, Openable(ParseKind(f, n))
    PROVE  /\ f.regf /\ f.file_type = 0
           /\ n >= BASE_BLOCK_LEN + f.bins
           /\ ParseKind(f, n) = "ok" <=> f.stored = Expected(f)
           /\ ParseBase(f, n) = ReadFields(f, n)
<1>1. ~(n < 4) /\ f.regf /\ ~(n < BASE_BLOCK_LEN)
    BY DEF Openable, ParseKind
<1>2. n >= BASE_BLOCK_LEN /\ f.bins \in Nat
    BY <1>1, BinsType DEF BASE_BLOCK_LEN
<1> DEFINE bb == ReadFields(f, n)[1]
<1>3. /\ ReadFields(f, n) # <<>>
      /\ bb.file_type = f.file_type /\ bb.bins = f.bins
      /\ bb.stored = f.stored /\ bb.computed = Expected(f)
    BY <1>2, WholeBlock
<1>4. ParseKind(f, n) =
        IF bb.file_type # 0 THEN "not-a-hive"
        ELSE IF bb.bins > 0 /\ BASE_BLOCK_LEN + bb.bins > n THEN "bin-size-overrun"
        ELSE IF ChecksumBad(bb) THEN "bad-checksum"
        ELSE "ok"
    BY <1>1, <1>3 DEF ParseKind
<1> HIDE DEF bb
<1>5. bb.file_type = 0 /\ ~(bb.bins > 0 /\ BASE_BLOCK_LEN + bb.bins > n)
    BY <1>4 DEF Openable
<1>6. f.file_type = 0 /\ n >= BASE_BLOCK_LEN + f.bins
    BY <1>2, <1>3, <1>5 DEF BASE_BLOCK_LEN
<1>7. ParseKind(f, n) = "ok" <=> f.stored = Expected(f)
    BY <1>3, <1>4, <1>5 DEF ChecksumBad
<1>8. ParseBase(f, n) = ReadFields(f, n)
    BY <1>1 DEF ParseBase
<1> QED BY <1>1, <1>6, <1>7, <1>8

\* Rows come from bytes the header check let through.
LEMMA RowsOpenable ==
    ASSUME PInv, call # <<>>
    PROVE  /\ Openable(Kind)
           /\ call[1] \in Opened
           /\ PlainOpen(call[1]) => built = <<call[1].root>>
<1>1. Openable(Kind)
    BY DEF PInv, ReadHiveOpen, Kind
<1>2. PICK c \in {d \in Opened : PlainOpen(d) => built = <<d.root>>} : call = <<c>>
    BY <1>1 DEF PInv, ReadHiveOpen, Kind
<1>3. call[1] = c
    BY <1>2
<1> QED BY <1>1, <1>2, <1>3

\* hive_type gives the first pattern that is in the file name or in the root
\* name: where two roots give two types, one of them is not in the file name.
LEMMA TypesDiffer ==
    ASSUME NEW bb, NEW q, NEW r, HiveType(bb, q) # HiveType(bb, r)
    PROVE  HiveType(bb, q) \in q \ bb.name \/ HiveType(bb, r) \in r \ bb.name
<1> DEFINE hit(root) == {i \in DOMAIN Patterns : Patterns[i] \in bb.name \cup root}
           first(root) == CHOOSE i \in hit(root) : \A j \in hit(root) : i <= j
<1>1. \A i, j \in DOMAIN Patterns : i \in Nat /\ j \in Nat
    BY DEF Patterns
<1>2. ASSUME NEW root, hit(root) # {}
      PROVE  /\ first(root) \in hit(root) /\ \A j \in hit(root) : first(root) <= j
             /\ HiveType(bb, root) = Patterns[first(root)]
    <2>1. hit(root) \subseteq Nat
        BY <1>1
    <2>2. \E i \in hit(root) : \A j \in hit(root) : i <= j
        <3> HIDE DEF hit
        <3> QED BY <1>2, <2>1, LeastMember
    <2>3. first(root) \in hit(root) /\ \A j \in hit(root) : first(root) <= j
        <3> HIDE DEF hit
        <3> QED BY <2>2
    <2>4. HiveType(bb, root) = Patterns[first(root)]
        BY <1>2 DEF HiveType
    <2> QED BY <2>3, <2>4
<1>3. ASSUME NEW root, hit(root) = {}
      PROVE  HiveType(bb, root) = "unknown"
    BY <1>3 DEF HiveType
<1>4. ASSUME NEW a, NEW b, hit(a) # {}, Patterns[first(a)] \in bb.name
      PROVE  hit(b) # {} /\ first(b) <= first(a)
    <2>1. first(a) \in hit(a)
        BY <1>2, <1>4
    <2>2. first(a) \in hit(b)
        <3> HIDE DEF first
        <3> QED BY <1>4, <2>1
    <2> HIDE DEF hit, first
    <2> QED BY <1>2, <2>2
<1>5. ASSUME NEW root, hit(root) # {}
      PROVE  Patterns[first(root)] \in bb.name \cup root /\ first(root) \in Nat
    <2>1. first(root) \in hit(root)
        BY <1>2, <1>5
    <2> HIDE DEF first
    <2> QED BY <1>1, <2>1
<1> HIDE DEF hit, first
<1>6. CASE hit(q) = {} /\ hit(r) = {}
    BY <1>3, <1>6
<1>7. CASE hit(q) # {} /\ hit(r) = {}
    <2>1. Patterns[first(q)] \notin bb.name
        BY <1>4, <1>7
    <2> QED BY <1>2, <1>5, <1>7, <2>1
<1>8. CASE hit(q) = {} /\ hit(r) # {}
    <2>1. Patterns[first(r)] \notin bb.name
        BY <1>4, <1>8
    <2> QED BY <1>2, <1>5, <1>8, <2>1
<1>9. CASE hit(q) # {} /\ hit(r) # {}
    <2>1. first(q) # first(r)
        BY <1>2, <1>9
    <2>2. first(q) \in Nat /\ first(r) \in Nat
        BY <1>5, <1>9
    <2>3. Patterns[first(q)] \notin bb.name \/ Patterns[first(r)] \notin bb.name
        <3>1. ASSUME Patterns[first(q)] \in bb.name, Patterns[first(r)] \in bb.name
              PROVE  FALSE
            <4>1. first(r) <= first(q) /\ first(q) <= first(r)
                BY <1>4, <1>9, <3>1
            <4> QED BY <2>1, <2>2, <4>1
        <3> QED BY <3>1
    <2> QED BY <1>2, <1>5, <1>9, <2>3
<1> QED BY <1>6, <1>7, <1>8, <1>9

\* What the base block of openable bytes says.
LEMMA OpenableBase ==
    ASSUME PInv, Openable(Kind)
    PROVE  /\ Base # <<>>
           /\ IsDirty(Base[1]) <=>
                ~(file.primary_seq = file.secondary_seq /\ file.stored = Expected(file))
<1>1. /\ have \in Nat /\ have >= BASE_BLOCK_LEN
      /\ Base = ReadFields(file, have)
    <2>1. have \in Nat /\ have >= BASE_BLOCK_LEN + file.bins
        BY OpenableBytes DEF PInv, Kind
    <2>2. file.bins \in Nat
        BY BinsType DEF PInv
    <2>3. have >= BASE_BLOCK_LEN
        BY <2>1, <2>2 DEF BASE_BLOCK_LEN
    <2> QED BY <2>1, <2>3, OpenableBytes DEF PInv, Kind, Base
<1>2. /\ Base # <<>>
      /\ Base[1].primary_seq = file.primary_seq
      /\ Base[1].secondary_seq = file.secondary_seq
      /\ Base[1].stored = file.stored
      /\ Base[1].computed = Expected(file)
    BY <1>1, WholeBlock DEF PInv
<1> QED BY <1>2 DEF IsDirty, ChecksumBad

-----------------------------------------------------------------------------
(* The safety properties. *)

\* Rows only come from a complete primary, and are only labelled clean when
\* the sequence numbers agree and the checksum is the one the format asks for
\* (parse, is_dirty, xor32_checksum, open_blob).
THEOREM RowsAreClean == Spec => []CleanRowsAreClean
<1>1. PInv => CleanRowsAreClean
    <2> SUFFICES ASSUME PInv, ReadHiveRows # <<>>
                 PROVE  /\ file.regf /\ file.file_type = 0
                        /\ have >= BASE_BLOCK_LEN + file.bins
                        /\ (ReadHiveRows[1].recovery = "null") <=>
                              (file.primary_seq = file.secondary_seq
                                 /\ file.stored = Expected(file))
        BY DEF CleanRowsAreClean
    <2>1. call # <<>> /\ Openable(Kind)
        BY RowsOpenable DEF ReadHiveRows
    <2>2. /\ file.regf /\ file.file_type = 0
          /\ have >= BASE_BLOCK_LEN + file.bins
        BY <2>1, OpenableBytes DEF PInv, Kind
    <2>3. (ReadHiveRows[1].recovery = "null") <=> ~IsDirty(Base[1])
        BY <2>1 DEF ReadHiveRows
    <2> QED BY <2>1, <2>2, <2>3, OpenableBase
<1> QED BY <1>1, ProbeInvariant, PTL

\* What the file name says once bytes are openable.
LEMMA OpenableName ==
    ASSUME PInv, Openable(Kind)
    PROVE  Base[1].name = file.name
<1>1. have \in Nat /\ have >= 112
    <2>1. have \in Nat /\ have >= BASE_BLOCK_LEN + file.bins
        BY OpenableBytes DEF PInv, Kind
    <2>2. file.bins \in Nat
        BY BinsType DEF PInv
    <2> QED BY <2>1, <2>2 DEF BASE_BLOCK_LEN
<1>2. Base = ReadFields(file, have)
    BY OpenableBytes DEF PInv, Kind, Base
<1>3. ~(have < 8)
    BY <1>1
<1> QED BY <1>1, <1>2, <1>3 DEF ReadFields

\* The surfaces agree on the same bytes about everything the base block
\* says; the hive type of rows differs only where a root name decided it, and
\* only when notatin was asked with other logs or options.
THEOREM SurfacesAgree == Spec => []ReadersAgree
<1>1. PInv => ReadersAgree
    <2> SUFFICES ASSUME PInv PROVE ReadersAgree
        OBVIOUS
    <2>1. Openable(Kind) => HiveInfo # <<>>
        BY OpenableBase DEF HiveInfo
    <2>2. ASSUME HiveInfo # <<>>
          PROVE  /\ Base # <<>>
                 /\ HiveInfo[1].hive_type = HiveType(Base[1], Root)
                 /\ HiveInfo[1].is_dirty = IsDirty(Base[1])
                 /\ HiveInfo[1].root_path = Root
                 /\ WellFormed.hive_type = HiveType(Base[1], Root)
        BY <2>2 DEF HiveInfo, WellFormed
    <2>3. WellFormed.kind = Kind /\ WellFormed.ok = (Kind = "ok")
        BY DEF WellFormed
    <2>4. Openable(Kind) => (Kind = "ok" <=> file.stored = Expected(file))
        BY OpenableBytes DEF PInv, Kind
    <2>5. Kind = "bad-checksum" => IsDirty(Base[1])
        BY <2>4, OpenableBase DEF Openable
    <2>6. Kind = "ok" => IsDirty(Base[1]) = (file.primary_seq # file.secondary_seq)
        <3>1. IsDirty(Base[1]) \in BOOLEAN
            BY DEF IsDirty, ChecksumBad
        <3> QED BY <2>4, <3>1, OpenableBase DEF Openable
    <2>7. ASSUME ReadHiveRows # <<>>
          PROVE  /\ HiveInfo # <<>>
                 /\ (ReadHiveRows[1].recovery = "null") = ~HiveInfo[1].is_dirty
                 /\ \/ ReadHiveRows[1].hive_type = HiveInfo[1].hive_type
                    \/ /\ ~PlainOpen(call[1])
                       /\ \/ ReadHiveRows[1].hive_type \in ReadHiveRoot \ file.name
                          \/ HiveInfo[1].hive_type \in HiveInfo[1].root_path \ file.name
        <3>1. call # <<>>
            BY <2>7 DEF ReadHiveRows
        <3>2. HiveInfo # <<>> /\ Base[1].name = file.name
            BY <2>1, <3>1, RowsOpenable, OpenableName
        <3>3. /\ ReadHiveRows[1].hive_type = HiveType(Base[1], ReadHiveRoot)
              /\ (ReadHiveRows[1].recovery = "null") = ~IsDirty(Base[1])
            BY <3>1 DEF ReadHiveRows, IsDirty, ChecksumBad
        <3>4. PlainOpen(call[1]) => ReadHiveRoot = Root
            BY <3>1, RowsOpenable DEF ReadHiveRoot, Root
        <3>5. CASE HiveType(Base[1], ReadHiveRoot) = HiveType(Base[1], Root)
            BY <2>2, <3>2, <3>3, <3>5
        <3>6. CASE HiveType(Base[1], ReadHiveRoot) # HiveType(Base[1], Root)
            <4>1. ~PlainOpen(call[1])
                BY <3>4, <3>6
            <4>2. \/ HiveType(Base[1], ReadHiveRoot) \in ReadHiveRoot \ file.name
                  \/ HiveType(Base[1], Root) \in Root \ file.name
                BY <3>2, <3>6, TypesDiffer
            <4> QED BY <2>2, <3>2, <3>3, <4>1, <4>2
        <3> QED BY <3>5, <3>6
    <2> QED BY <2>1, <2>2, <2>3, <2>5, <2>6, <2>7 DEF ReadersAgree
<1> QED BY <1>1, ProbeInvariant, PTL

-----------------------------------------------------------------------------
(* The verdict moves forward. *)

\* More bytes never make a verdict worse, and leave a final one alone.
LEMMA VerdictMonotone ==
    ASSUME NEW f \in File, NEW n \in Nat, NEW m \in Nat, n <= m
    PROVE  /\ Rank(ParseKind(f, m)) >= Rank(ParseKind(f, n))
           /\ Rank(ParseKind(f, n)) = 3 => ParseKind(f, m) = ParseKind(f, n)
<1>0. \A k \in Nat : ParseKind(f, k) \in
        {"truncated", "bad-signature", "short-base-block", "not-a-hive",
         "bin-size-overrun", "bad-checksum", "ok"}
    BY DEF ParseKind
<1>r. /\ Rank("truncated") = 0 /\ Rank("short-base-block") = 1
      /\ Rank("bin-size-overrun") = 2 /\ Rank("bad-signature") = 3
      /\ Rank("not-a-hive") = 3 /\ Rank("bad-checksum") = 3 /\ Rank("ok") = 3
    BY DEF Rank
<1>1. CASE n < 4
    <2>1. ParseKind(f, n) = "truncated"
        BY <1>1 DEF ParseKind
    <2> QED BY <1>0, <1>r, <2>1
<1>2. CASE n >= 4 /\ ~f.regf
    <2>1. ParseKind(f, n) = "bad-signature" /\ ParseKind(f, m) = "bad-signature"
        BY <1>2 DEF ParseKind
    <2> QED BY <1>r, <2>1
<1>3. CASE n >= 4 /\ f.regf /\ n < BASE_BLOCK_LEN
    <2>1. ParseKind(f, n) = "short-base-block" /\ ParseKind(f, m) # "truncated"
        BY <1>3 DEF ParseKind, BASE_BLOCK_LEN
    <2> QED BY <1>0, <1>r, <2>1
<1>4. CASE f.regf /\ n >= BASE_BLOCK_LEN
    <2>1. ASSUME NEW k \in Nat, k >= BASE_BLOCK_LEN
          PROVE  ParseKind(f, k) =
                    IF f.file_type # 0 THEN "not-a-hive"
                    ELSE IF f.bins > 0 /\ BASE_BLOCK_LEN + f.bins > k
                    THEN "bin-size-overrun"
                    ELSE IF f.stored # Expected(f) THEN "bad-checksum"
                    ELSE "ok"
        <3>1. ~(k < 4) /\ ~(k < BASE_BLOCK_LEN)
            BY <2>1 DEF BASE_BLOCK_LEN
        <3> QED BY <1>4, <2>1, <3>1, WholeBlock DEF ParseKind, ChecksumBad
    <2>2. m >= BASE_BLOCK_LEN /\ f.bins \in Nat
        BY <1>4, BinsType DEF BASE_BLOCK_LEN
    <2>3. (f.bins > 0 /\ BASE_BLOCK_LEN + f.bins > m)
            => (f.bins > 0 /\ BASE_BLOCK_LEN + f.bins > n)
        BY <2>2 DEF BASE_BLOCK_LEN
    <2> QED BY <1>4, <1>r, <2>1, <2>2, <2>3
<1> QED BY <1>1, <1>2, <1>3, <1>4 DEF BASE_BLOCK_LEN

\* As a copy grows the verdict of well_formed only moves forward and a final
\* one never changes (parse, the order of its tests).
THEOREM VerdictOnlyForward == Spec => VerdictForward
<1>1. PInv /\ [Next]_vars => [VerdictStep]_vars
    <2> SUFFICES ASSUME PInv, Next PROVE VerdictStep \/ UNCHANGED vars
        OBVIOUS
    <2>1. CASE Grow
        <3>1. have \in Nat /\ have' \in Nat /\ have <= have' /\ file \in File /\ file' = file
            BY <2>1, GrowLengthens DEF PInv, Grow
        <3>2. Kind = ParseKind(file, have) /\ Kind' = ParseKind(file, have')
            BY <3>1 DEF Kind
        <3> QED BY <3>1, <3>2, VerdictMonotone DEF VerdictStep
    <2>2. CASE Ask
        <3>1. UNCHANGED <<file, have>>
            BY <2>2 DEF Ask
        <3>2. Kind' = Kind
            BY <3>1 DEF Kind
        <3> QED BY <3>2, VerdictMonotone DEF VerdictStep, PInv, Kind
    <2>3. CASE Copied
        BY <2>3 DEF Copied
    <2> QED BY <2>1, <2>2, <2>3 DEF Next
<1> QED BY <1>1, ProbeInvariant, PTL DEF Spec, VerdictForward
=============================================================================
