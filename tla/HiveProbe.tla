----------------------------- MODULE HiveProbe ------------------------------
(***************************************************************************)
(* The SQL surfaces over one file that is still being copied into place:   *)
(* well_formed, hive_info, and what read_hive makes of the same bytes.     *)
(* The copy grows to the next length of Cut, whose members surround every  *)
(* boundary the reader tests; each answer is a function of the bytes       *)
(* copied so far and of what notatin (external) makes of them.  The two    *)
(* scalars open them alike, without logs or recovery, and get one answer;  *)
(* read_hive opens them with its own options and the sibling logs, and     *)
(* notatin may then succeed, fail or name the root differently.            *)
(***************************************************************************)
EXTENDS BaseBlock

CONSTANTS Cut   \* the lengths at which the copy can be observed

ASSUME CutAssumption == Cut \subseteq Nat /\ 0 \in Cut /\ Total \subseteq Cut

VARIABLES
    file,   \* the file being copied
    have,   \* bytes copied so far
    built,  \* the scalars' open of these bytes: <<>>, or <<patterns of the
            \* root name>>
    call    \* read_hive's open of these bytes: <<>> when it fails, or its
            \* options with the patterns of the root name

vars == <<file, have, built, call>>

-----------------------------------------------------------------------------
(* The surfaces. *)

Kind == ParseKind(file, have)
Base == ParseBase(file, have)

\* open_blob: the header check that comes before notatin.
Openable(kind) == kind \in {"ok", "bad-checksum"}

\* The root name the scalars take from open_blob(bytes, false, false, &[]).
Root == IF built = <<>> THEN {} ELSE built[1]

\* well_formed(blob)
WellFormed ==
    [ok        |-> Kind = "ok",
     kind      |-> Kind,
     hive_type |-> IF Base = <<>> THEN "unknown" ELSE HiveType(Base[1], Root)]

\* Mutant: the type comes from the header alone.
HiveInfoNameOnly ==
    IF Base = <<>> THEN <<>>
    ELSE <<[hive_type     |-> HiveType(Base[1], {}),
            primary_seq   |-> Base[1].primary_seq,
            secondary_seq |-> Base[1].secondary_seq,
            root_path     |-> Root,
            is_dirty      |-> IsDirty(Base[1])]>>

\* hive_info(blob): NULL without a base block.
HiveInfo ==
    IF Base = <<>> THEN <<>>
    ELSE <<[hive_type     |-> HiveType(Base[1], Root),
            primary_seq   |-> Base[1].primary_seq,
            secondary_seq |-> Base[1].secondary_seq,
            root_path     |-> Root,
            is_dirty      |-> IsDirty(Base[1])]>>

\* The root name open_blob(bytes, apply_logs, recover, logs) found.
ReadHiveRoot == IF call = <<>> THEN {} ELSE call[1].root

\* The hive type and the recovery label of read_hive's rows for these bytes.
ReadHiveRows ==
    IF call = <<>> THEN <<>>
    ELSE <<[hive_type |-> HiveType(Base[1], ReadHiveRoot),
            recovery  |-> IF ~IsDirty(Base[1])                      THEN "null"
                          ELSE IF call[1].apply_logs /\ call[1].logs THEN "logs-applied"
                          ELSE "dirty-no-logs"]>>

-----------------------------------------------------------------------------
(* The copy. *)

\* A successful open_blob: read_hive's arguments, whether the file has sibling
\* logs, and the root name.
Opened == [apply_logs : BOOLEAN, recover : BOOLEAN, logs : BOOLEAN, root : SUBSET Hint]

\* The builder gets from read_hive just what it gets from the scalars.
PlainOpen(c) == ~c.recover /\ ~(c.apply_logs /\ c.logs)

Init == file \in File /\ have = 0 /\ built = <<>> /\ call = <<>>

\* ParserBuilder::build and get_root_key on n bytes, after the header check.
NotatinOpen(f, n) ==
    IF Openable(ParseKind(f, n)) THEN {<<>>} \cup {<<r>> : r \in SUBSET Hint} ELSE {<<>>}

\* The same in read_hive: the scalars' answer when the builder gets the same.
ReadHiveOpen(f, n, b) ==
    IF Openable(ParseKind(f, n))
    THEN {<<>>} \cup {<<c>> : c \in {d \in Opened : PlainOpen(d) => b = <<d.root>>}}
    ELSE {<<>>}

\* The copy goes on; what the bytes now there hold, notatin has not been asked.
Grow ==
    /\ have < file.total
    /\ have' = CHOOSE m \in Cut : m > have /\ \A k \in Cut : k > have => m <= k
    /\ built' = <<>> /\ call' = <<>>
    /\ UNCHANGED file

\* The surfaces are called on the bytes there are.
Ask ==
    /\ built = <<>> /\ call = <<>>
    /\ built' \in NotatinOpen(file, have)
    /\ call' \in ReadHiveOpen(file, have, built')
    /\ UNCHANGED <<file, have>>

Copied == have = file.total /\ UNCHANGED vars

Next == Grow \/ Ask \/ Copied

Spec == Init /\ [][Next]_vars

-----------------------------------------------------------------------------
\* How far a verdict is from the final one.
Rank(kind) ==
    CASE kind = "truncated"        -> 0
      [] kind = "short-base-block" -> 1
      [] kind = "bin-size-overrun" -> 2
      [] OTHER                     -> 3

VerdictStep ==
    /\ Rank(Kind') >= Rank(Kind)
    /\ (Rank(Kind) = 3 => Kind' = Kind)

(* As a copy grows the verdict of well_formed only moves forward, from       *)
(* truncated over an incomplete base block and missing bins to a final one,  *)
(* which then never changes: a file that was once called ok, damaged or not  *)
(* a hive is not called anything else later (parse, the order of its tests). *)
VerdictForward == [][VerdictStep]_vars

\* The checksum a writer that follows the format stores for the file.
Expected(f) == IF f.xor = 0 THEN 1 ELSE IF f.xor = U32Max THEN U32Max - 1 ELSE f.xor

(* Rows only come from a file whose header and declared bins are all there,  *)
(* and are only labelled clean when the file is: its sequence numbers agree  *)
(* and its checksum is the one the format asks for, the words that are never *)
(* stored included (parse, is_dirty, xor32_checksum, open_blob).             *)
CleanRowsAreClean ==
    ReadHiveRows # <<>> =>
        /\ file.regf /\ file.file_type = 0
        /\ have >= BASE_BLOCK_LEN + file.bins
        /\ (ReadHiveRows[1].recovery = "null") <=>
              (file.primary_seq = file.secondary_seq /\ file.stored = Expected(file))

(* The three surfaces on the same bytes.  What comes from the base block     *)
(* agrees: bytes well_formed accepts have a summary, a verdict of            *)
(* bad-checksum goes with a dirty summary, and rows are labelled as dirty as *)
(* the summary says, whatever logs and options notatin was given.  The hive  *)
(* type of rows may differ from the summary's, but only where a root name    *)
(* and not the file name decided one of them, and never when read_hive       *)
(* opens the bytes as the scalars do (parse, hive_type, open_blob).          *)
(* (A transaction log has a summary too and no rows.)                        *)
ReadersAgree ==
    /\ Openable(WellFormed.kind) => HiveInfo # <<>>
    /\ HiveInfo # <<>> =>
          /\ HiveInfo[1].hive_type = WellFormed.hive_type
          /\ WellFormed.kind = "bad-checksum" => HiveInfo[1].is_dirty
          /\ WellFormed.ok => HiveInfo[1].is_dirty =
                                (file.primary_seq # file.secondary_seq)
    /\ ReadHiveRows # <<>> =>
          /\ HiveInfo # <<>>
          /\ (ReadHiveRows[1].recovery = "null") = ~HiveInfo[1].is_dirty
          /\ \/ ReadHiveRows[1].hive_type = HiveInfo[1].hive_type
             \/ /\ ~PlainOpen(call[1])
                /\ \/ ReadHiveRows[1].hive_type \in ReadHiveRoot \ file.name
                   \/ HiveInfo[1].hive_type \in HiveInfo[1].root_path \ file.name
=============================================================================
