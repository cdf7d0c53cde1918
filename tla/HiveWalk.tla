------------------------------ MODULE HiveWalk ------------------------------
(***************************************************************************)
(* Walking an opened hive into rows (hive/walk.rs), for both its callers:  *)
(* read_hive, which asks for a mode and no subtree, and the hive_subtree   *)
(* producer (table/hive_subtree.rs), which asks for Mode::Values below a   *)
(* key path.  notatin's iterator is external: it yields keys in any order. *)
(*                                                                         *)
(* A path is the sequence of its backslash-separated segments, so that the *)
(* empty string is one empty segment, a leading backslash is an empty      *)
(* first segment and a trailing one an empty last segment.  A segment is a *)
(* lower-case text and whether its ASCII letters (upper), and its letters  *)
(* beyond ASCII (high), are written in upper case.                         *)
(***************************************************************************)
EXTENDS HiveOpen, SequencesExt

CONSTANTS
    Text,        \* lower-case key names
    RootName,    \* the name of the root key
    KeyPaths,    \* the paths of the cells notatin may yield, root name first
    ValueLists,  \* the value lists a key may have
    Filters,     \* the key_path arguments of hive_subtree
    Hives,       \* the images walked
    MaxKeys      \* bound: the keys of one hive

Segment == [text : Text \cup {"", "$deleted"}, upper : BOOLEAN, high : BOOLEAN]
Path == Seq(Segment) \ {<<>>}

EmptySegment == [text |-> "", upper |-> FALSE, high |-> FALSE]
EmptyPath == <<EmptySegment>>
DeletedPrefix == [text |-> "$deleted", upper |-> TRUE, high |-> FALSE]

ValueCell == [state : {"allocated", "deleted"},
              diagnostics : {"null", "bad-utf16", "truncated"}]

ASSUME PathAssumption == KeyPaths \subseteq Path /\ Filters \subseteq Path
ASSUME RootAssumption == RootName \in Segment
ASSUME CellAssumption == ValueLists \subseteq Seq(ValueCell)
ASSUME HiveAssumption == Hives \subseteq HiveImage
\* The registry has no key without a name.
ASSUME NamesAssumption == \A p \in KeyPaths : \A i \in DOMAIN p : p[i] # EmptySegment
ASSUME KeysAssumption == MaxKeys \in Nat \ {0}

NoFilter == <<>>

\* What a caller asks of the walk.  hive_subtree always walks Mode::Values and
\* hands over no logs.
Request ==
    [caller : {"read_hive"}, mode : [text : {"values", "keys", "all", "other"}, upper : BOOLEAN],
     filter : {NoFilter}, apply_logs : BOOLEAN, logs_present : BOOLEAN, recover : BOOLEAN]
    \cup
    [caller : {"hive_subtree"}, mode : {[text |-> "values", upper |-> FALSE]},
     filter : Filters, apply_logs : BOOLEAN, logs_present : {FALSE}, recover : BOOLEAN]

KeyCell == [path : KeyPaths, state : {"allocated", "deleted", "modified"},
            values : ValueLists]

-----------------------------------------------------------------------------
(* The operators of walk.rs. *)

\* str::to_ascii_lowercase: letters beyond ASCII stay as they are.
Lowercase(p) == [i \in DOMAIN p |-> [p[i] EXCEPT !.upper = FALSE]]

\* Mode::parse
ModeParse(s) == IF s.text \in {"keys", "all"} THEN s.text ELSE "values"

\* The path descends from the live root.
UnderRoot(p, root_name) == root_name # EmptySegment /\ p[1] = root_name

\* normalize(path, root_name).0, on a path without its leading backslash.
\* Nothing descends from a root without a name.
Normalize(p, root_name) ==
    IF p = <<root_name>> THEN EmptyPath
    ELSE IF UnderRoot(p, root_name) THEN Tail(p)
    ELSE <<DeletedPrefix>> \o p

\* Mutant: the flag is lost on the way out.
IsOrphanNever(p, root_name) == FALSE

\* normalize(path, root_name).1
IsOrphan(p, root_name) == p # <<root_name>> /\ ~UnderRoot(p, root_name)

DeletedLabel(orphan) == IF orphan THEN "deleted-orphan" ELSE "deleted-reparented"

\* Mutant: only one leading backslash is stripped, and case is kept.
NormalizeFilterCased(f) == IF Len(f) > 1 /\ f[1] = EmptySegment THEN Tail(f) ELSE f

\* normalize_filter: every leading backslash goes, then the case.
NormalizeFilter(f) ==
    LET keep == {i \in DOMAIN f : f[i] # EmptySegment \/ i = Len(f)}
        first == CHOOSE i \in keep : \A j \in keep : i <= j
    IN  Lowercase(SubSeq(f, first, Len(f)))

\* Mutant: a descendant must be a direct child.
SubtreeMatchShallow(path, filter) ==
    \/ filter = EmptyPath
    \/ IsPrefix(filter, Lowercase(path)) /\ Len(path) <= Len(filter) + 1

\* subtree_match(key_path, filter_lower)
SubtreeMatch(path, filter) == filter = EmptyPath \/ IsPrefix(filter, Lowercase(path))

\* The filter applied to one key; None lets every key through.
Selected(filter, path) ==
    filter = NoFilter \/ SubtreeMatch(path, NormalizeFilter(filter))

WantKeyRow(mode, key) == mode \in {"keys", "all"} \/ key.values = <<>>

\* Mutant: a value's own state decides, whatever became of its key.
ValueDeletedAlone(key, v) == v.state = "deleted"

\* A value is deleted with its key.
ValueDeleted(key, v) == key.state = "deleted" \/ v.state = "deleted"

\* Mutant: the flag is the cell's own, the label its key's.
RowOfOwnFlag(key, v, root_name, base_recovery, hive_diag) ==
    LET own == IF v = 0 THEN key ELSE key.values[v]
    IN  [key_path    |-> Normalize(key.path, root_name),
         is_value    |-> v # 0,
         is_deleted  |-> own.state = "deleted",
         recovery    |-> IF own.state = "deleted" \/ key.state = "deleted"
                         THEN DeletedLabel(IsOrphan(key.path, root_name)) ELSE base_recovery,
         diagnostics |-> IF v # 0 /\ own.diagnostics # "null" THEN own.diagnostics
                                                              ELSE hive_diag]

\* The row of a key (v = 0) or of its v-th value.
RowOf(key, v, root_name, base_recovery, hive_diag) ==
    LET deleted == IF v = 0 THEN key.state = "deleted"
                            ELSE ValueDeleted(key, key.values[v])
        own == IF v = 0 THEN "null" ELSE key.values[v].diagnostics
    IN  [key_path    |-> Normalize(key.path, root_name),
         is_value    |-> v # 0,
         is_deleted  |-> deleted,
         recovery    |-> IF deleted THEN DeletedLabel(IsOrphan(key.path, root_name))
                                    ELSE base_recovery,
         diagnostics |-> IF own # "null" THEN own ELSE hive_diag]

\* Mutant: a key row only where the key's values are not listed.
KeyEntriesDisjoint(mode, key) ==
    IF mode = "keys" THEN <<0>> ELSE [v \in 1..Len(key.values) |-> v]

\* Which rows one key gives, in order: 0 for the key row, v for its v-th value.
KeyEntries(mode, key) ==
    (IF WantKeyRow(mode, key) THEN <<0>> ELSE <<>>)
    \o (IF mode = "keys" THEN <<>> ELSE [v \in 1..Len(key.values) |-> v])

\* RowBatchBuilder after a push of each of the rows, finished: one column per
\* field, each with the field of every row.
BatchOf(rs) ==
    [key_path    |-> [i \in DOMAIN rs |-> rs[i].key_path],
     is_value    |-> [i \in DOMAIN rs |-> rs[i].is_value],
     is_deleted  |-> [i \in DOMAIN rs |-> rs[i].is_deleted],
     recovery    |-> [i \in DOMAIN rs |-> rs[i].recovery],
     diagnostics |-> [i \in DOMAIN rs |-> rs[i].diagnostics]]

-----------------------------------------------------------------------------
(* One source walked: hive_subtree's producer, or build_rows of read_hive. *)

VARIABLES
    hive,     \* the image handed to open_blob
    req,      \* what the caller asks
    root,     \* the root name open_blob found; empty until then
    pc,       \* "next_batch", "walk", "returned" or "end"
    done,     \* SubtreeProducer's done flag
    seen,     \* history: the keys notatin has yielded
    rows,     \* the rows walk has made so far
    from,     \* history: the key and the value each row was made from
    batches   \* the batches returned

vars == <<hive, req, root, pc, done, seen, rows, from, batches>>

BaseRecovery == BaseRecoveryLabel(hive.dirty, req.logs_present, req.apply_logs)
HiveDiag == IF hive.kind = "bad-checksum" THEN "bad-checksum" ELSE "null"
Mode == ModeParse(req.mode)

Init ==
    /\ hive \in Hives /\ req \in Request
    /\ root = EmptySegment /\ pc = "next_batch" /\ done = FALSE
    /\ seen = <<>> /\ rows = <<>> /\ from = <<>> /\ batches = <<>>

\* next_batch after the one batch: None.
NextBatchNone ==
    /\ pc = "next_batch" /\ done
    /\ pc' = "end"
    /\ UNCHANGED <<hive, req, root, done, seen, rows, from, batches>>

\* Mutant: the flag is set only once the hive is open.
OpenFailsForgets ==
    /\ pc = "next_batch" /\ ~done
    /\ ~Openable(hive) \/ FALSE \in NotatinBuild(hive, <<>>)
    /\ pc' = "returned" /\ batches' = Append(batches, BatchOf(<<>>))
    /\ UNCHANGED <<hive, req, root, done, seen, rows, from>>

\* open_blob fails: the batch is returned without rows.
OpenFails ==
    /\ pc = "next_batch" /\ ~done
    /\ ~Openable(hive) \/ FALSE \in NotatinBuild(hive, <<>>)
    /\ done' = TRUE /\ pc' = "returned" /\ batches' = Append(batches, BatchOf(<<>>))
    /\ UNCHANGED <<hive, req, root, seen, rows, from>>

\* open_blob succeeds.  get_root_key may still fail, and the root then has no
\* name.
OpenHive ==
    /\ pc = "next_batch" /\ ~done
    /\ Openable(hive) /\ TRUE \in NotatinBuild(hive, <<>>)
    /\ root' \in {RootName, EmptySegment}
    /\ done' = TRUE /\ pc' = "walk"
    /\ UNCHANGED <<hive, req, seen, rows, from, batches>>

\* The cells notatin yields: live keys descend from the root, deleted ones are
\* looked for on request, replaced versions come from the logs it was handed.
Yielded ==
    {k \in KeyCell :
        /\ k.state # "deleted" => k.path[1] = RootName
        /\ k.state = "deleted" => req.recover
        /\ k.state = "modified" => req.apply_logs /\ req.logs_present
        /\ (\E i \in DOMAIN k.values : k.values[i].state = "deleted") => req.recover}

\* One round of the loop over the keys.
WalkKey(key) ==
    /\ pc = "walk" /\ Len(seen) < MaxKeys
    /\ seen' = Append(seen, key)
    /\ LET entries == IF Selected(req.filter, Normalize(key.path, root))
                      THEN KeyEntries(Mode, key) ELSE <<>>
       IN  /\ rows' = rows \o [i \in DOMAIN entries |->
                                  RowOf(key, entries[i], root, BaseRecovery, HiveDiag)]
           /\ from' = from \o [i \in DOMAIN entries |-> [key |-> key, value |-> entries[i]]]
    /\ UNCHANGED <<hive, req, root, pc, done, batches>>

\* Mutant: a walk without rows is not returned.
FinishWalkNonEmpty ==
    /\ pc = "walk" /\ rows # <<>>
    /\ pc' = "returned" /\ batches' = Append(batches, BatchOf(rows))
    /\ UNCHANGED <<hive, req, root, done, seen, rows, from>>

\* The iterator is exhausted: the builder is finished and the batch returned.
FinishWalk ==
    /\ pc = "walk"
    /\ pc' = "returned" /\ batches' = Append(batches, BatchOf(rows))
    /\ UNCHANGED <<hive, req, root, done, seen, rows, from>>

\* The client of hive_subtree asks again after every batch.
CallAgain ==
    /\ pc = "returned" /\ req.caller = "hive_subtree"
    /\ pc' = "next_batch"
    /\ UNCHANGED <<hive, req, root, done, seen, rows, from, batches>>

Next ==
    \/ NextBatchNone
    \/ OpenFails
    \/ OpenHive
    \/ \E key \in Yielded : WalkKey(key)
    \/ FinishWalk
    \/ CallAgain

\* The loop is sequential code over a finite iterator.
Spec == Init /\ [][Next]_vars /\ WF_vars(Next)

-----------------------------------------------------------------------------
\* A row with neither a recovery label nor a diagnostic comes from a well-formed
\* and clean hive, and from cells that are neither recovered nor badly decoded.
\* It may still be a replaced version of its key, which no label tells from the
\* current one, but only where logs were handed to the hive and applied.
CleanRowsAreClean ==
    \A i \in DOMAIN rows :
        rows[i].recovery = "null" /\ rows[i].diagnostics = "null" =>
            /\ hive.kind = "ok" /\ ~hive.dirty
            /\ from[i].key.state # "deleted"
            /\ from[i].key.state = "modified" => req.apply_logs /\ req.logs_present
            /\ from[i].value # 0 =>
                   from[i].key.values[from[i].value] = [state |-> "allocated", diagnostics |-> "null"]

\* is_deleted and the recovery label never contradict each other, and a label
\* of the hive is never put on a recovered cell.
DeletedMarked ==
    \A i \in DOMAIN rows :
        LET value == from[i].value
            gone == \/ from[i].key.state = "deleted"
                    \/ value # 0 /\ from[i].key.values[value].state = "deleted"
        IN  /\ rows[i].is_deleted = gone
            /\ gone = (rows[i].recovery \in {"deleted-orphan", "deleted-reparented"})

\* Two rows with the same key_path and the same kind of recovery come from
\* cells of the same path: the prefix put on orphans never makes an orphan
\* look like another key, not even next to a live key named $Deleted.
RowIdentifiesKey ==
    \A i, j \in DOMAIN rows :
        /\ rows[i].key_path = rows[j].key_path
        /\ (rows[i].recovery = "deleted-orphan") = (rows[j].recovery = "deleted-orphan")
        => from[i].key.path = from[j].key.path

\* Every key the walk selects is in the batch whatever the mode: with a row of
\* its own in the modes keys and all, and with all of its values in the modes
\* values and all.
EveryKeySurfaces ==
    \A n \in DOMAIN seen :
        LET mine == {i \in DOMAIN rows : from[i].key = seen[n]}
        IN  Selected(req.filter, Normalize(seen[n].path, root)) =>
            /\ mine # {}
            /\ Mode # "values" => \E i \in mine : ~rows[i].is_value
            /\ Mode # "keys" => \A v \in 1..Len(seen[n].values) :
                                    \E i \in mine : from[i].value = v

\* q is the key p or lies below it, in any case of the ASCII letters; the root
\* is above all.
AtOrBelow(q, p) ==
    \/ p = EmptyPath
    \/ /\ Len(p) <= Len(q)
       /\ \A i \in DOMAIN p : p[i].text = q[i].text /\ p[i].high = q[i].high

\* With the row of a key, hive_subtree returns every key below it, whatever
\* the case the ASCII letters of their names are written in.
SubtreeClosed ==
    \A i \in DOMAIN rows, n \in DOMAIN seen :
        AtOrBelow(Normalize(seen[n].path, root), rows[i].key_path) =>
            \E j \in DOMAIN rows : from[j].key = seen[n]

\* A key_path read off a row selects that row again when it is passed to
\* hive_subtree, with a backslash before it or without.
PathsSelectThemselves ==
    \A i \in DOMAIN rows :
        /\ Selected(rows[i].key_path, rows[i].key_path)
        /\ Selected(<<EmptySegment>> \o rows[i].key_path, rows[i].key_path)

\* hive_subtree returns one batch however often it is called again, also when
\* the hive does not open, with the rows of one walk and no other.
OneBatch ==
    /\ batches = <<>> \/ batches = <<BatchOf(rows)>>
    /\ pc = "end" => batches # <<>>

\* The scan ends: hive_subtree comes to None, read_hive to its batch.
ScanEnds == <>(pc = IF req.caller = "hive_subtree" THEN "end" ELSE "returned")

-----------------------------------------------------------------------------
(* What the schema says. *)

\* The schema of the rows: a row from a replaced version of a key is labelled
\* modified-prior.
ReplacedVersionsMarked ==
    \A i \in DOMAIN rows :
        from[i].key.state = "modified" => rows[i].recovery = "modified-prior"
=============================================================================
