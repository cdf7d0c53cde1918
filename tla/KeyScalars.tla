----------------------------- MODULE KeyScalars -----------------------------
(***************************************************************************)
(* The scalar functions over a batch of rows: key_info, hive_key and       *)
(* hive_value (scalar/), hive_info and well_formed, and the readers of     *)
(* their argument columns (scalar/io.rs).  The functions are called one    *)
(* after the other on the same batch; each fills its column builders row   *)
(* by row and finishes them into the answer.                               *)
(*                                                                         *)
(* An Arrow builder is the sequence of what was appended to it; the list   *)
(* column of hive_key is its offsets and its child columns.  An answer is  *)
(* read back from the columns the way the database reads it.               *)
(***************************************************************************)
EXTENDS Naturals, FiniteSetsExt, SequencesExt

CONSTANTS
    Null,      \* SQL's NULL
    Blob,      \* contents of the blob argument
    Path,      \* key paths: leading backslashes and the key they name
    Name,      \* value names; "" is the default value's
    Fold,      \* the case-insensitive form of a name
    MaxRows    \* bound: rows of a batch

ASSUME RowsAssumption ==
    MaxRows \in Nat /\ Null \notin Blob /\ Null \notin Path /\ Null \notin Name
ASSUME NameAssumption ==
    /\ "" \in Name /\ Fold \in [Name -> Name]
    /\ \A n \in Name : Fold[n] = Fold[""] => n = ""

\* A blob that opens has keys; lenient says whether notatin's get_key takes a
\* path with leading backslashes.  A key's header counts its values apart
\* from the list of values that can be read.
ASSUME BlobAssumption ==
    \A b \in Blob :
        /\ {b.base, b.ok, b.opens, b.lenient} \subseteq BOOLEAN
        /\ b.opens => b.base
        /\ b.root \in STRING
        /\ \A k \in DOMAIN b.keys :
              /\ b.keys[k].subkeys \in Nat /\ b.keys[k].count \in Nat
              /\ b.keys[k].deleted \in BOOLEAN
              /\ b.keys[k].values \in Seq(Range(b.keys[k].values))
              /\ \A i \in DOMAIN b.keys[k].values : b.keys[k].values[i].name \in Name

Row == [blob : Blob \cup {Null}, path : Path \cup {Null}, name : Name \cup {Null}]

\* A column has the declared type or another one.
Typed == [blob : BOOLEAN, path : BOOLEAN, name : BOOLEAN]

Function == <<"hive_value", "key_info", "hive_key", "hive_info", "well_formed">>

Columns(f) ==
    CASE f = "hive_value"  -> {"value_type", "value_data", "value_raw", "valid"}
      [] f = "key_info"    -> {"last_write", "subkey_count", "value_count", "class_name",
                               "is_deleted", "valid"}
      [] f = "hive_key"    -> {"key_path", "last_write", "class_name", "subkey_count",
                               "value_count", "is_deleted", "values", "valid",
                               "item_name", "item_type", "item_data", "item_raw"}
      [] f = "hive_info"   -> {"hive_type", "root_path", "numbers", "is_dirty", "valid"}
      [] f = "well_formed" -> {"ok", "hive_type", "error", "kind"}

VARIABLES
    batch,     \* the rows of the argument batch
    typed,     \* which columns have the declared type
    call,      \* the function being run, an index of Function
    row,       \* its next row
    cols,      \* its builders
    answers    \* what the finished calls returned

vars == <<batch, typed, call, row, cols, answers>>

NoColumns(f) == [c \in Columns(f) |-> <<>>]

-----------------------------------------------------------------------------
(* Reading the arguments. *)

\* Mutant: the type is looked at first.
FailsBeforeNull(column) == ~typed[column]

\* blob_val, text_val: NULL is looked for before the type.
Fails(column) == batch[row][column] # Null /\ ~typed[column]

\* The columns a function reads.
Reads(f) ==
    CASE f = "hive_value"               -> {"blob", "path", "name"}
      [] f \in {"key_info", "hive_key"} -> {"blob", "path"}
      [] OTHER                          -> {"blob"}

-----------------------------------------------------------------------------
(* notatin, as the lookups use it. *)

\* get_key(path): the key, or none.
GetKey(b, p) ==
    IF b.opens /\ p.key \in DOMAIN b.keys /\ (p.slashes = 0 \/ b.lenient)
    THEN <<b.keys[p.key]>> ELSE <<>>

\* get_value(name): a value of that name in any case.
GetValue(key, n) ==
    {key.values[i] : i \in {j \in DOMAIN key.values : Fold[key.values[j].name] = Fold[n]}}

\* lookup of key_info and hive_key; a NULL argument finds nothing.
Lookup(r) ==
    IF r.blob = Null \/ r.path = Null THEN <<>> ELSE GetKey(r.blob, r.path)

\* text_val(vname).unwrap_or_default()
NameOf(r) == IF r.name = Null THEN "" ELSE r.name

\* Mutant: a NULL name finds nothing.
LookupValueNamed(r) ==
    IF Lookup(r) = <<>> \/ r.name = Null THEN {<<>>}
    ELSE LET found == GetValue(Lookup(r)[1], NameOf(r))
         IN  IF found = {} THEN {<<>>} ELSE {<<v>> : v \in found}

\* lookup of hive_value.
LookupValue(r) ==
    IF Lookup(r) = <<>> THEN {<<>>}
    ELSE LET found == GetValue(Lookup(r)[1], NameOf(r))
         IN  IF found = {} THEN {<<>>} ELSE {<<v>> : v \in found}

\* decode: an empty name is none.
DecodedName(v) == IF v.name = "" THEN Null ELSE v.name

-----------------------------------------------------------------------------
(* Filling the builders: what a row appends to each of them. *)

Items == {"item_name", "item_type", "item_data", "item_raw"}

\* Mutant: the list of a row without a key is not closed.
NoneRowOpenList(f, items) ==
    [c \in Columns(f) \ (Items \cup {"values"}) |-> IF c = "valid" THEN FALSE ELSE Null]

\* Mutant: the list of a row without a key is closed as a list.
NoneRowEmptyList(f, items) ==
    [c \in Columns(f) \ Items |->
        CASE c = "valid"  -> FALSE
          [] c = "values" -> [end |-> items, valid |-> TRUE]
          [] OTHER        -> Null]

\* The None branch: append_null to every builder.  ListBuilder::append_null
\* closes an empty list where the child builders stand.
NoneRow(f, items) ==
    [c \in Columns(f) \ Items |->
        CASE c = "valid"  -> FALSE
          [] c = "values" -> [end |-> items, valid |-> FALSE]
          [] OTHER        -> Null]

HiveValueRow(v) ==
    [value_type |-> v.type, value_data |-> v.data, value_raw |-> v.raw, valid |-> TRUE]

KeyInfoRow(key) ==
    [last_write |-> key.last_write, subkey_count |-> key.subkeys,
     value_count |-> key.count, class_name |-> Null, is_deleted |-> key.deleted,
     valid |-> TRUE]

\* The path is reported without its leading backslashes; items counts the
\* values appended so far, this key's included.
HiveKeyRow(p, key, items) ==
    [key_path |-> p.key, last_write |-> key.last_write, class_name |-> Null,
     subkey_count |-> key.subkeys, value_count |-> key.count,
     is_deleted |-> key.deleted, values |-> [end |-> items, valid |-> TRUE],
     valid |-> TRUE]

\* The root's name is NULL when it is empty or the hive does not open; the
\* versions, sequence numbers and time of the header are one column here.
HiveInfoRow(b) ==
    [hive_type |-> b.type, numbers |-> b.kind, is_dirty |-> b.dirty, valid |-> TRUE,
     root_path |-> IF b.opens /\ b.root # "" THEN b.root ELSE Null]

WellFormedRow(b) ==
    [ok |-> b.ok, hive_type |-> IF b.base THEN b.type ELSE "UNKNOWN",
     error |-> IF b.ok THEN Null ELSE b.kind, kind |-> b.kind]

Push(cs, r) ==
    [c \in DOMAIN cs |-> IF c \in DOMAIN r THEN Append(cs[c], r[c]) ELSE cs[c]]

\* The child builders of hive_key's list.
PushItems(cs, vs) ==
    [cs EXCEPT !.item_name = @ \o [i \in DOMAIN vs |-> DecodedName(vs[i])],
               !.item_type = @ \o [i \in DOMAIN vs |-> vs[i].type],
               !.item_data = @ \o [i \in DOMAIN vs |-> vs[i].data],
               !.item_raw  = @ \o [i \in DOMAIN vs |-> vs[i].raw]]

-----------------------------------------------------------------------------
(* process. *)

Running(f) == call <= Len(Function) /\ Function[call] = f

ReadRow(f) ==
    /\ Running(f) /\ row <= Len(batch)
    /\ \A c \in Reads(f) : ~Fails(c)
    /\ row' = row + 1
    /\ UNCHANGED <<batch, typed, call, answers>>

HiveValueStep ==
    /\ ReadRow("hive_value")
    /\ \E found \in LookupValue(batch[row]) :
          cols' = Push(cols, IF found = <<>> THEN NoneRow("hive_value", 0)
                                             ELSE HiveValueRow(found[1]))

KeyInfoStep ==
    /\ ReadRow("key_info")
    /\ LET key == Lookup(batch[row])
       IN  cols' = Push(cols, IF key = <<>> THEN NoneRow("key_info", 0)
                                            ELSE KeyInfoRow(key[1]))

HiveKeyStep ==
    /\ ReadRow("hive_key")
    /\ LET key == Lookup(batch[row])
           cs  == PushItems(cols, IF key = <<>> THEN <<>> ELSE key[1].values)
           n   == Len(cs.item_name)
       IN  cols' = Push(cs, IF key = <<>> THEN NoneRow("hive_key", n)
                                          ELSE HiveKeyRow(batch[row].path, key[1], n))

HiveInfoStep ==
    /\ ReadRow("hive_info")
    /\ LET b == batch[row].blob
       IN  cols' = Push(cols, IF b # Null /\ b.base THEN HiveInfoRow(b)
                                                    ELSE NoneRow("hive_info", 0))

\* No validity of its own: a NULL blob gives a struct of NULLs.
WellFormedStep ==
    /\ ReadRow("well_formed")
    /\ LET b == batch[row].blob
       IN  cols' = Push(cols, IF b # Null THEN WellFormedRow(b)
                                          ELSE NoneRow("well_formed", 0))

\* The call is over; the next one has builders of its own.
Return(answer) ==
    /\ answers' = Append(answers, answer)
    /\ call' = call + 1 /\ row' = 1
    /\ cols' = IF call < Len(Function) THEN NoColumns(Function[call + 1]) ELSE <<>>
    /\ UNCHANGED <<batch, typed>>

\* A cell that is not NULL in a column of another type fails the call, and
\* what the other rows gave is dropped.
Abort ==
    /\ call <= Len(Function) /\ row <= Len(batch)
    /\ \E c \in Reads(Function[call]) : Fails(c)
    /\ Return([status |-> "error", cols |-> <<>>])

\* finish(), StructArray::new.
Finish ==
    /\ call <= Len(Function) /\ row > Len(batch)
    /\ Return([status |-> "ok", cols |-> cols])

Init ==
    /\ batch \in UNION {[1..n -> Row] : n \in 0..MaxRows}
    /\ typed \in Typed
    /\ call = 1 /\ row = 1 /\ cols = NoColumns(Function[1]) /\ answers = <<>>

Done == call > Len(Function) /\ UNCHANGED vars

Next ==
    \/ HiveValueStep
    \/ KeyInfoStep
    \/ HiveKeyStep
    \/ HiveInfoStep
    \/ WellFormedStep
    \/ Abort
    \/ Finish
    \/ Done

Spec == Init /\ [][Next]_vars

-----------------------------------------------------------------------------
(* Properties. *)

\* The answer of function f, when it has been given.
Answered(f) == \E i \in DOMAIN answers : Function[i] = f /\ answers[i].status = "ok"
Answer(f) == answers[CHOOSE i \in DOMAIN answers : Function[i] = f].cols

(* The builders of a call never drift apart: after r rows each column holds  *)
(* r entries, found or not, the child columns of the list are of one length, *)
(* and the list ends where they do (the two arms of every process loop;      *)
(* StructArray::new panics on columns of different lengths).                 *)
ColumnsAligned ==
    call <= Len(Function) =>
        /\ \A c \in DOMAIN cols \ Items : Len(cols[c]) = row - 1
        /\ Function[call] = "hive_key" =>
              /\ \A c \in Items : Len(cols[c]) = Len(cols.item_name)
              /\ row > 1 => Last(cols.values).end = Len(cols.item_name)

\* The list of values row r of hive_key reads back.
ListAt(cs, r) ==
    LET from == IF r = 1 THEN 0 ELSE cs.values[r - 1].end
    IN  [i \in 1..(cs.values[r].end - from) |->
            [name |-> cs.item_name[from + i], data |-> cs.item_data[from + i]]]

(* Every row reads back what its own arguments ask for, whatever the rows    *)
(* before it found: a key that is absent, or has no values, gives no values  *)
(* of another row, and a row is NULL exactly when its key is not there       *)
(* (hive_key: offsets and validity of the list column).                      *)
RowsReadBack ==
    Answered("hive_key") =>
        \A r \in DOMAIN batch :
            LET cs  == Answer("hive_key")
                key == Lookup(batch[r])
            IN  /\ cs.valid[r] <=> key # <<>>
                /\ cs.valid[r] <=> cs.values[r].valid
                /\ ListAt(cs, r) =
                      IF key = <<>> THEN <<>>
                      ELSE [i \in DOMAIN key[1].values |->
                              [name |-> DecodedName(key[1].values[i]),
                               data |-> key[1].values[i].data]]

(* The three lookups agree on a row: key_info and hive_key find the same     *)
(* keys with the same counts; what hive_value returns is one of the values   *)
(* hive_key lists for that key, with the name asked for, and it returns NULL *)
(* only when none of them has it; a NULL name asks for the default value.    *)
ScalarsAgree ==
    Answered("hive_value") /\ Answered("key_info") /\ Answered("hive_key") =>
        \A r \in DOMAIN batch :
            LET info  == Answer("key_info")
                key   == Answer("hive_key")
                value == Answer("hive_value")
                want  == IF batch[r].name = Null THEN "" ELSE batch[r].name
                named == {i \in DOMAIN ListAt(key, r) :
                            LET n == ListAt(key, r)[i].name
                            IN  IF n = Null THEN want = ""
                                ELSE want # "" /\ Fold[n] = Fold[want]}
            IN  /\ info.valid[r] = key.valid[r]
                /\ info.value_count[r] = key.value_count[r]
                /\ value.valid[r] <=> named # {}
                /\ value.valid[r] =>
                      \E i \in named : ListAt(key, r)[i].data = value.value_data[r]

(* A call fails only for a column of the wrong type, and for every batch     *)
(* that has a cell in such a column that is not NULL, in whatever row; it    *)
(* never fails for what a blob, a path or a name holds (blob_val, text_val,  *)
(* and the `?` in every loop).                                               *)
FailsOnlyForTypes ==
    \A i \in DOMAIN answers :
        (answers[i].status = "error") <=>
            \E r \in DOMAIN batch : \E c \in Reads(Function[i]) :
                batch[r][c] # Null /\ ~typed[c]
=============================================================================
