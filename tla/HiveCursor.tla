----------------------------- MODULE HiveCursor -----------------------------
(***************************************************************************)
(* The file-glob scan cursor of reghive-core (cursor.rs): the playlist     *)
(* position that read_hive externalises between HTTP turns.                *)
(*                                                                         *)
(* Paths are numbered in the byte order in which expand_glob sorts them.   *)
(* A serialised cursor is a record: the JSON form carries the cursor it    *)
(* encodes, the empty slice and malformed bytes carry nothing usable.      *)
(***************************************************************************)
EXTENDS Naturals, Sequences

CONSTANTS
    File,    \* the paths a scan can meet, numbered in sort order
    None     \* Option::None

\* Option<T>: nothing, or one element in a sequence.
Option(T) == {s \in Seq(T) : Len(s) <= 1}

ASSUME FileAssumption == File \subseteq Nat
ASSUME NoneAssumption == None \notin File

Cursor ==
    [pending_files      : Seq(File),
     current_file       : File \cup {None},
     emitted_in_current : Nat]

\* HiveGlobCursor::default(): no current file, nothing pending.
DefaultCursor ==
    [pending_files |-> <<>>, current_file |-> None, emitted_in_current |-> 0]

\* HiveGlobCursor::new: the first file becomes current, the rest are pending.
CursorNew(files) ==
    IF files = <<>>
    THEN DefaultCursor
    ELSE [pending_files      |-> Tail(files),
          current_file       |-> Head(files),
          emitted_in_current |-> 0]

\* Mutant: the last pending file is dropped.
AdvanceFileDropsLast(c) ==
    IF Len(c.pending_files) <= 1
    THEN [c EXCEPT !.current_file = None, !.pending_files = <<>>,
                   !.emitted_in_current = 0]
    ELSE [c EXCEPT !.current_file  = Head(c.pending_files),
                   !.pending_files = Tail(c.pending_files),
                   !.emitted_in_current = 0]

\* advance_file: the current file is finished; pop the next one.
AdvanceFile(c) ==
    IF c.pending_files = <<>>
    THEN [c EXCEPT !.current_file = None, !.emitted_in_current = 0]
    ELSE [c EXCEPT !.current_file  = Head(c.pending_files),
                   !.pending_files = Tail(c.pending_files),
                   !.emitted_in_current = 0]

IsExhausted(c) == c.current_file = None /\ c.pending_files = <<>>

-----------------------------------------------------------------------------
(* The opaque_data channel. *)

Bytes == [form : {"json", "empty", "malformed"}, value : Cursor]

EmptyBytes     == [form |-> "empty", value |-> DefaultCursor]
MalformedBytes == [form |-> "malformed", value |-> DefaultCursor]

\* to_bytes: serialisation of the plain struct cannot fail.
ToBytes(c) == [form |-> "json", value |-> c]

\* from_bytes: an empty slice and malformed bytes both give the default cursor.
FromBytes(b) == IF b.form = "json" THEN b.value ELSE DefaultCursor

-----------------------------------------------------------------------------
(* The files next_batch would still open from a cursor, in order.  A cursor  *)
(* with no current file ends the scan whatever is pending.                   *)
Unread(c) ==
    IF c.current_file = None THEN <<>> ELSE <<c.current_file>> \o c.pending_files
=============================================================================
