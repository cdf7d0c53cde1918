------------------------------ MODULE ReadHive ------------------------------
(***************************************************************************)
(* The read_hive table producer (table/read_hive.rs) over a file system    *)
(* that other programs keep changing.                                      *)
(*                                                                         *)
(* One call of next_batch is many steps: each fs::read is one, so that a   *)
(* file can appear, vanish or change between the glob expansion and the    *)
(* read, and between the read of the primary and of its logs.              *)
(***************************************************************************)
EXTENDS HiveCursor, HiveOpen, FiniteSets

CONSTANTS
    Image,        \* the hive images the disk or the caller may hold
    LogState,     \* what may be found at a log's name
    LogNames,     \* sibling log names probed: 4 in the code
    LogFiles,     \* log files a primary may have
    LogFileOf,    \* the file a name leads to: two names share one where the
                  \* file system ignores case (.LOG1 and .log1)
    Absent,       \* no such file
    Unreadable,   \* a regular file whose read fails
    BlobSource,   \* the source column of an in-memory hive, "<blob>"
    MaxWrites     \* bound: changes other programs make during a scan

ASSUME ImageAssumption == Image \subseteq HiveImage
ASSUME DiskAssumption == Absent \notin Image /\ Unreadable \notin Image
ASSUME BoundAssumption == LogNames \in Nat \ {0} /\ MaxWrites \in Nat
ASSUME LogAssumption == LogState \subseteq LogBytes \cup {"absent", "empty"}
ASSUME NamesAssumption ==
    /\ LogFiles \in Nat /\ LogFileOf \in [1..LogNames -> 1..LogFiles]
    /\ \A i \in 1..LogFiles : \E n \in 1..LogNames : LogFileOf[n] = i
ASSUME BlobAssumption == BlobSource \notin File
ASSUME FileFinite == IsFiniteSet(File)

VARIABLES
    args,     \* the call's arguments: the same on every turn
    disk,     \* disk[f]: the primary at path f and its sibling logs
    writes,   \* changes made to the disk so far
    touched,  \* history: the paths those changes were about
    plan,     \* Plan::Glob, Plan::Blob, or "none" while no producer exists
    cursor,   \* Plan::Glob's cursor
    done,     \* Plan::Blob's done flag
    pc,       \* where next_batch is
    bytes,    \* the bytes read from the primary (an Option)
    logs,     \* the sibling logs collected so far
    probe,    \* the next log name to try
    ret,      \* what next_batch returned (an Option<RecordBatch>)
    tried     \* history: the sources this producer has finished with

producerVars == <<plan, cursor, done, pc, bytes, logs, probe, ret, tried>>
rhVars == <<args, disk, writes, touched, producerVars>>

Source == File \cup {BlobSource}

Batch == [source      : Source,
          rows        : Nat,
          recovery    : Recovery,
          diagnostics : Diagnostics]

DiskEntry == [primary : Image \cup {Absent, Unreadable},
              logs    : [1..LogFiles -> LogState]]

\* Argument 0 is a BLOB (image) or a path spec (image = Absent).
Args == [image : Image \cup {Absent}, apply_logs : BOOLEAN]

IsBlob == args.image # Absent

-----------------------------------------------------------------------------
(* Playlists: expand_glob keeps the regular files and sorts them. *)

Ascending(s) == \A i, j \in DOMAIN s : i < j => s[i] < s[j]

Playlists ==
    {s \in UNION {[1..n -> File] : n \in 0..Cardinality(File)} : Ascending(s)}

\* expand_glob, on the disk as it is now.
ExpandGlob ==
    {s \in Playlists :
        {s[i] : i \in DOMAIN s} = {f \in File : disk[f].primary # Absent}}

-----------------------------------------------------------------------------
(* The environment. *)

WritePrimary(f, p) ==
    /\ writes < MaxWrites
    /\ disk[f].primary # p
    /\ disk' = [disk EXCEPT ![f].primary = p]
    /\ writes' = writes + 1
    /\ touched' = touched \cup {f}
    /\ UNCHANGED <<args, producerVars>>

WriteLog(f, i, l) ==
    /\ writes < MaxWrites
    /\ disk[f].logs[i] # l
    /\ disk' = [disk EXCEPT ![f].logs[i] = l]
    /\ writes' = writes + 1
    /\ touched' = touched \cup {f}
    /\ UNCHANGED <<args, producerVars>>

Environment ==
    \/ \E f \in File, p \in Image \cup {Absent, Unreadable} : WritePrimary(f, p)
    \/ \E f \in File, i \in 1..LogFiles, l \in LogState : WriteLog(f, i, l)

-----------------------------------------------------------------------------
(* The producer. *)

NoProducer ==
    /\ plan = "none" /\ cursor = DefaultCursor /\ done = FALSE
    /\ pc = "off" /\ bytes = <<>> /\ logs = <<>> /\ probe = 0
    /\ ret = <<>> /\ tried = <<>>

DropProducer ==
    /\ plan' = "none" /\ cursor' = DefaultCursor /\ done' = FALSE
    /\ pc' = "off" /\ bytes' = <<>> /\ logs' = <<>> /\ probe' = 0
    /\ ret' = <<>> /\ tried' = <<>>

\* A producer over cursor c, about to be asked for its first batch.
Construct(c) ==
    /\ plan' = IF IsBlob THEN "blob" ELSE "glob"
    /\ cursor' = IF IsBlob THEN DefaultCursor ELSE c
    /\ done' = FALSE
    /\ pc' = "idle" /\ bytes' = <<>> /\ logs' = <<>> /\ probe' = 0
    /\ ret' = <<>> /\ tried' = <<>>

\* producer(): a fresh plan; the glob is expanded on every construction.
Producer(files) == Construct(CursorNew(files))

\* Mutant: a damaged token leaves the freshly expanded playlist in place.
ProducerRestoredOrFresh(token) ==
    \E files \in ExpandGlob :
        Construct(IF token.form = "json" THEN FromBytes(token) ELSE CursorNew(files))

\* producer() followed by restore_resume(token): the cursor is replaced, so
\* that the new expansion of the glob is forgotten.
ProducerRestored(token) == Construct(FromBytes(token))

ResumeSupported == plan = "glob"

EncodeResume == IF plan = "glob" THEN ToBytes(cursor) ELSE EmptyBytes

Return(option) == pc' = "returned" /\ ret' = option

\* Plan::Blob: one batch, even an empty one, then None.  No logs: the caller
\* has no way to pass them.
NextBatchBlob ==
    /\ pc = "idle" /\ plan = "blob"
    /\ \/ /\ done
          /\ Return(<<>>)
          /\ UNCHANGED <<done, tried>>
       \/ /\ ~done
          /\ done' = TRUE
          /\ \E built \in NotatinBuild(args.image, <<>>) :
                Return(<<BuildRows(args.apply_logs, args.image, BlobSource,
                                   <<>>, built)>>)
          /\ tried' = Append(tried, BlobSource)
    /\ UNCHANGED <<args, disk, writes, touched, plan, cursor, bytes, logs, probe>>

\* The head of the glob loop with no current file: return None.
NextBatchExhausted ==
    /\ pc \in {"idle", "loop"} /\ plan = "glob"
    /\ cursor.current_file = None
    /\ Return(<<>>)
    /\ UNCHANGED <<args, disk, writes, touched, plan, cursor, done, bytes, logs, probe, tried>>

\* Mutant: the logs of the previous file are not forgotten.
ReadPrimaryKeepsLogs ==
    /\ pc \in {"idle", "loop"} /\ plan = "glob"
    /\ cursor.current_file # None
    /\ LET p == disk[cursor.current_file].primary
       IN  bytes' = IF p \in {Absent, Unreadable} THEN <<>> ELSE <<p>>
    /\ probe' = 1
    /\ pc' = "logs"
    /\ UNCHANGED <<args, disk, writes, touched, plan, cursor, done, logs, ret, tried>>

\* The head of the glob loop: fs::read(&file).ok().
ReadPrimary ==
    /\ pc \in {"idle", "loop"} /\ plan = "glob"
    /\ cursor.current_file # None
    /\ LET p == disk[cursor.current_file].primary
       IN  bytes' = IF p \in {Absent, Unreadable} THEN <<>> ELSE <<p>>
    /\ logs' = <<>> /\ probe' = 1
    /\ pc' = "logs"
    /\ UNCHANGED <<args, disk, writes, touched, plan, cursor, done, ret, tried>>

\* Mutant: the probe runs one name past the last.
ReadLogPastEnd ==
    /\ pc = "logs"
    /\ LET l == disk[cursor.current_file].logs[LogFileOf[probe]]
       IN  logs' = IF l \in LogBytes THEN Append(logs, l) ELSE logs
    /\ probe' = probe + 1
    /\ pc' = IF probe > LogNames THEN "build" ELSE "logs"
    /\ UNCHANGED <<args, disk, writes, touched, plan, cursor, done, bytes, ret, tried>>

\* sibling_logs, one candidate name: absent and empty logs are omitted.
ReadLog ==
    /\ pc = "logs"
    /\ LET l == disk[cursor.current_file].logs[LogFileOf[probe]]
       IN  logs' = IF l \in LogBytes THEN Append(logs, l) ELSE logs
    /\ probe' = probe + 1
    /\ pc' = IF probe = LogNames THEN "build" ELSE "logs"
    /\ UNCHANGED <<args, disk, writes, touched, plan, cursor, done, bytes, ret, tried>>

\* The rows this file gives: none when the primary could not be read.
FileBatches ==
    IF bytes = <<>> THEN {}
    ELSE {BuildRows(args.apply_logs, bytes[1], cursor.current_file, logs, built) :
             built \in NotatinBuild(bytes[1], HandedLogs(args.apply_logs, logs))}

\* The file gave rows: advance and return them.
EmitFile ==
    /\ pc = "build"
    /\ \E b \in FileBatches : b.rows > 0 /\ Return(<<b>>)
    /\ tried' = Append(tried, cursor.current_file)
    /\ cursor' = AdvanceFile(cursor)
    /\ UNCHANGED <<args, disk, writes, touched, plan, done, bytes, logs, probe>>

\* Mutant: the loop continues on a rowless file without advancing.
SkipFileNoAdvance ==
    /\ pc = "build"
    /\ FileBatches = {} \/ \E b \in FileBatches : b.rows = 0
    /\ pc' = "loop"
    /\ UNCHANGED <<args, disk, writes, touched, plan, cursor, done, bytes, logs,
                   probe, ret, tried>>

\* Mutant: a rowless file ends the scan.
SkipFileEndsScan ==
    /\ pc = "build"
    /\ FileBatches = {} \/ \E b \in FileBatches : b.rows = 0
    /\ tried' = Append(tried, cursor.current_file)
    /\ cursor' = AdvanceFile(cursor)
    /\ Return(<<>>)
    /\ UNCHANGED <<args, disk, writes, touched, plan, done, bytes, logs, probe>>

\* The file gave no rows: advance; return None if that was the last one.
SkipFile ==
    /\ pc = "build"
    /\ FileBatches = {} \/ \E b \in FileBatches : b.rows = 0
    /\ tried' = Append(tried, cursor.current_file)
    /\ cursor' = AdvanceFile(cursor)
    /\ IF IsExhausted(cursor')
       THEN Return(<<>>)
       ELSE pc' = "loop" /\ UNCHANGED ret
    /\ UNCHANGED <<args, disk, writes, touched, plan, done, bytes, logs, probe>>

NextBatchStep ==
    \/ NextBatchBlob
    \/ NextBatchExhausted
    \/ ReadPrimary
    \/ ReadLog
    \/ EmitFile
    \/ SkipFile

-----------------------------------------------------------------------------
RHInit ==
    /\ args \in Args
    /\ disk \in [File -> DiskEntry]
    /\ writes = 0 /\ touched = {}
    /\ NoProducer

ProducerTypeOK ==
    /\ plan \in {"none", "glob", "blob"}
    /\ cursor \in Cursor
    /\ done \in BOOLEAN
    /\ pc \in {"off", "idle", "loop", "logs", "build", "returned"}
    /\ bytes \in Option(Image)
    /\ logs \in Seq(LogBytes)
    /\ probe \in 0..(LogNames + 1)
    /\ ret \in Option(Batch)
    /\ tried \in Seq(Source)
    /\ pc \in {"logs", "build"} => cursor.current_file \in File
    /\ pc = "logs" => probe \in 1..LogNames
    /\ plan = "blob" => IsBlob

RHTypeOK ==
    /\ args \in Args
    /\ disk \in [File -> DiskEntry]
    /\ writes \in 0..MaxWrites /\ touched \subseteq File
    /\ ProducerTypeOK
=============================================================================
