--------------------------- MODULE HttpScanProofs ---------------------------
(***************************************************************************)
(* What a scan promises its caller, for every set of files and images and  *)
(* every number of lost turns, damaged tokens and disk changes: no source  *)
(* is lost or read twice, it implements GlobScan, files come once and in   *)
(* order, labels agree with the disk, and no hive that opens is missed.    *)
(***************************************************************************)
EXTENDS HttpScan, SequenceTheorems, FiniteSetTheorems, TLAPS

-----------------------------------------------------------------------------
(* What the cursor operations preserve, for every list of files. *)

\* A non-empty sequence is its head followed by its tail.
LEMMA HeadThenTail ==
    ASSUME NEW S, NEW s \in Seq(S), s # <<>>
    PROVE  s = <<Head(s)>> \o Tail(s)
<1>1. Head(s) \in S /\ Tail(s) \in Seq(S) /\ Len(s) \in Nat \ {0}
    BY HeadTailProperties, EmptySeq
<1>2. <<Head(s)>> \in Seq(S) /\ Len(<<Head(s)>>) = 1
    BY <1>1
<1>3. /\ <<Head(s)>> \o Tail(s) \in Seq(S)
      /\ Len(<<Head(s)>> \o Tail(s)) = Len(s)
      /\ \A i \in 1..Len(s) : (<<Head(s)>> \o Tail(s))[i] = s[i]
    BY <1>1, <1>2, HeadTailProperties, ConcatProperties
<1> QED BY <1>3, SeqEqual

\* HiveGlobCursor::new gives a cursor.
LEMMA CursorNewType ==
    ASSUME NEW files \in Seq(File)
    PROVE  CursorNew(files) \in Cursor
<1>1. CASE files = <<>>
    BY <1>1, EmptySeq DEF CursorNew, DefaultCursor, Cursor
<1>2. CASE files # <<>>
    BY <1>2, HeadTailProperties DEF CursorNew, Cursor
<1> QED BY <1>1, <1>2

\* advance_file gives a cursor.
LEMMA AdvanceFileType ==
    ASSUME NEW c \in Cursor
    PROVE  AdvanceFile(c) \in Cursor
<1>1. CASE c.pending_files = <<>>
    BY <1>1 DEF AdvanceFile, Cursor
<1>2. CASE c.pending_files # <<>>
    <2>1. Head(c.pending_files) \in File /\ Tail(c.pending_files) \in Seq(File)
        BY <1>2, HeadTailProperties DEF Cursor
    <2> QED BY <1>2, <2>1 DEF AdvanceFile, Cursor
<1> QED BY <1>1, <1>2

LEMMA DefaultCursorType == DefaultCursor \in Cursor
    BY EmptySeq DEF DefaultCursor, Cursor

\* from_bytes gives a cursor whatever the bytes.
LEMMA FromBytesType ==
    ASSUME NEW b \in Bytes
    PROVE  FromBytes(b) \in Cursor
    BY DefaultCursorType DEF FromBytes, Bytes

LEMMA ToBytesType ==
    ASSUME NEW c \in Cursor
    PROVE  ToBytes(c) \in Bytes
    BY DEF ToBytes, Bytes

LEMMA UnreadType ==
    ASSUME NEW c \in Cursor
    PROVE  Unread(c) \in Seq(File)
<1>1. CASE c.current_file = None
    BY <1>1, EmptySeq DEF Unread
<1>2. CASE c.current_file # None
    <2>1. <<c.current_file>> \in Seq(File) /\ c.pending_files \in Seq(File)
        BY <1>2 DEF Cursor
    <2> QED BY <1>2, <2>1, ConcatProperties DEF Unread
<1> QED BY <1>1, <1>2

\* from_bytes undoes to_bytes ("round-trips losslessly", cursor.rs).
LEMMA RoundTrip ==
    ASSUME NEW c \in Cursor
    PROVE  FromBytes(ToBytes(c)) = c
    BY DEF FromBytes, ToBytes

\* A new cursor has every file still to read, in order.
LEMMA UnreadNew ==
    ASSUME NEW files \in Seq(File)
    PROVE  Unread(CursorNew(files)) = files
<1>1. CASE files = <<>>
    BY <1>1 DEF CursorNew, DefaultCursor, Unread
<1>2. CASE files # <<>>
    <2>1. Head(files) # None
        BY <1>2, HeadTailProperties, NoneAssumption
    <2>2. Unread(CursorNew(files)) = <<Head(files)>> \o Tail(files)
        BY <1>2, <2>1 DEF CursorNew, Unread
    <2> QED BY <1>2, <2>2, HeadThenTail
<1> QED BY <1>1, <1>2

\* advance_file removes exactly the current file from the front.
LEMMA UnreadAdvance ==
    ASSUME NEW c \in Cursor, c.current_file # None
    PROVE  Unread(c) = <<c.current_file>> \o Unread(AdvanceFile(c))
<1> DEFINE p == c.pending_files
<1>1. Unread(c) = <<c.current_file>> \o p
    BY DEF Unread
<1>2. CASE p = <<>>
    BY <1>1, <1>2 DEF Unread, AdvanceFile, Cursor
<1>3. CASE p # <<>>
    <2>1. Head(p) \in File /\ p = <<Head(p)>> \o Tail(p)
        BY <1>3, HeadTailProperties, HeadThenTail DEF Cursor
    <2>2. /\ AdvanceFile(c).current_file = Head(p)
          /\ AdvanceFile(c).pending_files = Tail(p)
        BY <1>3 DEF AdvanceFile, Cursor
    <2> QED BY <1>1, <2>1, <2>2, NoneAssumption DEF Unread
<1> QED BY <1>2, <1>3

\* An exhausted cursor has nothing left to read.
LEMMA UnreadExhausted ==
    ASSUME NEW c \in Cursor, IsExhausted(c)
    PROVE  Unread(c) = <<>>
    BY DEF IsExhausted, Unread

-----------------------------------------------------------------------------
(* Typing. *)

\* Every expansion of the glob is a list of files.
LEMMA PlaylistType ==
    ASSUME NEW files \in ExpandGlob
    PROVE  files \in Seq(File)
<1>1. Cardinality(File) \in Nat
    BY FileFinite, FS_CardinalityType
<1>2. PICK n \in 0..Cardinality(File) : files \in [1..n -> File]
    BY DEF ExpandGlob, Playlists
<1>3. n \in Nat
    BY <1>1, <1>2
<1> QED BY <1>2, <1>3, SeqDef

\* build_rows gives a batch.
LEMMA BuildRowsType ==
    ASSUME NEW apply \in BOOLEAN, NEW h \in Image, NEW s \in Source,
           NEW ls \in Seq(LogBytes), NEW built
    PROVE  BuildRows(apply, h, s, ls, built) \in Batch
<1>1. h.keys \in Nat
    BY ImageAssumption DEF HiveImage
<1>2. BaseRecoveryLabel(h.dirty, ls # <<>>, apply) \in Recovery
    BY DEF BaseRecoveryLabel, Recovery
<1> QED BY <1>1, <1>2 DEF BuildRows, Batch, Diagnostics

LEMMA SomeOption ==
    ASSUME NEW T, NEW e \in T
    PROVE  <<e>> \in Option(T)
    BY DEF Option

LEMMA NoneOption ==
    ASSUME NEW T
    PROVE  <<>> \in Option(T)
    BY DEF Option

\* The content of an Option that is not None.
LEMMA Unwrap ==
    ASSUME NEW T, NEW s \in Option(T), s # <<>>
    PROVE  s[1] \in T /\ s = <<s[1]>>
<1>1. s \in Seq(T)
    BY DEF Option
<1>2. Len(s) = 1 /\ s[1] \in T
    <2>1. Len(s) \in Nat \ {0}
        BY <1>1, EmptySeq, Zenon
    <2>2. Len(s) <= 1
        BY Zenon DEF Option
    <2>3. \A n \in Nat \ {0} : n <= 1 => n = 1
        OBVIOUS
    <2>4. Len(s) = 1
        BY <2>1, <2>2, <2>3, Zenon
    <2> QED BY <1>1, <2>4, ElementOfSeq
<1>3. <<s[1]>> \in Seq(T) /\ Len(<<s[1]>>) = 1 /\ <<s[1]>>[1] = s[1]
    BY <1>2
<1>4. \A i \in 1..1 : s[i] = <<s[1]>>[i]
    BY <1>3
<1> QED BY <1>1, <1>2, <1>3, <1>4, SeqEqual

LEMMA EmptyTypes ==
    /\ <<>> \in Seq(LogBytes) /\ <<>> \in Seq(Source) /\ <<>> \in Seq(Batch)
    /\ <<>> \in Option(Image) /\ <<>> \in Option(Batch)
    /\ <<>> \in Option(Bytes) /\ <<>> \in Option(Response)
    BY EmptySeq, NoneOption

LEMMA FileBatchesType ==
    ASSUME TypeOK, pc = "build"
    PROVE  FileBatches \subseteq Batch
<1>1. CASE bytes = <<>>
    BY <1>1 DEF FileBatches
<1>2. CASE bytes # <<>>
    <2>1. bytes[1] \in Image
        BY <1>2, Unwrap DEF TypeOK, RHTypeOK, ProducerTypeOK
    <2>2. /\ cursor.current_file \in Source
          /\ args.apply_logs \in BOOLEAN
          /\ logs \in Seq(LogBytes)
        BY DEF TypeOK, RHTypeOK, ProducerTypeOK, Source, Args
    <2> QED BY <1>2, <2>1, <2>2, BuildRowsType DEF FileBatches
<1> QED BY <1>1, <1>2

LEMMA DropType == DropProducer => ProducerTypeOK'
<1> SUFFICES ASSUME DropProducer PROVE ProducerTypeOK'
    OBVIOUS
<1>1. probe' \in 0..(LogNames + 1)
    BY BoundAssumption DEF DropProducer
<1>2. pc' = "off" /\ plan' = "none" /\ done' \in BOOLEAN
    BY DEF DropProducer
<1>3. cursor' \in Cursor
    BY DefaultCursorType DEF DropProducer
<1>4. /\ bytes' \in Option(Image) /\ logs' \in Seq(LogBytes)
      /\ ret' \in Option(Batch) /\ tried' \in Seq(Source)
    BY EmptyTypes DEF DropProducer
<1> QED BY <1>1, <1>2, <1>3, <1>4 DEF ProducerTypeOK

LEMMA ConstructType ==
    ASSUME TypeOK, NEW c \in Cursor, Construct(c), args' = args
    PROVE  ProducerTypeOK'
<1>1. probe' \in 0..(LogNames + 1)
    BY BoundAssumption DEF Construct
<1>2. pc' = "idle" /\ done' \in BOOLEAN
    BY DEF Construct
<1>3. plan' \in {"none", "glob", "blob"} /\ (plan' = "blob" => IsBlob')
    BY DEF Construct, IsBlob
<1>4. cursor' \in Cursor
    BY DefaultCursorType DEF Construct
<1>5. /\ bytes' \in Option(Image) /\ logs' \in Seq(LogBytes)
      /\ ret' \in Option(Batch) /\ tried' \in Seq(Source)
    BY EmptyTypes DEF Construct
<1> QED BY <1>1, <1>2, <1>3, <1>4, <1>5 DEF ProducerTypeOK

\* One more disk change stays within the bound.
LEMMA CountUp ==
    ASSUME NEW n \in 0..MaxWrites, n < MaxWrites
    PROVE  n + 1 \in 0..MaxWrites
    BY BoundAssumption

\* Every step of the scan keeps every variable in its type.
LEMMA TypeStep == TypeOK /\ [Next]_vars => TypeOK'
<1> SUFFICES ASSUME TypeOK, [Next]_vars PROVE TypeOK'
    OBVIOUS
<1> USE DEF TypeOK, RHTypeOK, ProducerTypeOK, IsBlob
<1>1. CASE StartFirstTurn
    <2>1. PICK files \in ExpandGlob :
            Producer(files) /\ listed' = IF IsBlob THEN <<BlobSource>> ELSE files
        BY <1>1 DEF StartFirstTurn
    <2>2. files \in Seq(File)
        BY PlaylistType
    <2>3. ProducerTypeOK'
        BY <1>1, <2>1, <2>2, CursorNewType, ConstructType DEF StartFirstTurn, Producer
    <2>4. listed' \in Seq(Source)
        <3>1. files \in Seq(Source)
            BY <2>2, SeqMonotonic DEF Source
        <3>2. <<BlobSource>> \in Seq(Source)
            BY DEF Source
        <3> QED BY <2>1, <3>1, <3>2
    <2> QED BY <1>1, <2>3, <2>4 DEF StartFirstTurn, clientVars
<1>2. CASE StartNextTurn
    <2>1. token[1] \in Bytes
        BY <1>2, Unwrap DEF StartNextTurn
    <2>2. ProducerTypeOK'
        BY <1>2, <2>1, FromBytesType, ConstructType DEF StartNextTurn, ProducerRestored
    <2> QED BY <1>2, <2>2 DEF StartNextTurn, clientVars
<1>3. CASE NextBatch
    <2> USE DEF NextBatch, clientVars, turnVars
    <2>1. CASE NextBatchBlob
        <3>1. CASE done
            BY <1>3, <2>1, <3>1, EmptyTypes DEF NextBatchBlob, Return, IsBlob
        <3>2. CASE ~done
            <4>1. PICK built \in NotatinBuild(args.image, <<>>) :
                    Return(<<BuildRows(args.apply_logs, args.image, BlobSource,
                                       <<>>, built)>>)
                BY <2>1, <3>2 DEF NextBatchBlob
            <4>2. args.image \in Image /\ args.apply_logs \in BOOLEAN
                  /\ BlobSource \in Source
                BY <2>1 DEF NextBatchBlob, Args, IsBlob, Source
            <4>3. ret' \in Option(Batch)
                BY <4>1, <4>2, EmptyTypes, BuildRowsType, SomeOption DEF Return
            <4>4. tried' \in Seq(Source)
                <5>1. tried' = Append(tried, BlobSource)
                    BY <2>1, <3>2, Zenon DEF NextBatchBlob
                <5> QED BY <4>2, <5>1, AppendProperties
            <4> QED BY <1>3, <2>1, <3>2, <4>1, <4>3, <4>4 DEF NextBatchBlob, Return
        <3> QED BY <3>1, <3>2
    <2>2. CASE NextBatchExhausted
        BY <1>3, <2>2, EmptyTypes DEF NextBatchExhausted, Return
    <2>3. CASE ReadPrimary
        <3>1. cursor.current_file \in File
            BY <2>3 DEF ReadPrimary, Cursor
        <3>2. disk[cursor.current_file].primary \in Image \cup {Absent, Unreadable}
            BY <3>1 DEF DiskEntry
        <3>3. bytes' \in Option(Image)
            BY <2>3, <3>2, SomeOption, NoneOption DEF ReadPrimary
        <3>4. logs' \in Seq(LogBytes) /\ probe' \in 1..LogNames
            BY <2>3, EmptyTypes, BoundAssumption DEF ReadPrimary
        <3> QED BY <1>3, <2>3, <3>1, <3>3, <3>4, BoundAssumption DEF ReadPrimary
    <2>4. CASE ReadLog
        <3>1. logs' \in Seq(LogBytes)
            BY <2>4 DEF ReadLog
        <3>2. /\ probe' \in 0..(LogNames + 1)
              /\ pc' = "logs" => probe' \in 1..LogNames
              /\ pc' \in {"logs", "build"}
            BY <2>4, BoundAssumption DEF ReadLog
        <3> QED BY <1>3, <2>4, <3>1, <3>2 DEF ReadLog
    <2>5. CASE EmitFile
        <3>1. PICK b \in FileBatches : Return(<<b>>)
            BY <2>5 DEF EmitFile
        <3>2. ret' \in Option(Batch)
            BY <2>5, <3>1, FileBatchesType, SomeOption DEF EmitFile, Return
        <3>3. cursor' \in Cursor
            BY <2>5, AdvanceFileType DEF EmitFile
        <3>4. tried' \in Seq(Source)
            BY <2>5 DEF EmitFile, Source
        <3> QED BY <1>3, <2>5, <3>1, <3>2, <3>3, <3>4 DEF EmitFile, Return
    <2>6. CASE SkipFile
        <3>1. cursor' \in Cursor
            BY <2>6, AdvanceFileType DEF SkipFile
        <3>2. tried' \in Seq(Source)
            BY <2>6 DEF SkipFile, Source
        <3>3. ret' \in Option(Batch) /\ pc' \in {"returned", "loop"}
            BY <2>6, EmptyTypes DEF SkipFile, Return, IsExhausted
        <3> QED BY <1>3, <2>6, <3>1, <3>2, <3>3 DEF SkipFile
    <2> QED BY <1>3, <2>1, <2>2, <2>3, <2>4, <2>5, <2>6 DEF NextBatchStep
<1>4. CASE Collect
    <2>1. sent' \in Seq(Batch)
        BY <1>4, Unwrap DEF Collect
    <2> QED BY <1>4, <2>1, EmptyTypes DEF Collect, clientVars
<1>5. ASSUME NEW tok \in Option(Bytes), Answer(tok) PROVE TypeOK'
    <2>1. resp' \in Option(Response)
        <3>1. [batches |-> sent, token |-> tok, tried |-> tried] \in Response
            BY DEF Response
        <3> QED BY <1>5, <3>1, SomeOption DEF Answer
    <2>2. ProducerTypeOK'
        BY <1>5, DropType DEF Answer
    <2> QED BY <1>5, <2>1, <2>2, EmptyTypes DEF Answer, clientVars
<1>6. CASE EndTurn
    <2>1. EncodeResume \in Bytes
        BY ToBytesType, DefaultCursorType DEF EncodeResume, EmptyBytes, Bytes
    <2> QED BY <1>5, <1>6, <2>1, SomeOption DEF EndTurn
<1>7. CASE FinishTurn
    BY <1>5, <1>7, EmptyTypes DEF FinishTurn
<1>8. CASE Deliver
    <2>1. resp[1] \in Response
        BY <1>8, Unwrap DEF Deliver
    <2>2. received' \in Seq(Batch) /\ attempted' \in Seq(Source)
        BY <1>8, <2>1, ConcatProperties DEF Deliver, Response
    <2>3. token' \in Option(Bytes)
        BY <1>8, <2>1 DEF Deliver, Response
    <2> QED BY <1>8, <2>2, <2>3, EmptyTypes DEF Deliver, rhVars, producerVars
<1>9. CASE LoseTurn
    <2>1. ProducerTypeOK'
        BY <1>9, DropType DEF LoseTurn
    <2> QED BY <1>9, <2>1, EmptyTypes, TransportAssumption DEF LoseTurn, clientVars
<1>10. CASE CorruptToken
    <2>1. token' \in Option(Bytes)
        <3>1. EmptyBytes \in Bytes /\ MalformedBytes \in Bytes
            BY DefaultCursorType DEF EmptyBytes, MalformedBytes, Bytes
        <3> QED BY <1>10, <3>1, SomeOption DEF CorruptToken
    <2> QED BY <1>10, <2>1, TransportAssumption
           DEF CorruptToken, rhVars, producerVars, turnVars
<1>11. CASE OtherPrograms
    <2> USE DEF OtherPrograms, producerVars, clientVars, turnVars
    <2>1. ASSUME NEW f \in File, NEW p \in Image \cup {Absent, Unreadable},
                 WritePrimary(f, p)
          PROVE  TypeOK'
        <3>1. [disk[f] EXCEPT !.primary = p] \in DiskEntry
            BY DEF DiskEntry
        <3>2. disk' \in [File -> DiskEntry]
            BY <2>1, <3>1 DEF WritePrimary
        <3>3. writes' \in 0..MaxWrites /\ touched' \subseteq File
            <4>1. /\ writes \in 0..MaxWrites /\ writes < MaxWrites /\ writes' = writes + 1
                  /\ touched \subseteq File /\ touched' = touched \cup {f}
                BY <2>1 DEF WritePrimary
            <4> QED BY <4>1, CountUp
        <3>4. RHTypeOK'
            BY <2>1, <3>2, <3>3 DEF WritePrimary
        <3> QED BY <1>11, <3>4
    <2>2. ASSUME NEW f \in File, NEW i \in 1..LogFiles, NEW l \in LogState,
                 WriteLog(f, i, l)
          PROVE  TypeOK'
        <3>1. [disk[f] EXCEPT !.logs[i] = l] \in DiskEntry
            BY DEF DiskEntry
        <3>2. disk' \in [File -> DiskEntry]
            BY <2>2, <3>1 DEF WriteLog
        <3>3. writes' \in 0..MaxWrites /\ touched' \subseteq File
            <4>1. /\ writes \in 0..MaxWrites /\ writes < MaxWrites /\ writes' = writes + 1
                  /\ touched \subseteq File /\ touched' = touched \cup {f}
                BY <2>2 DEF WriteLog
            <4> QED BY <4>1, CountUp
        <3>4. RHTypeOK'
            BY <2>2, <3>2, <3>3 DEF WriteLog
        <3> QED BY <1>11, <3>4
    <2> QED BY <1>11, <2>1, <2>2 DEF Environment
<1>12. CASE UNCHANGED vars
    BY <1>12 DEF vars, rhVars, producerVars, clientVars, turnVars
<1> QED BY <1>1, <1>2, <1>3, <1>4, <1>6, <1>7, <1>8, <1>9, <1>10, <1>11, <1>12
        DEF Next, TurnStep, Finished

LEMMA TypeInit == Init => TypeOK
<1> SUFFICES ASSUME Init PROVE TypeOK
    OBVIOUS
<1>1. writes \in 0..MaxWrites /\ lost \in 0..MaxLost /\ damaged \in 0..MaxDamaged
      /\ probe \in 0..(LogNames + 1)
    BY BoundAssumption, TransportAssumption DEF Init, RHInit, NoProducer
<1>2. ProducerTypeOK
    BY <1>1, EmptyTypes, DefaultCursorType
       DEF Init, RHInit, NoProducer, ProducerTypeOK
<1> QED BY <1>1, <1>2, EmptyTypes DEF Init, RHInit, TypeOK, RHTypeOK

\* Every reachable state of the scan is well typed.
THEOREM TypeCorrect == Spec => []TypeOK
    BY TypeInit, TypeStep, PTL DEF Spec

-----------------------------------------------------------------------------
(* Conservation. *)

IInv == TypeOK /\ TurnShape /\ Conservation

LEMMA LeftType ==
    ASSUME TypeOK
    PROVE  Left \in Seq(Source)
<1>1. Unread(cursor) \in Seq(Source)
    BY UnreadType, SeqMonotonic DEF TypeOK, RHTypeOK, ProducerTypeOK, Source
<1>2. <<BlobSource>> \in Seq(Source) /\ <<>> \in Seq(Source)
    BY EmptyTypes DEF Source
<1> QED BY <1>1, <1>2 DEF Left

\* Finishing with the first source of what is left keeps the whole.
LEMMA Shift ==
    \A a, t, r \in Seq(Source) : \A e \in Source :
        a \o Append(t, e) \o r = a \o t \o (<<e>> \o r)
<1> SUFFICES ASSUME NEW a \in Seq(Source), NEW t \in Seq(Source),
                    NEW r \in Seq(Source), NEW e \in Source
             PROVE  a \o Append(t, e) \o r = a \o t \o (<<e>> \o r)
    OBVIOUS
<1>1. <<e>> \in Seq(Source) /\ Append(t, e) = t \o <<e>>
    BY AppendIsConcat
<1>2. a \o t \in Seq(Source) /\ t \o <<e>> \in Seq(Source)
    BY <1>1, ConcatProperties
<1>3. a \o (t \o <<e>>) = (a \o t) \o <<e>>
    BY <1>1, ConcatAssociative
<1>4. ((a \o t) \o <<e>>) \o r = (a \o t) \o (<<e>> \o r)
    BY <1>1, <1>2, ConcatAssociative
<1> QED BY <1>1, <1>3, <1>4

\* advance_file moves one file from what is left to what is finished.
LEMMA AdvanceConserves ==
    ASSUME IInv, pc = "build",
           tried' = Append(tried, cursor.current_file),
           cursor' = AdvanceFile(cursor),
           plan' = plan, attempted' = attempted, listed' = listed, damaged = 0
    PROVE  attempted' \o tried' \o Left' = listed'
<1>1. cursor \in Cursor /\ cursor.current_file \in File /\ cursor.current_file # None
    BY NoneAssumption DEF IInv, TypeOK, RHTypeOK, ProducerTypeOK
<1>2. plan = "glob"
    BY DEF IInv, TurnShape
<1>3. Left = <<cursor.current_file>> \o Unread(cursor')
    BY <1>1, <1>2, UnreadAdvance DEF Left
<1>4. Left' = Unread(cursor')
    BY <1>2 DEF Left
<1>5. Unread(cursor') \in Seq(Source)
    BY <1>1, AdvanceFileType, UnreadType, SeqMonotonic DEF Source
<1>6. attempted \o Append(tried, cursor.current_file) \o Unread(cursor')
        = attempted \o tried \o Left
    <2>1. /\ attempted \in Seq(Source) /\ tried \in Seq(Source)
          /\ cursor.current_file \in Source
        BY <1>1 DEF IInv, TypeOK, RHTypeOK, ProducerTypeOK, Source
    <2>2. attempted \o Append(tried, cursor.current_file) \o Unread(cursor')
            = attempted \o tried \o (<<cursor.current_file>> \o Unread(cursor'))
        <3> DEFINE left == Unread(cursor')
                   e == cursor.current_file
        <3>1. /\ attempted \in Seq(Source) /\ tried \in Seq(Source)
              /\ left \in Seq(Source) /\ e \in Source
            BY <1>5, <2>1
        <3> HIDE DEF left, e
        <3>2. \A t, r \in Seq(Source) : \A x \in Source :
                attempted \o Append(t, x) \o r = attempted \o t \o (<<x>> \o r)
            BY <3>1, Shift, Zenon
        <3>3. \A r \in Seq(Source) : \A x \in Source :
                attempted \o Append(tried, x) \o r = attempted \o tried \o (<<x>> \o r)
            BY <3>1, <3>2, Zenon
        <3>4. attempted \o Append(tried, e) \o left = attempted \o tried \o (<<e>> \o left)
            BY <3>1, <3>3, Zenon
        <3> QED BY <3>4 DEF left, e
    <2> QED BY <1>3, <2>2
<1>7. attempted \o tried \o Left = listed
    BY DEF IInv, Conservation
<1> QED BY <1>4, <1>6, <1>7

\* Every step of the scan keeps the invariant.
LEMMA ConservationStep ==
    ASSUME IInv, [Next]_vars
    PROVE  IInv'
<1>0. TypeOK /\ TypeOK' /\ TurnShape /\ Conservation
    BY TypeStep DEF IInv
<1> SUFFICES TurnShape' /\ Conservation'
    BY <1>0 DEF IInv
<1>seq. /\ attempted \in Seq(Source) /\ tried \in Seq(Source)
        /\ listed \in Seq(Source) /\ playlist \in Seq(Source)
        /\ Left \in Seq(Source)
    <2>1. Left \in Seq(Source)
        BY <1>0, LeftType
    <2> QED BY <1>0, <2>1 DEF TypeOK, RHTypeOK, ProducerTypeOK
<1>1. CASE StartFirstTurn
    <2>1. PICK files \in ExpandGlob :
            Producer(files) /\ listed' = IF IsBlob THEN <<BlobSource>> ELSE files
        BY <1>1 DEF StartFirstTurn
    <2>2. files \in Seq(File) /\ CursorNew(files) \in Cursor
        BY PlaylistType, CursorNewType
    <2>3. attempted = <<>> /\ attempted' = <<>> /\ tried' = <<>>
        BY <1>0, <1>1, <2>1
           DEF StartFirstTurn, Idle, TurnShape, Producer, Construct, clientVars
    <2>4. Left' = listed'
        BY <1>1, <2>1, <2>2, UnreadNew DEF Left, Producer, Construct
    <2>5. attempted' \o tried' \o Left' = listed'
        BY <1>0, <2>3, <2>4, ConcatEmptySeq DEF TypeOK
    <2>6. /\ pc' = "idle" /\ plan' = (IF IsBlob' THEN "blob" ELSE "glob")
          /\ UNCHANGED <<args, client, token, attempted, playlist, resp, damaged>>
          /\ client = "running" /\ token = <<>> /\ resp = <<>>
        BY <1>1, <2>1 DEF StartFirstTurn, Idle, Producer, Construct, clientVars, IsBlob
    <2> QED BY <1>0, <2>3, <2>5, <2>6 DEF TurnShape, Conservation
<1>2. CASE StartNextTurn
    <2>1. /\ pc' = "idle" /\ plan' = "glob" /\ ~IsBlob /\ ~IsBlob'
          /\ UNCHANGED <<args, client, token, attempted, playlist, resp, damaged>>
          /\ client = "running" /\ token # <<>> /\ resp = <<>>
          /\ tried' = <<>> /\ listed' = playlist
          /\ cursor' = FromBytes(token[1])
        BY <1>0, <1>2
           DEF StartNextTurn, Idle, ProducerRestored, Construct, clientVars, IsBlob,
               TurnShape
    <2>2. Left' = Unread(FromBytes(token[1]))
        BY <2>1 DEF Left
    <2>3. damaged = 0 => attempted' \o tried' \o Left' = listed'
        BY <1>0, <1>seq, <2>1, <2>2, ConcatEmptySeq DEF Conservation
    <2> QED BY <1>0, <2>1, <2>3 DEF TurnShape, Conservation
<1>3. CASE NextBatch
    <2> USE DEF NextBatch, clientVars, turnVars
    <2>1. SUFFICES /\ damaged = 0 => attempted' \o tried' \o Left' = listed'
                   /\ pc' # "off" /\ pc # "off" /\ plan' = plan
                   /\ pc' \in {"loop", "logs", "build"} => plan' = "glob"
                   /\ pc' = "returned" /\ ret' = <<>> => Left' = <<>>
        <3>1. /\ UNCHANGED <<args, client, token, attempted, playlist, resp, listed, damaged>>
              /\ IsBlob' = IsBlob
            BY <1>3 DEF NextBatchStep, NextBatchBlob, NextBatchExhausted, ReadPrimary,
                        ReadLog, EmitFile, SkipFile, IsBlob
        <3> QED BY <1>0, <2>1, <3>1 DEF TurnShape, Conservation
    <2>2. /\ damaged = 0 => attempted \o tried \o Left = listed
          /\ attempted' = attempted /\ listed' = listed
        <3>1. pc # "off"
            BY <1>3 DEF NextBatchStep, NextBatchBlob, NextBatchExhausted, ReadPrimary,
                        ReadLog, EmitFile, SkipFile
        <3> QED BY <1>0, <1>3, <3>1 DEF Conservation
    <2>3. CASE NextBatchBlob
        <3>1. CASE done
            BY <2>2, <2>3, <3>1 DEF NextBatchBlob, Return, Left
        <3>2. CASE ~done
            <4>1. /\ tried' = Append(tried, BlobSource) /\ done' = TRUE
                  /\ plan = "blob" /\ plan' = "blob" /\ pc = "idle"
                  /\ pc' = "returned" /\ ret' # <<>>
                <5>1. PICK built \in NotatinBuild(args.image, <<>>) :
                        Return(<<BuildRows(args.apply_logs, args.image, BlobSource,
                                           <<>>, built)>>)
                    BY <2>3, <3>2 DEF NextBatchBlob
                <5>2. tried' = Append(tried, BlobSource) /\ done' = TRUE
                    BY <2>3, <3>2, Zenon DEF NextBatchBlob
                <5> QED BY <2>3, <5>1, <5>2 DEF NextBatchBlob, Return
            <4>2. Left = <<BlobSource>> /\ Left' = <<>>
                BY <3>2, <4>1 DEF Left
            <4>3. attempted \o Append(tried, BlobSource) \o <<>>
                    = attempted \o tried \o (<<BlobSource>> \o <<>>)
                BY <1>seq, EmptyTypes, Shift DEF Source
            <4>4. <<BlobSource>> \o <<>> = <<BlobSource>>
                BY <1>seq, <4>2, ConcatEmptySeq
            <4> QED BY <2>2, <4>1, <4>2, <4>3, <4>4
        <3> QED BY <3>1, <3>2
    <2>4. CASE NextBatchExhausted
        BY <2>2, <2>4 DEF NextBatchExhausted, Return, Left, Unread
    <2>5. CASE ReadPrimary
        BY <2>2, <2>5 DEF ReadPrimary, Left
    <2>6. CASE ReadLog
        BY <1>0, <2>2, <2>6 DEF ReadLog, Left, TurnShape
    <2>7. CASE EmitFile
        <3>1. damaged = 0 => attempted' \o tried' \o Left' = listed'
            BY <1>0, <2>2, <2>7, AdvanceConserves DEF EmitFile, IInv
        <3>2. pc' = "returned" /\ ret' # <<>> /\ plan' = plan /\ pc = "build"
            BY <2>7 DEF EmitFile, Return
        <3> QED BY <3>1, <3>2
    <2>8. CASE SkipFile
        <3>1. damaged = 0 => attempted' \o tried' \o Left' = listed'
            BY <1>0, <2>2, <2>8, AdvanceConserves DEF SkipFile, IInv
        <3>2. /\ plan' = plan /\ plan = "glob" /\ pc = "build"
              /\ pc' \in {"returned", "loop"}
              /\ pc' = "returned" => IsExhausted(cursor')
            BY <1>0, <2>8 DEF SkipFile, Return, TurnShape
        <3>3. pc' = "returned" => Left' = <<>>
            BY <3>2 DEF Left, Unread, IsExhausted
        <3> QED BY <3>1, <3>2, <3>3
    <2> QED BY <1>3, <2>3, <2>4, <2>5, <2>6, <2>7, <2>8 DEF NextBatchStep
<1>4. CASE Collect
    <2>1. /\ Left' = Left /\ pc' = "idle" /\ pc = "returned" /\ IsBlob' = IsBlob
          /\ UNCHANGED <<args, client, token, attempted, playlist, resp, listed, tried, plan,
                        damaged>>
        BY <1>4 DEF Collect, clientVars, Left, IsBlob
    <2> QED BY <1>0, <2>1 DEF TurnShape, Conservation
<1>5. ASSUME NEW tok \in Option(Bytes), Answer(tok), pc # "off",
             tok # <<>> => ~IsBlob,
             LeftAfter([batches |-> sent, token |-> tok, tried |-> tried]) = Left
      PROVE  TurnShape' /\ Conservation'
    <2>1. /\ resp' = <<[batches |-> sent, token |-> tok, tried |-> tried]>>
          /\ pc' = "off" /\ IsBlob' = IsBlob /\ client = "running"
          /\ UNCHANGED <<args, client, token, attempted, playlist, listed, damaged>>
        BY <1>0, <1>5 DEF Answer, DropProducer, clientVars, IsBlob, TurnShape
    <2>2. resp' # <<>> /\ resp[1]' = [batches |-> sent, token |-> tok, tried |-> tried]
        BY <2>1
    <2>3. damaged = 0 => attempted \o tried \o Left = listed
        BY <1>0, <1>5 DEF Conservation
    <2>4. damaged = 0 => attempted' \o resp[1]'.tried \o LeftAfter(resp[1]') = listed'
        BY <1>5, <2>1, <2>2, <2>3
    <2>5. TurnShape'
        BY <1>0, <1>5, <2>1, <2>2 DEF TurnShape
    <2> QED BY <1>0, <2>1, <2>2, <2>4, <2>5 DEF Conservation
<1>6. CASE EndTurn
    <2>1. cursor \in Cursor
        BY <1>0 DEF TypeOK, RHTypeOK, ProducerTypeOK
    <2>2. plan = "glob" /\ pc = "idle" /\ EncodeResume = ToBytes(cursor)
        BY <1>6 DEF EndTurn, ResumeSupported, EncodeResume
    <2>3. ~IsBlob
        BY <1>0, <2>2 DEF TurnShape
    <2>4. <<ToBytes(cursor)>> \in Option(Bytes)
        BY <2>1, ToBytesType, SomeOption
    <2>5. LeftAfter([batches |-> sent, token |-> <<ToBytes(cursor)>>, tried |-> tried])
            = Left
        BY <2>1, <2>2, RoundTrip DEF LeftAfter, Left
    <2> QED BY <1>5, <1>6, <2>2, <2>3, <2>4, <2>5 DEF EndTurn
<1>7. CASE FinishTurn
    <2>1. Left = <<>>
        BY <1>0, <1>7 DEF FinishTurn, TurnShape
    <2>2. LeftAfter([batches |-> sent, token |-> <<>>, tried |-> tried]) = Left
        BY <2>1 DEF LeftAfter
    <2> QED BY <1>5, <1>7, <2>2, EmptyTypes DEF FinishTurn
<1>8. CASE Deliver
    <2>1. /\ resp # <<>> /\ resp' = <<>> /\ pc = "off" /\ pc' = "off"
          /\ IsBlob' = IsBlob /\ playlist' = listed /\ listed' = listed
          /\ token' = resp[1].token /\ attempted' = attempted \o resp[1].tried
          /\ client' = IF token' = <<>> THEN "done" ELSE "running"
          /\ damaged' = damaged
        BY <1>0, <1>8 DEF Deliver, TurnShape, rhVars, producerVars, IsBlob
    <2>2. damaged = 0 => attempted' \o LeftAfter(resp[1]) = playlist'
        BY <1>0, <2>1 DEF Conservation
    <2>3. resp[1].tried \in Seq(Source)
        BY <1>0, <2>1, Unwrap DEF TypeOK, Response
    <2>4. attempted' \in Seq(Source)
        BY <1>seq, <2>1, <2>3, ConcatProperties
    <2>5. CASE token' = <<>>
        <3>1. damaged = 0 => attempted' = playlist'
            BY <2>1, <2>2, <2>4, <2>5, ConcatEmptySeq DEF LeftAfter
        <3> QED BY <1>0, <2>1, <2>5, <3>1 DEF TurnShape, Conservation
    <2>6. CASE token' # <<>>
        <3>1. damaged = 0 => attempted' \o Unread(FromBytes(token'[1])) = playlist'
            BY <2>1, <2>2, <2>6 DEF LeftAfter
        <3>2. ~IsBlob'
            BY <1>0, <2>1, <2>6 DEF TurnShape
        <3> QED BY <1>0, <2>1, <2>6, <3>1, <3>2 DEF TurnShape, Conservation
    <2> QED BY <2>5, <2>6
<1>9. CASE LoseTurn
    <2>1. /\ pc' = "off" /\ resp' = <<>> /\ IsBlob' = IsBlob
          /\ UNCHANGED <<args, client, token, attempted, playlist, listed, damaged>>
        BY <1>9 DEF LoseTurn, DropProducer, clientVars, IsBlob
    <2> QED BY <1>0, <2>1 DEF TurnShape, Conservation
<1>10. CASE CorruptToken
    <2>1. damaged' # 0
        BY <1>0, <1>10, TransportAssumption DEF CorruptToken, TypeOK
    <2>2. /\ UNCHANGED <<args, client, attempted, resp, plan, pc, ret, cursor, done>>
          /\ token # <<>> /\ token' # <<>> /\ Left' = Left /\ IsBlob' = IsBlob
        BY <1>10 DEF CorruptToken, rhVars, producerVars, turnVars, Left, IsBlob
    <2>3. TurnShape'
        BY <1>0, <2>2 DEF TurnShape
    <2> QED BY <2>1, <2>3 DEF Conservation
<1>11. CASE OtherPrograms \/ UNCHANGED vars
    <2>1. UNCHANGED <<args, client, token, attempted, playlist, resp, listed, tried,
                      plan, pc, ret, cursor, done, damaged>>
        BY <1>11 DEF OtherPrograms, Environment, WritePrimary, WriteLog, vars, rhVars,
                     producerVars, clientVars, turnVars
    <2>2. Left' = Left /\ IsBlob' = IsBlob
        BY <2>1 DEF Left, IsBlob
    <2> QED BY <1>0, <2>1, <2>2 DEF TurnShape, Conservation
<1> QED BY <1>1, <1>2, <1>3, <1>4, <1>6, <1>7, <1>8, <1>9, <1>10, <1>11
        DEF Next, TurnStep, Finished

LEMMA ConservationInit == Init => IInv
    BY TypeInit DEF Init, RHInit, NoProducer, IInv, TurnShape, Conservation

\* Nothing is skipped or repeated across turns, whatever turns are lost and
\* whatever happens to the files, until a token is damaged: the sources
\* finished with and those left make up the playlist.
THEOREM ConservationHolds == Spec => []Conservation
<1>1. Init => IInv
    BY ConservationInit
<1>2. IInv /\ [Next]_vars => IInv'
    BY ConservationStep
<1>3. IInv => Conservation
    BY DEF IInv
<1> QED BY <1>1, <1>2, <1>3, PTL DEF Spec

-----------------------------------------------------------------------------
(* Sequences of batches and of sources. *)

\* What the turn at hand has produced: collected, or returned and not yet
\* collected.
InHand == sent \o ret

LEMMA SourcesType ==
    ASSUME NEW bs \in Seq(Batch)
    PROVE  /\ Len(bs) \in Nat /\ DOMAIN bs = 1..Len(bs)
           /\ Sources(bs) \in Seq(Source) /\ Len(Sources(bs)) = Len(bs)
           /\ DOMAIN Sources(bs) = 1..Len(bs)
           /\ \A i \in 1..Len(bs) : bs[i] \in Batch /\ Sources(bs)[i] = bs[i].source
<1>1. Len(bs) \in Nat /\ DOMAIN bs = 1..Len(bs) /\ \A i \in 1..Len(bs) : bs[i] \in Batch
    BY LenProperties, ElementOfSeq
<1>2. Sources(bs) \in [1..Len(bs) -> Source]
    BY <1>1 DEF Sources, Batch
<1>3. Sources(bs) \in Seq(Source)
    BY <1>1, <1>2, SeqDef
<1>4. Len(Sources(bs)) = Len(bs)
    BY <1>1, <1>2, <1>3, LenProperties
<1> QED BY <1>1, <1>2, <1>3, <1>4 DEF Sources

\* The sources of more batches.
LEMMA SourcesConcat ==
    ASSUME NEW a \in Seq(Batch), NEW b \in Seq(Batch)
    PROVE  Sources(a \o b) = Sources(a) \o Sources(b)
<1>1. /\ a \o b \in Seq(Batch) /\ Len(a \o b) = Len(a) + Len(b)
      /\ \A i \in 1..(Len(a) + Len(b)) :
            (a \o b)[i] = IF i <= Len(a) THEN a[i] ELSE b[i - Len(a)]
    BY ConcatProperties, Zenon
<1>2. /\ Len(a) \in Nat /\ Len(b) \in Nat
      /\ Sources(a) \in Seq(Source) /\ Sources(b) \in Seq(Source)
      /\ Len(Sources(a)) = Len(a) /\ Len(Sources(b)) = Len(b)
      /\ \A i \in 1..Len(a) : Sources(a)[i] = a[i].source
      /\ \A i \in 1..Len(b) : Sources(b)[i] = b[i].source
    BY SourcesType
<1>3. /\ Sources(a) \o Sources(b) \in Seq(Source)
      /\ Len(Sources(a) \o Sources(b)) = Len(a) + Len(b)
      /\ \A i \in 1..(Len(a) + Len(b)) : (Sources(a) \o Sources(b))[i] =
            IF i <= Len(a) THEN Sources(a)[i] ELSE Sources(b)[i - Len(a)]
    <2> DEFINE sa == Sources(a)
               sb == Sources(b)
    <2>1. /\ sa \in Seq(Source) /\ sb \in Seq(Source)
          /\ Len(sa) = Len(a) /\ Len(sb) = Len(b)
        BY <1>2
    <2> HIDE DEF sa, sb
    <2>2. /\ sa \o sb \in Seq(Source) /\ Len(sa \o sb) = Len(sa) + Len(sb)
          /\ \A i \in 1..(Len(sa) + Len(sb)) :
                (sa \o sb)[i] = IF i <= Len(sa) THEN sa[i] ELSE sb[i - Len(sa)]
        BY <2>1, ConcatProperties
    <2>3. /\ sa \o sb \in Seq(Source) /\ Len(sa \o sb) = Len(a) + Len(b)
          /\ \A i \in 1..(Len(a) + Len(b)) :
                (sa \o sb)[i] = IF i <= Len(a) THEN sa[i] ELSE sb[i - Len(a)]
        BY <2>1, <2>2
    <2> QED BY <2>3 DEF sa, sb
<1>4. /\ Sources(a \o b) \in Seq(Source) /\ Len(Sources(a \o b)) = Len(a) + Len(b)
      /\ \A i \in 1..(Len(a) + Len(b)) : Sources(a \o b)[i] = (a \o b)[i].source
    BY <1>1, SourcesType
<1>5. ASSUME NEW i \in 1..(Len(a) + Len(b))
      PROVE  Sources(a \o b)[i] = (Sources(a) \o Sources(b))[i]
    <2>1. CASE i <= Len(a)
        <3>1. i \in 1..Len(a)
            BY <1>2, <2>1
        <3> QED BY <1>1, <1>2, <1>3, <1>4, <2>1, <3>1
    <2>2. CASE ~(i <= Len(a))
        <3>1. i - Len(a) \in 1..Len(b)
            BY <1>2, <2>2
        <3> QED BY <1>1, <1>2, <1>3, <1>4, <2>2, <3>1
    <2> QED BY <2>1, <2>2
<1> QED BY <1>3, <1>4, <1>5, SeqEqual

-----------------------------------------------------------------------------
(* Order: the batches come in ascending order and before all that is left. *)

Trail(bs, rest) ==
    /\ \A i, j \in 1..Len(bs) : i < j => bs[i].source < bs[j].source
    /\ \A i, j \in 1..Len(rest) : i < j => rest[i] < rest[j]
    /\ \A i \in 1..Len(bs), j \in 1..Len(rest) : bs[i].source < rest[j]

\* A batch of the first file of what is left may follow.
LEMMA TrailMove ==
    ASSUME NEW bs \in Seq(Batch), NEW b \in Batch, NEW rest \in Seq(Source),
           Trail(bs, <<b.source>> \o rest)
    PROVE  Trail(Append(bs, b), rest)
<1> DEFINE e == b.source
           long == <<e>> \o rest
<1>1. Len(bs) \in Nat /\ Len(rest) \in Nat /\ e \in Source
    BY LenProperties DEF Batch
<1>2. /\ Len(Append(bs, b)) = Len(bs) + 1
      /\ \A i \in 1..Len(bs) : Append(bs, b)[i] = bs[i]
      /\ Append(bs, b)[Len(bs) + 1] = b
    BY AppendProperties
<1>3. /\ Len(long) = 1 + Len(rest) /\ long[1] = e
      /\ \A j \in 1..Len(rest) : long[1 + j] = rest[j]
    <2>1. <<e>> \in Seq(Source) /\ Len(<<e>>) = 1 /\ <<e>>[1] = e
        BY <1>1
    <2>2. /\ Len(long) = 1 + Len(rest)
          /\ \A i \in 1..(1 + Len(rest)) : long[i] = IF i <= 1 THEN <<e>>[i] ELSE rest[i - 1]
        BY <2>1, ConcatProperties
    <2>3. ASSUME NEW j \in 1..Len(rest) PROVE long[1 + j] = rest[j]
        <3>1. 1 + j \in 1..(1 + Len(rest)) /\ ~(1 + j <= 1) /\ (1 + j) - 1 = j
            BY <1>1
        <3> QED BY <2>2, <3>1
    <2> QED BY <1>1, <2>1, <2>2, <2>3
<1> HIDE DEF e, long
<1>4. /\ \A i, j \in 1..Len(bs) : i < j => bs[i].source < bs[j].source
      /\ \A i, j \in 1..Len(long) : i < j => long[i] < long[j]
      /\ \A i \in 1..Len(bs), j \in 1..Len(long) : bs[i].source < long[j]
    BY DEF Trail, long, e
<1>5. \A i \in 1..Len(bs) : bs[i].source < e
    BY <1>1, <1>3, <1>4
<1>6. ASSUME NEW j \in 1..Len(rest)
      PROVE  e < rest[j] /\ \A i \in 1..Len(bs) : bs[i].source < rest[j]
    <2>1. 1 \in 1..Len(long) /\ 1 + j \in 1..Len(long) /\ 1 < 1 + j
        BY <1>1, <1>3
    <2> QED BY <1>3, <1>4, <2>1
<1>7. \A i, j \in 1..Len(rest) : i < j => rest[i] < rest[j]
    <2> SUFFICES ASSUME NEW i \in 1..Len(rest), NEW j \in 1..Len(rest), i < j
                 PROVE  rest[i] < rest[j]
        OBVIOUS
    <2>1. 1 + i \in 1..Len(long) /\ 1 + j \in 1..Len(long) /\ 1 + i < 1 + j
        BY <1>1, <1>3
    <2>2. long[1 + i] < long[1 + j]
        BY <1>4, <2>1
    <2> QED BY <1>3, <2>2
<1> DEFINE ab == Append(bs, b)
<1>8. \A i \in 1..Len(ab) : \/ (i \in 1..Len(bs) /\ ab[i] = bs[i])
                             \/ (i = Len(bs) + 1 /\ ab[i].source = e)
    BY <1>1, <1>2 DEF e
<1>9. Len(ab) = Len(bs) + 1
    BY <1>2
<1> HIDE DEF ab
<1>10. \A i, j \in 1..Len(ab) : i < j => ab[i].source < ab[j].source
    <2> SUFFICES ASSUME NEW i \in 1..Len(ab), NEW j \in 1..Len(ab), i < j
                 PROVE  ab[i].source < ab[j].source
        OBVIOUS
    <2>1. i \in 1..Len(bs) /\ ab[i] = bs[i]
        BY <1>1, <1>8, <1>9
    <2> QED BY <1>4, <1>5, <1>8, <2>1
<1>11. \A i \in 1..Len(ab), j \in 1..Len(rest) : ab[i].source < rest[j]
    BY <1>6, <1>8
<1> QED BY <1>7, <1>10, <1>11 DEF Trail, ab

\* The first file of what is left may be passed over.
LEMMA TrailDrop ==
    ASSUME NEW bs \in Seq(Batch), NEW e \in Source, NEW rest \in Seq(Source),
           Trail(bs, <<e>> \o rest)
    PROVE  Trail(bs, rest)
<1> DEFINE long == <<e>> \o rest
<1>1. Len(bs) \in Nat /\ Len(rest) \in Nat
    BY LenProperties
<1>2. /\ Len(long) = 1 + Len(rest)
      /\ \A j \in 1..Len(rest) : long[1 + j] = rest[j]
    <2>1. <<e>> \in Seq(Source) /\ Len(<<e>>) = 1
        OBVIOUS
    <2>2. /\ Len(long) = 1 + Len(rest)
          /\ \A i \in 1..(1 + Len(rest)) : long[i] = IF i <= 1 THEN <<e>>[i] ELSE rest[i - 1]
        BY <2>1, ConcatProperties
    <2>3. ASSUME NEW j \in 1..Len(rest) PROVE long[1 + j] = rest[j]
        <3>1. 1 + j \in 1..(1 + Len(rest)) /\ ~(1 + j <= 1) /\ (1 + j) - 1 = j
            BY <1>1
        <3> QED BY <2>2, <3>1
    <2> QED BY <2>2, <2>3
<1> HIDE DEF long
<1>3. /\ \A i, j \in 1..Len(bs) : i < j => bs[i].source < bs[j].source
      /\ \A i, j \in 1..Len(long) : i < j => long[i] < long[j]
      /\ \A i \in 1..Len(bs), j \in 1..Len(long) : bs[i].source < long[j]
    BY DEF Trail, long
<1>4. \A j \in 1..Len(rest) : 1 + j \in 1..Len(long)
    BY <1>1, <1>2
<1>5. \A i, j \in 1..Len(rest) : i < j => 1 + i < 1 + j
    BY <1>1
<1>6. \A i, j \in 1..Len(rest) : i < j => rest[i] < rest[j]
    BY <1>2, <1>3, <1>4, <1>5
<1>7. \A i \in 1..Len(bs), j \in 1..Len(rest) : bs[i].source < rest[j]
    BY <1>2, <1>3, <1>4
<1> QED BY <1>3, <1>6, <1>7 DEF Trail

\* A front part of the batches is a trail to nothing, and so in order.
LEMMA TrailFront ==
    ASSUME NEW a \in Seq(Batch), NEW b \in Seq(Batch), NEW rest, Trail(a \o b, rest)
    PROVE  Trail(a, <<>>) /\ Ascending(Sources(a))
<1>1. /\ Len(a) \in Nat /\ Len(b) \in Nat /\ Len(a \o b) = Len(a) + Len(b)
      /\ \A i \in 1..Len(a) : i \in 1..Len(a \o b) /\ (a \o b)[i] = a[i]
    BY ConcatProperties, LenProperties
<1>2. \A i, j \in 1..Len(a) : i < j => a[i].source < a[j].source
    BY <1>1 DEF Trail
<1>3. Len(<<>>) = 0
    OBVIOUS
<1>4. Trail(a, <<>>)
    BY <1>2, <1>3 DEF Trail
<1>5. Ascending(Sources(a))
    <2>1. /\ DOMAIN Sources(a) = 1..Len(a)
          /\ \A i \in 1..Len(a) : Sources(a)[i] = a[i].source
        BY SourcesType
    <2> QED BY <1>2, <2>1, Zenon DEF Ascending
<1> QED BY <1>4, <1>5

-----------------------------------------------------------------------------
(* Picking from a growing list. *)

LEMMA PicksNone ==
    ASSUME NEW t
    PROVE  Abstract!Picks(<<>>, t)
<1>1. DOMAIN <<>> = {}
    OBVIOUS
<1> QED BY <1>1, Zenon DEF Abstract!Picks, Abstract!Contents

LEMMA PicksSkip ==
    ASSUME NEW s \in Seq(Source), NEW t \in Seq(Source), NEW e \in Source,
           Abstract!Picks(s, t)
    PROVE  Abstract!Picks(s, Append(t, e))
<1> DEFINE u == Append(t, e)
<1>1. /\ DOMAIN t = 1..Len(t) /\ Len(t) \in Nat
      /\ DOMAIN u = 1..(Len(t) + 1)
      /\ \A k \in 1..Len(t) : u[k] = t[k]
    BY AppendProperties, LenProperties
<1>2. \A k \in DOMAIN t : k \in DOMAIN u /\ u[k] = t[k]
    BY <1>1
<1> HIDE DEF u
<1>3. Abstract!Contents(s) \subseteq Abstract!Contents(u)
    BY <1>2 DEF Abstract!Picks, Abstract!Contents
<1>4. ASSUME NEW i \in DOMAIN s, NEW j \in DOMAIN s, i < j
      PROVE  \E k, l \in DOMAIN u : k < l /\ u[k] = s[i] /\ u[l] = s[j]
    <2>1. PICK k \in DOMAIN t, l \in DOMAIN t : k < l /\ t[k] = s[i] /\ t[l] = s[j]
        BY <1>4 DEF Abstract!Picks
    <2> QED BY <1>2, <2>1
<1> QED BY <1>3, <1>4 DEF Abstract!Picks, u

LEMMA PicksBoth ==
    ASSUME NEW s \in Seq(Source), NEW t \in Seq(Source), NEW e \in Source,
           Abstract!Picks(s, t)
    PROVE  Abstract!Picks(Append(s, e), Append(t, e))
<1> DEFINE r == Append(s, e)
           u == Append(t, e)
<1>1. /\ DOMAIN t = 1..Len(t) /\ Len(t) \in Nat
      /\ DOMAIN u = 1..(Len(t) + 1) /\ u[Len(t) + 1] = e
      /\ \A k \in 1..Len(t) : u[k] = t[k]
    BY AppendProperties, LenProperties
<1>2. /\ DOMAIN s = 1..Len(s) /\ Len(s) \in Nat
      /\ DOMAIN r = 1..(Len(s) + 1) /\ r[Len(s) + 1] = e
      /\ \A k \in 1..Len(s) : r[k] = s[k]
    BY AppendProperties, LenProperties
<1> HIDE DEF r, u
<1> DEFINE last == Len(t) + 1
<1>3. /\ \A k \in DOMAIN t : k \in DOMAIN u /\ u[k] = t[k] /\ k < last
      /\ last \in DOMAIN u /\ u[last] = e
    BY <1>1
<1>4. \A i \in DOMAIN r : \/ (i \in DOMAIN s /\ r[i] = s[i])
                          \/ (i = Len(s) + 1 /\ r[i] = e)
    BY <1>2
<1>5. \A i, j \in DOMAIN r : i < j => i \in DOMAIN s /\ r[i] = s[i]
    BY <1>2
<1> HIDE DEF last
<1>6. \A i \in DOMAIN s : \E k \in DOMAIN t : t[k] = s[i]
    BY DEF Abstract!Picks, Abstract!Contents
<1>7. Abstract!Contents(r) \subseteq Abstract!Contents(u)
    <2> SUFFICES ASSUME NEW i \in DOMAIN r PROVE \E k \in DOMAIN u : u[k] = r[i]
        BY DEF Abstract!Contents
    <2> QED BY <1>3, <1>4, <1>6
<1>8. ASSUME NEW i \in DOMAIN r, NEW j \in DOMAIN r, i < j
      PROVE  \E k, l \in DOMAIN u : k < l /\ u[k] = r[i] /\ u[l] = r[j]
    <2>1. i \in DOMAIN s /\ r[i] = s[i]
        BY <1>5, <1>8
    <2>2. CASE j \in DOMAIN s /\ r[j] = s[j]
        <3>1. PICK k \in DOMAIN t, l \in DOMAIN t : k < l /\ t[k] = s[i] /\ t[l] = s[j]
            BY <1>8, <2>1, <2>2 DEF Abstract!Picks
        <3> QED BY <1>3, <2>1, <2>2, <3>1
    <2>3. CASE r[j] = e
        <3>1. PICK k \in DOMAIN t : t[k] = s[i]
            BY <1>6, <2>1
        <3> QED BY <1>3, <2>1, <2>3, <3>1
    <2> QED BY <1>4, <2>2, <2>3
<1> QED BY <1>7, <1>8 DEF Abstract!Picks, r, u

\* A list cut where it was put together.
LEMMA CutConcat ==
    ASSUME NEW S, NEW a \in Seq(S), NEW b \in Seq(S)
    PROVE  /\ SubSeq(a \o b, 1, Len(a)) = a
           /\ SubSeq(a \o b, Len(a) + 1, Len(a \o b)) = b
           /\ Len(a) \in 0..Len(a \o b)
<1>1. /\ Len(a) \in Nat /\ Len(b) \in Nat /\ Len(a \o b) = Len(a) + Len(b)
      /\ a \o b \in Seq(S)
      /\ \A i \in 1..(Len(a) + Len(b)) :
            (a \o b)[i] = IF i <= Len(a) THEN a[i] ELSE b[i - Len(a)]
    BY ConcatProperties, LenProperties
<1> DEFINE c == a \o b
           p == SubSeq(c, 1, Len(a))
           q == SubSeq(c, Len(a) + 1, Len(c))
<1>2. \A i \in 1..(Len(a) + Len(b)) : c[i] \in S
    BY <1>1, ElementOfSeq
<1>len. Len(c) = Len(a) + Len(b)
    BY <1>1
<1> HIDE DEF c
<1>3. p \in Seq(S) /\ Len(p) = Len(a) /\ \A i \in 1..Len(a) : p[i] = c[i]
    <2>1. \A i \in 1..Len(a) : c[i] \in S
        BY <1>1, <1>2
    <2>2. /\ p \in Seq(S) /\ Len(p) = IF 1 <= Len(a) THEN Len(a) - 1 + 1 ELSE 0
          /\ \A i \in 1..(Len(a) - 1 + 1) : p[i] = c[1 + i - 1]
        BY <1>1, <2>1, SubSeqProperties
    <2> HIDE DEF p
    <2> QED BY <1>1, <2>2
<1>4. q \in Seq(S) /\ Len(q) = Len(b) /\ \A i \in 1..Len(b) : q[i] = c[Len(a) + i]
    <2>1. \A i \in (Len(a) + 1)..Len(c) : c[i] \in S
        BY <1>1, <1>2, <1>len
    <2> DEFINE m == Len(a) + 1
               n == Len(c)
    <2>2. /\ q \in Seq(S) /\ Len(q) = IF m <= n THEN n - m + 1 ELSE 0
          /\ \A i \in 1..(n - m + 1) : q[i] = c[m + i - 1]
        BY <1>1, <1>len, <2>1, SubSeqProperties
    <2> HIDE DEF q
    <2>3. n - m + 1 = Len(b) /\ (m <= n <=> Len(b) # 0)
        BY <1>1, <1>len
    <2>4. \A i \in 1..Len(b) : m + i - 1 = Len(a) + i
        BY <1>1
    <2>5. q \in Seq(S) /\ Len(q) = Len(b)
        BY <2>2, <2>3
    <2>6. \A i \in 1..Len(b) : q[i] = c[m + i - 1]
        BY <2>2, <2>3
    <2> QED BY <2>4, <2>5, <2>6
<1> HIDE DEF p, q
<1>5. \A i \in 1..Len(a) : c[i] = a[i]
    BY <1>1 DEF c
<1>6. ASSUME NEW i \in 1..Len(b) PROVE c[Len(a) + i] = b[i]
    <2>1. /\ Len(a) + i \in 1..(Len(a) + Len(b)) /\ ~(Len(a) + i <= Len(a))
          /\ (Len(a) + i) - Len(a) = i
        BY <1>1
    <2> QED BY <1>1, <2>1 DEF c
<1>7. p = a
    BY <1>3, <1>5, SeqEqual
<1>8. q = b
    BY <1>4, <1>6, SeqEqual
<1>9. Len(a) \in 0..Len(c)
    BY <1>1, <1>len
<1> QED BY <1>7, <1>8, <1>9 DEF p, q, c

-----------------------------------------------------------------------------
(* The invariant behind the order of the batches and the refinement. *)

\* The sources a turn from the client's token is to go through.
Goal == IF token = <<>> THEN listed ELSE Unread(FromBytes(token[1]))

\* Where batches can be, and what a first turn is over.
TurnPlaces ==
    /\ pc = "off" => sent = <<>>
    /\ pc # "returned" => ret = <<>>
    /\ client = "running" /\ token = <<>> => received = <<>>
    /\ resp # <<>> => (resp[1].token # <<>> => resp[1].batches # <<>>)
    /\ (pc # "off" \/ resp # <<>>) /\ token = <<>> =>
          listed \in Playlists \cup {<<BlobSource>>}

\* A turn that is through with t, has r left and made the batches bs.
TurnOK(bs, t, r) ==
    /\ t \o r = Goal
    /\ Abstract!Picks(Sources(bs), t)
    /\ ~IsBlob => Trail(received \o bs, r)

InTurn   == pc # "off" => TurnOK(InHand, tried, Left)
Answered == resp # <<>> => TurnOK(resp[1].batches, resp[1].tried, LeftAfter(resp[1]))
Accepted ==
    /\ ~IsBlob => Trail(received, <<>>)
    /\ token # <<>> => Trail(received, Unread(FromBytes(token[1])))

OInv == IInv /\ TurnPlaces /\ InTurn /\ Answered /\ Accepted

-----------------------------------------------------------------------------
(* Every step keeps the first invariant. *)

LEMMA InHandType ==
    ASSUME TypeOK
    PROVE  /\ sent \in Seq(Batch) /\ ret \in Seq(Batch) /\ received \in Seq(Batch)
           /\ InHand \in Seq(Batch) /\ received \o InHand \in Seq(Batch)
           /\ tried \in Seq(Source) /\ Left \in Seq(Source)
           /\ ret = <<>> => InHand = sent
<1>1. sent \in Seq(Batch) /\ ret \in Seq(Batch) /\ received \in Seq(Batch)
      /\ tried \in Seq(Source)
    BY DEF TypeOK, RHTypeOK, ProducerTypeOK, Option
<1>2. InHand \in Seq(Batch) /\ (ret = <<>> => InHand = sent)
    BY <1>1, ConcatProperties, ConcatEmptySeq DEF InHand
<1> QED BY <1>1, <1>2, ConcatProperties, LeftType

LEMMA LeftTypeNext ==
    ASSUME TypeOK'
    PROVE  Left' \in Seq(Source)
<1>1. Unread(cursor') \in Seq(Source)
    BY UnreadType, SeqMonotonic DEF TypeOK, RHTypeOK, ProducerTypeOK, Source
<1>2. <<BlobSource>> \in Seq(Source) /\ <<>> \in Seq(Source)
    BY EmptyTypes DEF Source
<1> QED BY <1>1, <1>2 DEF Left

\* One more batch in hand.
LEMMA MoreInHand ==
    ASSUME TypeOK, TypeOK', ret = <<>>, NEW b \in Batch, ret' = <<b>>,
           sent' = sent, received' = received
    PROVE  /\ InHand' = Append(InHand, b)
           /\ received' \o InHand' = Append(received \o InHand, b)
           /\ Sources(InHand') = Append(Sources(InHand), b.source)
<1>1. sent \in Seq(Batch) /\ received \in Seq(Batch) /\ InHand = sent
    BY InHandType
<1>2. InHand' = Append(InHand, b) /\ <<b>> \in Seq(Batch)
    BY <1>1, AppendIsConcat DEF InHand
<1>3. Append(sent, b) = sent \o <<b>>
    BY <1>1, AppendIsConcat
<1>4. received \o sent \in Seq(Batch)
    BY <1>1, ConcatProperties
<1>5. Append(received \o sent, b) = (received \o sent) \o <<b>>
    BY <1>4, AppendIsConcat
<1>6. received \o (sent \o <<b>>) = (received \o sent) \o <<b>>
    BY <1>1, <1>2, ConcatAssociative
<1>7. received' \o InHand' = Append(received \o InHand, b)
    BY <1>1, <1>2, <1>3, <1>5, <1>6
<1>8. Sources(sent) \in Seq(Source) /\ b.source \in Source
    BY <1>1, SourcesType DEF Batch
<1>9. Sources(<<b>>) = <<b.source>>
    <2>1. Sources(<<b>>) = [i \in 1..1 |-> <<b>>[i].source]
        BY DEF Sources
    <2>2. \A i \in 1..1 : <<b>>[i].source = b.source
        OBVIOUS
    <2>3. [i \in 1..1 |-> <<b>>[i].source] = [i \in 1..1 |-> b.source]
        BY <2>2
    <2>4. [i \in 1..1 |-> b.source] = <<b.source>>
        OBVIOUS
    <2> QED BY <2>1, <2>3, <2>4
<1>10. Sources(sent \o <<b>>) = Sources(sent) \o Sources(<<b>>)
    BY <1>1, <1>2, SourcesConcat
<1>11. Sources(InHand') = Append(Sources(InHand), b.source)
    BY <1>1, <1>2, <1>3, <1>8, <1>9, <1>10, AppendIsConcat
<1> QED BY <1>2, <1>7, <1>11

\* What a step that leaves the turn's goal alone owes.
LEMMA TurnGoesOn ==
    ASSUME OInv, pc # "off",
           UNCHANGED <<args, client, token, listed, received, resp>>,
           TurnPlaces', tried' \o Left' = tried \o Left,
           Abstract!Picks(Sources(InHand'), tried'),
           ~IsBlob => Trail(received \o InHand', Left')
    PROVE  InTurn' /\ Answered' /\ Accepted'
<1>1. Goal' = Goal /\ IsBlob' = IsBlob
    BY DEF Goal, IsBlob
<1>2. resp = <<>>
    BY DEF OInv, IInv, TurnShape
<1>3. tried \o Left = Goal
    BY DEF OInv, InTurn, TurnOK
<1>4. InTurn'
    BY <1>1, <1>3 DEF InTurn, TurnOK
<1>5. Answered'
    BY <1>2 DEF Answered
<1> QED BY <1>1, <1>4, <1>5 DEF OInv, Accepted

\* Moving one source from what is left to what is finished.
LEMMA MoveOn ==
    ASSUME NEW t \in Seq(Source), NEW r \in Seq(Source), NEW e \in Source
    PROVE  Append(t, e) \o r = t \o (<<e>> \o r)
<1>1. <<e>> \in Seq(Source) /\ Append(t, e) = t \o <<e>>
    BY AppendIsConcat
<1> QED BY <1>1, ConcatAssociative

\* The steps that start a turn.
LEMMA OrderStart ==
    ASSUME OInv, TypeOK', StartFirstTurn \/ StartNextTurn
    PROVE  TurnPlaces' /\ InTurn' /\ Answered' /\ Accepted'
<1>0. TypeOK /\ TurnShape /\ TurnPlaces /\ InTurn /\ Answered /\ Accepted
    BY DEF OInv, IInv
<1>1. /\ client = "running" /\ pc = "off" /\ resp = <<>> /\ sent = <<>> /\ sent' = <<>>
      /\ pc' = "idle" /\ ret' = <<>> /\ tried' = <<>> /\ resp' = <<>>
      /\ UNCHANGED <<args, client, token, received>>
    BY <1>0 DEF StartFirstTurn, StartNextTurn, Idle, Producer, ProducerRestored, Construct,
                clientVars, TurnPlaces
<1>2. InHand' = <<>> /\ Sources(InHand') = <<>> /\ received \o InHand' = received
    <2>1. InHand' = <<>>
        BY <1>1 DEF InHand
    <2>2. Sources(<<>>) = <<>>
        BY DEF Sources
    <2>3. received \in Seq(Batch)
        BY <1>0, InHandType
    <2> QED BY <2>1, <2>2, <2>3, ConcatEmptySeq
<1>3. IsBlob' = IsBlob
    BY <1>1 DEF IsBlob
<1>4. Left' \in Seq(Source)
    BY LeftTypeNext
<1>5. tried' \o Left' = Left'
    BY <1>1, <1>4, ConcatEmptySeq
<1>6. Abstract!Picks(Sources(InHand'), tried')
    BY <1>2, PicksNone
<1>7. Accepted'
    BY <1>0, <1>1, <1>3 DEF Accepted
<1>8. CASE StartFirstTurn
    <2>1. PICK files \in ExpandGlob :
            Producer(files) /\ listed' = IF IsBlob THEN <<BlobSource>> ELSE files
        BY <1>8 DEF StartFirstTurn
    <2>2. files \in Seq(File) /\ files \in Playlists
        BY PlaylistType DEF ExpandGlob
    <2>3. Left' = listed' /\ token' = <<>>
        BY <1>8, <2>1, <2>2, UnreadNew, CursorNewType
           DEF Left, Producer, Construct, StartFirstTurn, clientVars
    <2>4. received = <<>>
        BY <1>0, <1>1, <1>8 DEF TurnPlaces, StartFirstTurn
    <2>5. ~IsBlob => Trail(received \o InHand', Left')
        <3>1. DOMAIN files = 1..Len(files)
            BY <2>2, LenProperties
        <3>2. \A i, j \in 1..Len(files) : i < j => files[i] < files[j]
            BY <2>2, <3>1, Zenon DEF Playlists, Ascending
        <3>3. 1..Len(<<>>) = {}
            OBVIOUS
        <3>4. Trail(<<>>, files)
            BY <3>2, <3>3 DEF Trail
        <3> QED BY <1>2, <2>1, <2>3, <2>4, <3>4
    <2>6. InTurn'
        BY <1>1, <1>3, <1>5, <1>6, <2>3, <2>5 DEF InTurn, TurnOK, Goal
    <2>7. TurnPlaces'
        BY <1>1, <2>1, <2>2, <2>4 DEF TurnPlaces
    <2> QED BY <1>1, <1>7, <2>6, <2>7 DEF Answered
<1>9. CASE StartNextTurn
    <2>1. ~IsBlob /\ token # <<>>
        BY <1>0, <1>9 DEF StartNextTurn, TurnShape
    <2>2. Left' = Unread(FromBytes(token[1]))
        BY <1>9, <2>1 DEF StartNextTurn, ProducerRestored, Construct, Left
    <2>3. Trail(received \o InHand', Left')
        BY <1>0, <1>2, <2>1, <2>2 DEF Accepted
    <2>4. InTurn'
        BY <1>1, <1>3, <1>5, <1>6, <2>1, <2>2, <2>3 DEF InTurn, TurnOK, Goal
    <2>5. TurnPlaces'
        BY <1>1, <2>1 DEF TurnPlaces
    <2> QED BY <1>1, <1>7, <2>4, <2>5 DEF Answered
<1> QED BY <1>8, <1>9

\* The steps of next_batch and Collect.
LEMMA OrderTurn ==
    ASSUME OInv, TypeOK', NextBatch \/ Collect
    PROVE  TurnPlaces' /\ InTurn' /\ Answered' /\ Accepted'
<1>0. TypeOK /\ TurnShape /\ TurnPlaces /\ InTurn
    BY DEF OInv, IInv
<1>1. /\ UNCHANGED <<args, client, token, listed, received, resp>>
      /\ pc # "off" /\ pc' # "off" /\ IsBlob' = IsBlob
    BY DEF NextBatch, NextBatchStep, NextBatchBlob, NextBatchExhausted, ReadPrimary,
           ReadLog, EmitFile, SkipFile, Collect, Return, clientVars, turnVars, IsBlob
<1>2. /\ Abstract!Picks(Sources(InHand), tried)
      /\ ~IsBlob => Trail(received \o InHand, Left)
    BY <1>0, <1>1 DEF InTurn, TurnOK
<1>3. /\ sent \in Seq(Batch) /\ received \o InHand \in Seq(Batch)
      /\ Sources(InHand) \in Seq(Source) /\ tried \in Seq(Source)
      /\ ret = <<>> => InHand = sent
    BY <1>0, InHandType, SourcesType
<1>4. Left' \in Seq(Source)
    BY LeftTypeNext
<1>5. TurnPlaces'
    <2>1. pc' # "returned" => ret' = <<>>
        BY <1>0 DEF NextBatch, NextBatchStep, NextBatchBlob, NextBatchExhausted,
                ReadPrimary, ReadLog, EmitFile, SkipFile, Collect, Return, TurnPlaces
    <2> QED BY <1>0, <1>1, <2>1 DEF TurnPlaces
<1>6. ASSUME tried' = tried, Left' = Left, InHand' = InHand
      PROVE  TurnPlaces' /\ InTurn' /\ Answered' /\ Accepted'
    BY <1>1, <1>2, <1>5, <1>6, TurnGoesOn
<1>7. CASE Collect
    <2>1. /\ ret # <<>> /\ ret' = <<>> /\ sent' = Append(sent, ret[1])
          /\ tried' = tried /\ Left' = Left
        BY <1>7 DEF Collect, Left
    <2>2. PICK b \in Batch : ret = <<b>> /\ sent' = Append(sent, b)
        BY <1>0, <2>1, Unwrap DEF TypeOK, RHTypeOK, ProducerTypeOK
    <2>3. sent' = sent \o ret /\ sent' \in Seq(Batch)
        BY <1>3, <2>2, AppendIsConcat, AppendProperties
    <2>4. InHand' = InHand
        BY <2>1, <2>3, ConcatEmptySeq DEF InHand
    <2> QED BY <1>6, <2>1, <2>4
<1>8. CASE NextBatch /\ (NextBatchExhausted \/ ReadPrimary \/ ReadLog)
    <2>1. /\ ret' = ret /\ sent' = sent /\ tried' = tried /\ Left' = Left
        BY <1>0, <1>8 DEF NextBatch, NextBatchExhausted, ReadPrimary, ReadLog, Return,
                          turnVars, TurnPlaces, Left
    <2> QED BY <1>6, <2>1 DEF InHand
<1>9. CASE NextBatch /\ NextBatchBlob
    <2>1. /\ plan = "blob" /\ plan' = "blob" /\ pc = "idle" /\ ret = <<>> /\ IsBlob
          /\ sent' = sent /\ cursor' = cursor
        BY <1>0, <1>9 DEF NextBatch, NextBatchBlob, turnVars, TurnPlaces, TypeOK, RHTypeOK,
                          ProducerTypeOK
    <2>2. CASE done
        <3>1. ret' = <<>> /\ done' = done /\ tried' = tried
            BY <1>9, <2>2 DEF NextBatchBlob, Return
        <3>2. Left' = Left /\ InHand' = InHand
            BY <2>1, <3>1 DEF Left, InHand
        <3> QED BY <1>6, <3>1, <3>2
    <2>3. CASE ~done
        <3>1. PICK built \in NotatinBuild(args.image, <<>>) :
                Return(<<BuildRows(args.apply_logs, args.image, BlobSource, <<>>, built)>>)
            BY <1>9, <2>3 DEF NextBatchBlob
        <3> DEFINE b == BuildRows(args.apply_logs, args.image, BlobSource, <<>>, built)
        <3>2. b \in Batch /\ b.source = BlobSource /\ BlobSource \in Source
            <4>1. args.image \in Image /\ args.apply_logs \in BOOLEAN
                  /\ BlobSource \in Source
                BY <1>0, <2>1 DEF TypeOK, RHTypeOK, Args, IsBlob, Source
            <4>2. b \in Batch
                BY <4>1, EmptyTypes, BuildRowsType
            <4> QED BY <4>1, <4>2 DEF BuildRows
        <3>3. ret' = <<b>>
            BY <3>1 DEF Return
        <3> HIDE DEF b
        <3>4. tried' = Append(tried, BlobSource) /\ done' = TRUE
            BY <1>9, <2>3, Zenon DEF NextBatchBlob
        <3>5. Left = <<BlobSource>> /\ Left' = <<>>
            BY <2>1, <2>3, <3>4 DEF Left
        <3>6. tried' \o Left' = tried \o Left
            <4>1. Append(tried, BlobSource) \o <<>> = tried \o (<<BlobSource>> \o <<>>)
                BY <1>3, <3>2, EmptyTypes, MoveOn
            <4>2. <<BlobSource>> \o <<>> = <<BlobSource>>
                BY <3>2, ConcatEmptySeq
            <4> QED BY <3>4, <3>5, <4>1, <4>2
        <3>7. Sources(InHand') = Append(Sources(InHand), BlobSource)
            BY <1>0, <1>1, <2>1, <3>2, <3>3, MoreInHand
        <3>8. Abstract!Picks(Sources(InHand'), tried')
            BY <1>2, <1>3, <3>2, <3>4, <3>7, PicksBoth
        <3> QED BY <1>1, <1>5, <2>1, <3>6, <3>8, TurnGoesOn
    <2> QED BY <2>2, <2>3
<1>10. CASE NextBatch /\ (EmitFile \/ SkipFile)
    <2> DEFINE f == cursor.current_file
    <2>1. /\ pc = "build" /\ plan = "glob" /\ plan' = plan /\ ret = <<>> /\ ~IsBlob
          /\ sent' = sent /\ tried' = Append(tried, f) /\ cursor' = AdvanceFile(cursor)
        BY <1>0, <1>10 DEF NextBatch, EmitFile, SkipFile, turnVars, TurnPlaces, TurnShape
    <2>2. cursor \in Cursor /\ f \in File /\ f # None /\ f \in Source
        BY <1>0, <2>1, NoneAssumption DEF TypeOK, RHTypeOK, ProducerTypeOK, Source
    <2>3. Left = <<f>> \o Left'
        BY <2>1, <2>2, UnreadAdvance DEF Left
    <2>4. tried' \o Left' = tried \o Left
        BY <1>3, <1>4, <2>1, <2>2, <2>3, MoveOn
    <2>5. CASE EmitFile
        <3>1. PICK b \in FileBatches : ret' = <<b>>
            BY <2>5 DEF EmitFile, Return
        <3>2. b \in Batch /\ b.source = f
            BY <1>0, <2>1, FileBatchesType DEF FileBatches, BuildRows
        <3> HIDE DEF f
        <3>3. /\ received' \o InHand' = Append(received \o InHand, b)
              /\ Sources(InHand') = Append(Sources(InHand), f)
            BY <1>0, <1>1, <2>1, <3>1, <3>2, MoreInHand
        <3>4. Abstract!Picks(Sources(InHand'), tried')
            BY <1>2, <1>3, <2>1, <2>2, <3>3, PicksBoth
        <3>5. Trail(received \o InHand', Left')
            BY <1>1, <1>2, <1>3, <1>4, <2>1, <2>3, <3>2, <3>3, TrailMove
        <3> QED BY <1>1, <1>5, <2>4, <3>4, <3>5, TurnGoesOn
    <2>6. CASE SkipFile
        <3>1. ret' = <<>>
            BY <2>1, <2>6 DEF SkipFile, Return
        <3>2. InHand' = InHand
            BY <2>1, <3>1 DEF InHand
        <3> HIDE DEF f
        <3>3. Abstract!Picks(Sources(InHand'), tried')
            BY <1>2, <1>3, <2>1, <2>2, <3>2, PicksSkip
        <3>4. Trail(received \o InHand', Left')
            BY <1>2, <1>3, <1>4, <2>1, <2>2, <2>3, <3>2, TrailDrop
        <3> QED BY <1>1, <1>5, <2>4, <3>3, <3>4, TurnGoesOn
    <2> QED BY <1>10, <2>5, <2>6
<1> QED BY <1>7, <1>8, <1>9, <1>10 DEF NextBatch, NextBatchStep

\* The steps that end a turn.
LEMMA OrderAnswer ==
    ASSUME OInv, EndTurn \/ FinishTurn
    PROVE  TurnPlaces' /\ InTurn' /\ Answered' /\ Accepted'
<1>0. TypeOK /\ TurnShape /\ TurnPlaces /\ InTurn /\ Accepted
    BY DEF OInv, IInv
<1>1. SUFFICES ASSUME NEW tok, Answer(tok), pc # "off", ret = <<>>,
                      LeftAfter([batches |-> sent, token |-> tok, tried |-> tried]) = Left,
                      tok # <<>> => sent # <<>>
               PROVE  TurnPlaces' /\ InTurn' /\ Answered' /\ Accepted'
    <2>1. CASE EndTurn
        <3>1. plan = "glob" /\ pc = "idle" /\ ret = <<>> /\ sent # <<>>
              /\ EncodeResume = ToBytes(cursor)
            BY <1>0, <2>1 DEF EndTurn, ResumeSupported, EncodeResume, TurnPlaces
        <3>2. cursor \in Cursor
            BY <1>0 DEF TypeOK, RHTypeOK, ProducerTypeOK
        <3>3. LeftAfter([batches |-> sent, token |-> <<ToBytes(cursor)>>, tried |-> tried])
                = Left
            BY <3>1, <3>2, RoundTrip DEF LeftAfter, Left
        <3> QED BY <1>1, <2>1, <3>1, <3>3 DEF EndTurn
    <2>2. CASE FinishTurn
        <3>1. Left = <<>> /\ ret = <<>> /\ pc # "off"
            BY <1>0, <2>2 DEF FinishTurn, TurnShape
        <3>2. LeftAfter([batches |-> sent, token |-> <<>>, tried |-> tried]) = Left
            BY <3>1 DEF LeftAfter
        <3> QED BY <1>1, <2>2, <3>1, <3>2 DEF FinishTurn
    <2> QED BY <2>1, <2>2
<1> DEFINE r == [batches |-> sent, token |-> tok, tried |-> tried]
<1>2. /\ resp' = <<r>> /\ pc' = "off" /\ sent' = <<>> /\ ret' = <<>>
      /\ UNCHANGED <<args, client, token, listed, received>>
    BY <1>1 DEF Answer, DropProducer, clientVars
<1>3. resp[1]' = r /\ r.batches = sent /\ r.token = tok /\ r.tried = tried
    BY <1>2
<1>4. Goal' = Goal /\ IsBlob' = IsBlob
    BY <1>2 DEF Goal, IsBlob
<1>5. TurnOK(sent, tried, Left)
    BY <1>0, <1>1, InHandType DEF InTurn
<1>7. /\ tried \o Left = Goal' /\ Abstract!Picks(Sources(sent), tried)
      /\ ~IsBlob' => Trail(received' \o sent, Left)
    BY <1>2, <1>4, <1>5 DEF TurnOK
<1>8. LeftAfter(resp[1]') = Left
    BY <1>1, <1>3
<1> HIDE DEF r
<1>9. Answered'
    BY <1>3, <1>7, <1>8 DEF Answered, TurnOK
<1>10. TurnPlaces'
    BY <1>0, <1>1, <1>2, <1>3 DEF TurnPlaces
<1> QED BY <1>0, <1>2, <1>4, <1>9, <1>10 DEF InTurn, Accepted

\* What an answer holds.
LEMMA AnswerType ==
    ASSUME TypeOK, resp # <<>>
    PROVE  /\ resp[1].batches \in Seq(Batch) /\ resp[1].tried \in Seq(Source)
           /\ resp[1].token \in Option(Bytes) /\ LeftAfter(resp[1]) \in Seq(Source)
<1>1. resp[1] \in Response
    BY Unwrap DEF TypeOK
<1>2. /\ resp[1].batches \in Seq(Batch) /\ resp[1].tried \in Seq(Source)
      /\ resp[1].token \in Option(Bytes)
    BY <1>1 DEF Response
<1>3. LeftAfter(resp[1]) \in Seq(Source)
    <2>1. CASE resp[1].token = <<>>
        BY <2>1, EmptyTypes DEF LeftAfter
    <2>2. CASE resp[1].token # <<>>
        <3>1. resp[1].token[1] \in Bytes
            BY <1>2, <2>2, Unwrap
        <3>2. Unread(FromBytes(resp[1].token[1])) \in Seq(Source)
            BY <3>1, FromBytesType, UnreadType, SeqMonotonic DEF Source
        <3> QED BY <2>2, <3>2 DEF LeftAfter
    <2> QED BY <2>1, <2>2
<1> QED BY <1>2, <1>3

\* The steps between turns.
LEMMA OrderBetween ==
    ASSUME OInv, Deliver \/ LoseTurn \/ CorruptToken
    PROVE  TurnPlaces' /\ InTurn' /\ Answered' /\ Accepted'
<1>0. TypeOK /\ TurnShape /\ TurnPlaces /\ Answered /\ Accepted
    BY DEF OInv, IInv
<1>1. CASE Deliver
    <2>1. /\ resp # <<>> /\ resp' = <<>> /\ pc = "off" /\ pc' = "off"
          /\ IsBlob' = IsBlob /\ sent' = sent /\ ret' = ret
          /\ token' = resp[1].token /\ received' = received \o resp[1].batches
          /\ client' = IF token' = <<>> THEN "done" ELSE "running"
        BY <1>0, <1>1 DEF Deliver, TurnShape, rhVars, producerVars, IsBlob
    <2>2. ~IsBlob => Trail(received', LeftAfter(resp[1]))
        BY <1>0, <2>1 DEF Answered, TurnOK
    <2>3. ~IsBlob => Trail(received', <<>>)
        <3>1. 1..Len(<<>>) = {}
            OBVIOUS
        <3> QED BY <2>2, <3>1 DEF Trail
    <2>4. token' # <<>> => ~IsBlob
        BY <1>0, <2>1 DEF TurnShape
    <2>5. token' # <<>> => Trail(received', Unread(FromBytes(token'[1])))
        BY <2>1, <2>2, <2>4 DEF LeftAfter
    <2> QED BY <1>0, <2>1, <2>3, <2>5 DEF TurnPlaces, InTurn, Answered, Accepted
<1>2. CASE LoseTurn
    <2>1. /\ pc' = "off" /\ resp' = <<>> /\ sent' = <<>> /\ ret' = <<>> /\ IsBlob' = IsBlob
          /\ UNCHANGED <<client, token, received>>
        BY <1>2 DEF LoseTurn, DropProducer, clientVars, IsBlob
    <2> QED BY <1>0, <2>1 DEF TurnPlaces, InTurn, Answered, Accepted
<1>3. CASE CorruptToken
    <2>1. /\ pc = "off" /\ resp = <<>> /\ token # <<>> /\ IsBlob' = IsBlob
          /\ UNCHANGED <<pc, resp, sent, ret, client, received>>
        BY <1>3 DEF CorruptToken, Idle, rhVars, producerVars, turnVars, IsBlob
    <2>2. token' # <<>> /\ Unread(FromBytes(token'[1])) = <<>>
        BY <1>3 DEF CorruptToken, EmptyBytes, MalformedBytes, FromBytes, Unread,
                    DefaultCursor
    <2>3. ~IsBlob
        BY <1>0, <2>1 DEF TurnShape
    <2> QED BY <1>0, <2>1, <2>2, <2>3 DEF TurnPlaces, InTurn, Answered, Accepted
<1> QED BY <1>1, <1>2, <1>3

\* Every step of the scan keeps the first invariant.
LEMMA OrderStep == OInv /\ [Next]_vars => OInv'
<1> SUFFICES ASSUME OInv, [Next]_vars PROVE OInv'
    OBVIOUS
<1>1. IInv' /\ TypeOK'
    BY ConservationStep DEF OInv, IInv
<1> SUFFICES TurnPlaces' /\ InTurn' /\ Answered' /\ Accepted'
    BY <1>1 DEF OInv
<1>2. CASE StartFirstTurn \/ StartNextTurn
    BY <1>1, <1>2, OrderStart
<1>3. CASE NextBatch \/ Collect
    BY <1>1, <1>3, OrderTurn
<1>4. CASE EndTurn \/ FinishTurn
    BY <1>4, OrderAnswer
<1>5. CASE Deliver \/ LoseTurn \/ CorruptToken
    BY <1>5, OrderBetween
<1>6. CASE OtherPrograms \/ UNCHANGED vars
    <2>1. UNCHANGED <<args, client, token, received, sent, resp, listed, tried,
                      plan, pc, ret, cursor, done>>
        BY <1>6 DEF OtherPrograms, Environment, WritePrimary, WriteLog, vars, rhVars,
                    producerVars, clientVars, turnVars
    <2>2. Left' = Left /\ IsBlob' = IsBlob /\ Goal' = Goal /\ InHand' = InHand
        BY <2>1 DEF Left, IsBlob, Goal, InHand
    <2> QED BY <2>1, <2>2 DEF OInv, TurnPlaces, InTurn, Answered, Accepted, TurnOK
<1> QED BY <1>2, <1>3, <1>4, <1>5, <1>6 DEF Next, TurnStep, Finished

LEMMA OrderInit == Init => OInv
<1> SUFFICES ASSUME Init PROVE OInv
    OBVIOUS
<1>1. 1..Len(<<>>) = {}
    OBVIOUS
<1>2. Trail(<<>>, <<>>)
    BY <1>1 DEF Trail
<1> QED BY <1>2, ConservationInit
       DEF OInv, Init, RHInit, NoProducer, TurnPlaces, InTurn, Answered, Accepted

\* The first invariant of the scan: a turn goes through its goal in order,
\* and what it reports it picks from what it went through.
THEOREM OrderInvariant == Spec => []OInv
    BY OrderInit, OrderStep, PTL DEF Spec

-----------------------------------------------------------------------------
(* The scan implements GlobScan. *)

\* An accepted answer is a turn of the abstract scan.
LEMMA DeliverTurn ==
    ASSUME OInv, Deliver
    PROVE  Abstract!Turn
<1> DEFINE r      == resp[1]
           before == Sources(received)
           fresh  == Sources(r.batches)
           after  == Sources(received')
<1>0. TypeOK /\ TurnShape /\ TurnPlaces /\ Answered
    BY DEF OInv, IInv
<1>1. /\ resp # <<>> /\ client = "running"
      /\ token' = r.token /\ received' = received \o r.batches
      /\ attempted' = attempted \o r.tried
      /\ client' = IF r.token = <<>> THEN "done" ELSE "running"
    BY <1>0 DEF Deliver, TurnShape
<1>2. /\ r.batches \in Seq(Batch) /\ r.tried \in Seq(Source)
      /\ LeftAfter(r) \in Seq(Source) /\ received \in Seq(Batch)
    BY <1>0, <1>1, AnswerType, InHandType
<1>3. r.tried \o LeftAfter(r) = Goal /\ Abstract!Picks(fresh, r.tried)
    BY <1>0, <1>1 DEF Answered, TurnOK
<1>4. /\ before \in Seq(Source) /\ fresh \in Seq(Source)
      /\ Len(fresh) = Len(r.batches) /\ after = before \o fresh
    BY <1>1, <1>2, SourcesType, SourcesConcat
<1>5. SubSeq(after, Len(before) + 1, Len(after)) = fresh
    BY <1>4, CutConcat
<1> DEFINE n == Len(r.tried)
<1>6. /\ SubSeq(Goal, 1, n) = r.tried /\ SubSeq(Goal, n + 1, Len(Goal)) = LeftAfter(r)
      /\ n \in 0..Len(Goal)
    <2> DEFINE whole == r.tried \o LeftAfter(r)
    <2>1. /\ SubSeq(whole, 1, n) = r.tried
          /\ SubSeq(whole, n + 1, Len(whole)) = LeftAfter(r)
          /\ n \in 0..Len(whole)
        BY <1>2, CutConcat
    <2>2. whole = Goal
        BY <1>3
    <2> HIDE DEF whole
    <2> QED BY <2>1, <2>2
<1>7. r.token # <<>> => fresh # <<>>
    <2>1. r.token # <<>> => r.batches # <<>>
        BY <1>0, <1>1 DEF TurnPlaces
    <2>2. r.batches # <<>> => Len(r.batches) # 0
        BY <1>2, EmptySeq
    <2>3. Len(<<>>) = 0
        OBVIOUS
    <2> QED BY <1>4, <2>1, <2>2, <2>3
<1>8. token = <<>> => Goal \in Playlists \cup {<<BlobSource>>}
    BY <1>0, <1>1 DEF TurnPlaces, Goal
<1>9. token # <<>> => Goal = Unread(FromBytes(token[1]))
    BY DEF Goal
<1>10. (IF token' = <<>> THEN <<>> ELSE Unread(FromBytes(token'[1]))) = LeftAfter(r)
    BY <1>1 DEF LeftAfter
<1>11. token' = <<>> => LeftAfter(r) = <<>>
    BY <1>1 DEF LeftAfter
<1> HIDE DEF r, before, fresh, after, n
<1> DEFINE ph == IF client = "done" THEN "done" ELSE IF token = <<>> THEN "new" ELSE "open"
           ph1 == IF client' = "done" THEN "done" ELSE IF token' = <<>> THEN "new" ELSE "open"
           td == IF token = <<>> THEN <<>> ELSE Unread(FromBytes(token[1]))
           td1 == IF token' = <<>> THEN <<>> ELSE Unread(FromBytes(token'[1]))
<1>12. /\ ph # "done" /\ ph1 \in {"open", "done"}
       /\ Goal \in (IF ph = "new" THEN Playlists \cup {<<BlobSource>>} ELSE {td})
       /\ ph1 = "open" => fresh # <<>>
       /\ ph1 = "done" => td1 = <<>>
       /\ td1 = LeftAfter(r)
    BY <1>1, <1>7, <1>8, <1>9, <1>10, <1>11
<1> HIDE DEF ph, ph1, td, td1
<1>13. /\ ph # "done" /\ ph1 \in {"open", "done"}
       /\ \E all \in (IF ph = "new" THEN Playlists \cup {<<BlobSource>>} ELSE {td}) :
          \E m \in 0..Len(all) :
             LET taken == SubSeq(all, 1, m)
                 new == SubSeq(after, Len(before) + 1, Len(after))
             IN  /\ td1 = SubSeq(all, m + 1, Len(all))
                 /\ attempted' = attempted \o taken
                 /\ after = before \o new
                 /\ Abstract!Picks(new, taken)
                 /\ ph1 = "open" => new # <<>>
                 /\ ph1 = "done" => td1 = <<>>
    <2> DEFINE new == SubSeq(after, Len(before) + 1, Len(after))
               taken == SubSeq(Goal, 1, n)
    <2>1. new = fresh /\ taken = r.tried
        BY <1>5, <1>6
    <2>2. /\ td1 = SubSeq(Goal, n + 1, Len(Goal))
          /\ attempted' = attempted \o taken
          /\ after = before \o new
          /\ Abstract!Picks(new, taken)
          /\ ph1 = "open" => new # <<>>
          /\ ph1 = "done" => td1 = <<>>
        BY <1>1, <1>3, <1>4, <1>6, <1>12, <2>1
    <2> QED BY <1>6, <1>12, <2>2, Zenon
<1> QED BY <1>13 DEF Abstract!Turn, ph, ph1, td, td1, before, after

\* A damaged token is a position lost.
LEMMA DamageForgets ==
    ASSUME OInv, CorruptToken
    PROVE  Abstract!Forget
<1>1. /\ client = "running" /\ client' = "running" /\ token # <<>>
      /\ UNCHANGED <<received, attempted>>
    BY DEF CorruptToken, Idle
<1>2. token' # <<>> /\ Unread(FromBytes(token'[1])) = <<>>
    BY DEF CorruptToken, EmptyBytes, MalformedBytes, FromBytes, Unread, DefaultCursor
<1>3. MaxDamaged > 0
    <2>1. damaged \in Nat /\ damaged < MaxDamaged /\ MaxDamaged \in Nat
        BY TransportAssumption DEF CorruptToken, OInv, IInv, TypeOK
    <2> QED BY <2>1
<1> QED BY <1>1, <1>2, <1>3 DEF Abstract!Forget

\* Every other step changes nothing the abstract scan sees.
LEMMA OtherStutters ==
    ASSUME [Next]_vars, ~Deliver, ~CorruptToken
    PROVE  UNCHANGED Abstract!gsVars
<1>1. UNCHANGED <<client, token, received, attempted>>
    BY DEF Next, TurnStep, StartFirstTurn, StartNextTurn, NextBatch, Collect, EndTurn,
           FinishTurn, Answer, LoseTurn, OtherPrograms, Finished, vars, clientVars
<1> QED BY <1>1 DEF Abstract!gsVars, Sources

\* The scan over HTTP implements GlobScan: the source list is fixed by the
\* first accepted turn, every accepted turn reports an ordered part of what
\* it went through, and the scan ends with nothing left, whatever turns are
\* lost and whatever becomes of the files and of the tokens.
THEOREM ScanImplements == Spec => ImplementsGlobScan
<1>1. Init => Abstract!Init
    BY DEF Init, Abstract!Init, Sources
<1>2. OInv /\ [Next]_vars => [Abstract!Turn \/ Abstract!Forget]_(Abstract!gsVars)
    BY DeliverTurn, DamageForgets, OtherStutters
<1> QED BY <1>1, <1>2, OrderInvariant, PTL DEF Spec, ImplementsGlobScan, Abstract!Spec

-----------------------------------------------------------------------------
(* The invariant behind the agreement of the batches with the disk. *)

HasLogs(f) == \E k \in 1..LogFiles : disk[f].logs[k] \in LogBytes

\* Batches of a file, labelled as it is on the disk if nobody changed it.
GoodBatch ==
    {b \in Batch :
        /\ b.rows > 0 /\ b.source \in File
        /\ b.source \notin touched =>
              /\ b.recovery = "null" <=> ~disk[b.source].primary.dirty
              /\ b.recovery = "dirty-no-logs" <=>
                    /\ disk[b.source].primary.dirty
                    /\ ~(args.apply_logs /\ HasLogs(b.source))}

\* The files nobody changed: those that must be reported, those that exist.
Owed     == {f \in File \ touched : MustReport(f)}
Standing == {f \in File \ touched : disk[f].primary # Absent}

\* Of the sources ss, those in fs have their batch.
Covers(bs, ss, fs) ==
    \A f \in fs : \A i \in 1..Len(ss) :
        ss[i] = f => \E j \in 1..Len(bs) : bs[j].source = f

\* Every file of fs is on the list.
Lists(list, fs) == \A f \in fs : \E i \in 1..Len(list) : list[i] = f

\* What was read of the current file is what the disk holds, if nobody
\* changed it: the primary, and of its logs those probed so far.
ReadAsIs ==
    LET f == cursor.current_file
    IN  f \notin touched =>
          /\ bytes = IF disk[f].primary \in {Absent, Unreadable}
                     THEN <<>> ELSE <<disk[f].primary>>
          /\ \A i \in 1..Len(logs) : \E k \in 1..(probe - 1) :
                logs[i] = disk[f].logs[LogFileOf[k]]
          /\ \A k \in 1..(probe - 1) :
                disk[f].logs[LogFileOf[k]] \in LogBytes => logs # <<>>
          /\ pc = "build" => probe = LogNames + 1

GoodBatches ==
    /\ received \in Seq(GoodBatch) /\ InHand \in Seq(GoodBatch)
    /\ resp # <<>> => resp[1].batches \in Seq(GoodBatch)
NoneMissing ==
    /\ Covers(received, attempted, Owed) /\ Covers(InHand, tried, Owed)
    /\ resp # <<>> => Covers(resp[1].batches, resp[1].tried, Owed)
AllListed ==
    /\ pc # "off" \/ resp # <<>> => Lists(listed, Standing)
    /\ token # <<>> \/ client = "done" => Lists(playlist, Standing)
Reading == pc \in {"logs", "build"} => ReadAsIs

DInv == ~IsBlob => GoodBatches /\ NoneMissing /\ AllListed /\ Reading

-----------------------------------------------------------------------------
(* What other programs may do to what was read. *)

\* Nobody changes an untouched file, and a touched one stays touched.
Kept ==
    /\ args' = args /\ touched \subseteq touched'
    /\ \A f \in File : f \notin touched' => disk'[f] = disk[f]

LEMMA StepKeeps ==
    ASSUME TypeOK, [Next]_vars
    PROVE  Kept
<1>1. CASE OtherPrograms
    <2>1. ASSUME NEW f \in File, NEW p, WritePrimary(f, p) PROVE Kept
        BY <2>1 DEF WritePrimary, Kept, TypeOK, RHTypeOK
    <2>2. ASSUME NEW f \in File, NEW i, NEW l, WriteLog(f, i, l) PROVE Kept
        BY <2>2 DEF WriteLog, Kept, TypeOK, RHTypeOK
    <2> QED BY <1>1, <2>1, <2>2 DEF OtherPrograms, Environment
<1>2. CASE ~OtherPrograms
    <2>1. UNCHANGED <<args, touched, disk>>
        BY <1>2 DEF Next, TurnStep, StartFirstTurn, StartNextTurn, NextBatch, NextBatchStep,
              NextBatchBlob, NextBatchExhausted, ReadPrimary, ReadLog, EmitFile, SkipFile,
              Collect, EndTurn, FinishTurn, Answer, Deliver, LoseTurn, CorruptToken,
              Finished, vars, rhVars
    <2> QED BY <2>1 DEF Kept
<1> QED BY <1>1, <1>2

LEMMA KeptSets ==
    ASSUME Kept
    PROVE  /\ GoodBatch \subseteq GoodBatch' /\ Seq(GoodBatch) \subseteq Seq(GoodBatch')
           /\ Owed' \subseteq Owed /\ Standing' \subseteq Standing
           /\ IsBlob' = IsBlob
<1>1. GoodBatch \subseteq GoodBatch'
    BY DEF Kept, GoodBatch, HasLogs
<1>2. Owed' \subseteq Owed
    BY DEF Kept, Owed, MustReport
<1>3. Standing' \subseteq Standing
    BY DEF Kept, Standing
<1>4. Seq(GoodBatch) \subseteq Seq(GoodBatch')
    BY <1>1, SeqMonotonic
<1> QED BY <1>1, <1>2, <1>3, <1>4 DEF Kept, IsBlob

LEMMA CoversFewer ==
    ASSUME NEW bs, NEW ss, NEW fs, NEW gs, gs \subseteq fs, Covers(bs, ss, fs)
    PROVE  Covers(bs, ss, gs)
    BY Zenon DEF Covers

LEMMA ListsFewer ==
    ASSUME NEW list, NEW fs, NEW gs, gs \subseteq fs, Lists(list, fs)
    PROVE  Lists(list, gs)
    BY Zenon DEF Lists

LEMMA CoversNone ==
    ASSUME NEW bs, NEW fs
    PROVE  Covers(bs, <<>>, fs)
<1>1. 1..Len(<<>>) = {}
    OBVIOUS
<1> QED BY <1>1 DEF Covers

LEMMA CoversConcat ==
    ASSUME NEW a \in Seq(Batch), NEW b \in Seq(Batch), NEW s \in Seq(Source),
           NEW t \in Seq(Source), NEW fs, Covers(a, s, fs), Covers(b, t, fs)
    PROVE  Covers(a \o b, s \o t, fs)
<1>1. /\ Len(a) \in Nat /\ Len(b) \in Nat /\ Len(a \o b) = Len(a) + Len(b)
      /\ \A i \in 1..(Len(a) + Len(b)) :
            (a \o b)[i] = IF i <= Len(a) THEN a[i] ELSE b[i - Len(a)]
    BY ConcatProperties, LenProperties
<1>2. /\ Len(s) \in Nat /\ Len(t) \in Nat /\ Len(s \o t) = Len(s) + Len(t)
      /\ \A i \in 1..(Len(s) + Len(t)) :
            (s \o t)[i] = IF i <= Len(s) THEN s[i] ELSE t[i - Len(s)]
    BY ConcatProperties, LenProperties
<1>3. \A j \in 1..Len(a) : j \in 1..Len(a \o b) /\ (a \o b)[j] = a[j]
    BY <1>1
<1>4. ASSUME NEW j \in 1..Len(b)
      PROVE  Len(a) + j \in 1..Len(a \o b) /\ (a \o b)[Len(a) + j] = b[j]
    <2>1. /\ Len(a) + j \in 1..(Len(a) + Len(b)) /\ ~(Len(a) + j <= Len(a))
          /\ (Len(a) + j) - Len(a) = j
        BY <1>1
    <2> QED BY <1>1, <2>1
<1> SUFFICES ASSUME NEW f \in fs, NEW i \in 1..Len(s \o t), (s \o t)[i] = f
             PROVE  \E j \in 1..Len(a \o b) : (a \o b)[j].source = f
    BY DEF Covers
<1>5. CASE i <= Len(s)
    <2>1. i \in 1..Len(s) /\ s[i] = f
        BY <1>2, <1>5
    <2>2. PICK j \in 1..Len(a) : a[j].source = f
        BY <2>1 DEF Covers
    <2> QED BY <1>3, <2>2
<1>6. CASE ~(i <= Len(s))
    <2>1. i - Len(s) \in 1..Len(t) /\ t[i - Len(s)] = f
        BY <1>2, <1>6
    <2>2. PICK j \in 1..Len(b) : b[j].source = f
        BY <2>1 DEF Covers
    <2> QED BY <1>4, <2>2
<1> QED BY <1>5, <1>6

LEMMA CoversBoth ==
    ASSUME NEW bs \in Seq(Batch), NEW ss \in Seq(Source), NEW b \in Batch, NEW fs,
           Covers(bs, ss, fs)
    PROVE  Covers(Append(bs, b), Append(ss, b.source), fs)
<1>1. /\ Len(bs) \in Nat /\ Len(Append(bs, b)) = Len(bs) + 1
      /\ \A i \in 1..Len(bs) : Append(bs, b)[i] = bs[i]
      /\ Append(bs, b)[Len(bs) + 1] = b
    BY AppendProperties, LenProperties
<1>2. /\ Len(ss) \in Nat /\ Len(Append(ss, b.source)) = Len(ss) + 1
      /\ \A i \in 1..Len(ss) : Append(ss, b.source)[i] = ss[i]
      /\ Append(ss, b.source)[Len(ss) + 1] = b.source
    <2>1. b.source \in Source
        BY DEF Batch
    <2> QED BY <2>1, AppendProperties, LenProperties
<1>3. /\ Len(bs) + 1 \in 1..Len(Append(bs, b))
      /\ \A j \in 1..Len(bs) : j \in 1..Len(Append(bs, b))
    BY <1>1
<1>4. \A i \in 1..Len(Append(ss, b.source)) : i \in 1..Len(ss) \/ i = Len(ss) + 1
    BY <1>2
<1> SUFFICES ASSUME NEW f \in fs, NEW i \in 1..Len(Append(ss, b.source)),
                    Append(ss, b.source)[i] = f
             PROVE  \E j \in 1..Len(Append(bs, b)) : Append(bs, b)[j].source = f
    BY DEF Covers
<1>5. CASE i \in 1..Len(ss)
    <2>1. PICK j \in 1..Len(bs) : bs[j].source = f
        BY <1>2, <1>5 DEF Covers
    <2> QED BY <1>1, <1>3, <2>1
<1>6. CASE i = Len(ss) + 1
    BY <1>1, <1>2, <1>3, <1>6
<1> QED BY <1>4, <1>5, <1>6

LEMMA CoversSkip ==
    ASSUME NEW bs, NEW ss \in Seq(Source), NEW e \in Source, NEW fs, e \notin fs,
           Covers(bs, ss, fs)
    PROVE  Covers(bs, Append(ss, e), fs)
<1>1. /\ Len(ss) \in Nat /\ Len(Append(ss, e)) = Len(ss) + 1
      /\ \A i \in 1..Len(ss) : Append(ss, e)[i] = ss[i]
      /\ Append(ss, e)[Len(ss) + 1] = e
    BY AppendProperties, LenProperties
<1>2. \A i \in 1..Len(Append(ss, e)) : i \in 1..Len(ss) \/ i = Len(ss) + 1
    BY <1>1
<1> QED BY <1>1, <1>2 DEF Covers

-----------------------------------------------------------------------------
(* What is read of a file nobody changes. *)

\* One more log name probed.
LEMMA ProbeMore ==
    ASSUME TypeOK, ReadLog, ReadAsIs
    PROVE  ReadAsIs'
<1> DEFINE f == cursor.current_file
           l == disk[f].logs[LogFileOf[probe]]
<1>1. /\ pc = "logs" /\ logs' = (IF l \in LogBytes THEN Append(logs, l) ELSE logs)
      /\ probe' = probe + 1 /\ pc' = (IF probe = LogNames THEN "build" ELSE "logs")
      /\ UNCHANGED <<disk, touched, cursor, bytes>>
    BY DEF ReadLog
<1>2. probe \in 1..LogNames /\ LogNames \in Nat /\ logs \in Seq(LogBytes) /\ Len(logs) \in Nat
    BY <1>1, BoundAssumption, LenProperties DEF TypeOK, RHTypeOK, ProducerTypeOK
<1>3. \A k : k \in 1..(probe' - 1) <=> k \in 1..(probe - 1) \/ k = probe
    BY <1>1, <1>2
<1> SUFFICES ASSUME f \notin touched
             PROVE  /\ bytes = IF disk[f].primary \in {Absent, Unreadable}
                               THEN <<>> ELSE <<disk[f].primary>>
                    /\ \A i \in 1..Len(logs') : \E k \in 1..(probe' - 1) :
                          logs'[i] = disk[f].logs[LogFileOf[k]]
                    /\ \A k \in 1..(probe' - 1) :
                          disk[f].logs[LogFileOf[k]] \in LogBytes => logs' # <<>>
                    /\ pc' = "build" => probe' = LogNames + 1
    BY <1>1 DEF ReadAsIs
<1>4. /\ bytes = IF disk[f].primary \in {Absent, Unreadable} THEN <<>> ELSE <<disk[f].primary>>
      /\ \A i \in 1..Len(logs) : \E k \in 1..(probe - 1) :
            logs[i] = disk[f].logs[LogFileOf[k]]
      /\ \A k \in 1..(probe - 1) : disk[f].logs[LogFileOf[k]] \in LogBytes => logs # <<>>
    BY DEF ReadAsIs
<1>5. pc' = "build" => probe' = LogNames + 1
    BY <1>1, <1>2
<1>6. CASE l \in LogBytes
    <2>1. logs' = Append(logs, l)
        BY <1>1, <1>6
    <2>2. /\ Len(logs') = Len(logs) + 1 /\ logs' # <<>>
          /\ \A i \in 1..Len(logs) : logs'[i] = logs[i]
          /\ logs'[Len(logs) + 1] = l
        BY <1>2, <1>6, <2>1, AppendProperties
    <2>3. \A i \in 1..Len(logs') : i \in 1..Len(logs) \/ i = Len(logs) + 1
        BY <1>2, <2>2
    <2>4. ASSUME NEW i \in 1..Len(logs')
          PROVE  \E k \in 1..(probe' - 1) : logs'[i] = disk[f].logs[LogFileOf[k]]
        <3>1. CASE i \in 1..Len(logs)
            <4>1. PICK k \in 1..(probe - 1) : logs[i] = disk[f].logs[LogFileOf[k]]
                BY <1>4, <3>1
            <4>2. logs'[i] = logs[i] /\ k \in 1..(probe' - 1)
                BY <1>3, <2>2, <3>1
            <4> QED BY <4>1, <4>2
        <3>2. CASE i = Len(logs) + 1
            <4>1. logs'[i] = disk[f].logs[LogFileOf[probe]] /\ probe \in 1..(probe' - 1)
                BY <1>3, <2>2, <3>2
            <4> QED BY <4>1
        <3> QED BY <2>3, <3>1, <3>2
    <2> QED BY <1>4, <1>5, <2>2, <2>4
<1>7. CASE l \notin LogBytes
    <2>1. logs' = logs
        BY <1>1, <1>7
    <2> QED BY <1>3, <1>4, <1>5, <1>7, <2>1
<1> QED BY <1>6, <1>7

\* All logs of an untouched file have been found, and no others.
LEMMA LogsFound ==
    ASSUME TypeOK, ReadAsIs, pc = "build", cursor.current_file \notin touched
    PROVE  /\ logs # <<>> <=> HasLogs(cursor.current_file)
           /\ \A i \in DOMAIN logs : \E k \in 1..LogFiles :
                 logs[i] = disk[cursor.current_file].logs[k]
<1> DEFINE f == cursor.current_file
<1>1. /\ \A i \in 1..Len(logs) : \E k \in 1..(probe - 1) :
            logs[i] = disk[f].logs[LogFileOf[k]]
      /\ \A k \in 1..(probe - 1) : disk[f].logs[LogFileOf[k]] \in LogBytes => logs # <<>>
      /\ probe = LogNames + 1
    BY DEF ReadAsIs
<1>2. probe - 1 = LogNames
    BY <1>1, BoundAssumption
<1>3. /\ \A i \in 1..Len(logs) : \E k \in 1..LogNames : logs[i] = disk[f].logs[LogFileOf[k]]
      /\ \A k \in 1..LogNames : disk[f].logs[LogFileOf[k]] \in LogBytes => logs # <<>>
    BY <1>1, <1>2
<1>4. /\ logs \in Seq(LogBytes) /\ DOMAIN logs = 1..Len(logs) /\ Len(logs) \in Nat
      /\ \A i \in 1..Len(logs) : logs[i] \in LogBytes
    BY LenProperties, ElementOfSeq DEF TypeOK, RHTypeOK, ProducerTypeOK
<1>5. \A i \in DOMAIN logs : \E k \in 1..LogFiles : logs[i] = disk[f].logs[k]
    BY <1>3, <1>4, NamesAssumption
<1>6. ASSUME logs # <<>> PROVE HasLogs(f)
    <2>1. 1 \in 1..Len(logs)
        BY <1>4, <1>6, EmptySeq
    <2> QED BY <1>4, <1>5, <2>1 DEF HasLogs
<1>7. ASSUME HasLogs(f) PROVE logs # <<>>
    <2>1. PICK k \in 1..LogFiles : disk[f].logs[k] \in LogBytes
        BY <1>7 DEF HasLogs
    <2>2. PICK n \in 1..LogNames : LogFileOf[n] = k
        BY NamesAssumption
    <2> QED BY <1>3, <2>1, <2>2
<1> QED BY <1>5, <1>6, <1>7

LEMMA LabelCases ==
    ASSUME NEW d \in BOOLEAN, NEW l \in BOOLEAN, NEW a \in BOOLEAN
    PROVE  /\ BaseRecoveryLabel(d, l, a) = "null" <=> ~d
           /\ BaseRecoveryLabel(d, l, a) = "dirty-no-logs" <=> d /\ ~(a /\ l)
    BY DEF BaseRecoveryLabel

\* A batch emitted for a file is good.
LEMMA EmitsGood ==
    ASSUME TypeOK, ReadAsIs, pc = "build", NEW b \in FileBatches, b.rows > 0
    PROVE  b \in GoodBatch
<1> DEFINE f == cursor.current_file
<1>1. f \in File /\ b \in Batch /\ args.apply_logs \in BOOLEAN
    BY FileBatchesType DEF TypeOK, RHTypeOK, ProducerTypeOK, Args
<1>2. bytes # <<>>
    BY DEF FileBatches
<1>3. PICK built \in NotatinBuild(bytes[1], HandedLogs(args.apply_logs, logs)) :
        b = BuildRows(args.apply_logs, bytes[1], f, logs, built)
    BY <1>2 DEF FileBatches
<1>4. /\ b.source = f
      /\ b.recovery = BaseRecoveryLabel(bytes[1].dirty, logs # <<>>, args.apply_logs)
    BY <1>3 DEF BuildRows
<1>5. ASSUME f \notin touched
      PROVE  /\ b.recovery = "null" <=> ~disk[f].primary.dirty
             /\ b.recovery = "dirty-no-logs" <=>
                    disk[f].primary.dirty /\ ~(args.apply_logs /\ HasLogs(f))
    <2>1. bytes[1] = disk[f].primary
        BY <1>2, <1>5 DEF ReadAsIs
    <2>2. bytes[1] \in HiveImage
        BY <1>2, Unwrap, ImageAssumption DEF TypeOK, RHTypeOK, ProducerTypeOK
    <2>3. bytes[1].dirty \in BOOLEAN
        BY <2>2 DEF HiveImage
    <2>4. logs # <<>> <=> HasLogs(f)
        BY <1>5, LogsFound
    <2>5. /\ b.recovery = "null" <=> ~bytes[1].dirty
          /\ b.recovery = "dirty-no-logs" <=>
                bytes[1].dirty /\ ~(args.apply_logs /\ logs # <<>>)
        <3> DEFINE d == bytes[1].dirty
                   l == logs # <<>>
                   a == args.apply_logs
        <3>1. d \in BOOLEAN /\ l \in BOOLEAN /\ a \in BOOLEAN
            BY <1>1, <2>3
        <3> HIDE DEF d, l, a
        <3>2. b.recovery = BaseRecoveryLabel(d, l, a)
            BY <1>4 DEF d, l, a
        <3>3. /\ BaseRecoveryLabel(d, l, a) = "null" <=> ~d
              /\ BaseRecoveryLabel(d, l, a) = "dirty-no-logs" <=> d /\ ~(a /\ l)
            BY <3>1, LabelCases
        <3> QED BY <3>2, <3>3 DEF d, l, a
    <2> QED BY <2>1, <2>4, <2>5, Zenon
<1> QED BY <1>1, <1>4, <1>5 DEF GoodBatch

\* A file that gives no rows is not one that must be reported.
LEMMA SkipsNone ==
    ASSUME TypeOK, ReadAsIs, SkipFile
    PROVE  cursor.current_file \notin Owed
<1> DEFINE f == cursor.current_file
           handed == HandedLogs(args.apply_logs, logs)
<1> SUFFICES ASSUME f \in Owed PROVE FALSE
    OBVIOUS
<1>1. /\ pc = "build" /\ f \in File /\ f \notin touched /\ MustReport(f)
      /\ FileBatches = {} \/ \E b \in FileBatches : b.rows = 0
    BY DEF SkipFile, Owed
<1>2. bytes = <<disk[f].primary>> /\ bytes # <<>> /\ bytes[1] = disk[f].primary
    BY <1>1 DEF ReadAsIs, MustReport
<1> DEFINE h == disk[f].primary
<1>3. /\ Openable(h) /\ h.builds /\ h.keys > 0
      /\ args.apply_logs => \A i \in 1..LogFiles : disk[f].logs[i] # "unusable"
    BY <1>1 DEF MustReport
<1>4. \A i \in DOMAIN handed : handed[i] # "unusable"
    <2>1. \A i \in DOMAIN logs : \E k \in 1..LogFiles : logs[i] = disk[f].logs[k]
        BY <1>1, LogsFound
    <2>2. CASE args.apply_logs
        BY <1>3, <2>1, <2>2 DEF HandedLogs
    <2>3. CASE ~args.apply_logs
        <3>1. handed = <<>>
            BY <2>3 DEF HandedLogs
        <3>2. DOMAIN <<>> = {}
            OBVIOUS
        <3> QED BY <3>1, <3>2
    <2> QED BY <2>2, <2>3
<1>5. NotatinBuild(h, handed) = {h.builds}
    BY <1>4 DEF NotatinBuild
<1> HIDE DEF h, handed
<1>6. FileBatches = {BuildRows(args.apply_logs, h, f, logs, built) :
                        built \in NotatinBuild(h, handed)}
    BY <1>2 DEF FileBatches, h, handed
<1>7. FileBatches = {BuildRows(args.apply_logs, h, f, logs, h.builds)}
    BY <1>5, <1>6
<1>8. BuildRows(args.apply_logs, h, f, logs, h.builds).rows = h.keys
    BY <1>3 DEF BuildRows
<1>9. h.keys # 0
    BY <1>3
<1> QED BY <1>1, <1>7, <1>8, <1>9

-----------------------------------------------------------------------------
(* Every step keeps the second invariant. *)

DStrong == OInv /\ DInv

LEMMA DiskStep == DStrong /\ [Next]_vars => DStrong'
<1> SUFFICES ASSUME DStrong, [Next]_vars PROVE DStrong'
    OBVIOUS
<1>0. OInv /\ DInv /\ OInv' /\ TypeOK /\ TypeOK' /\ TurnShape /\ TurnPlaces /\ Kept
    BY OrderStep, StepKeeps DEF DStrong, OInv, IInv
<1>1. /\ GoodBatch \subseteq GoodBatch' /\ Seq(GoodBatch) \subseteq Seq(GoodBatch')
      /\ Owed' \subseteq Owed /\ Standing' \subseteq Standing /\ IsBlob' = IsBlob
    BY <1>0, KeptSets
<1> SUFFICES ASSUME ~IsBlob
             PROVE  GoodBatches' /\ NoneMissing' /\ AllListed' /\ Reading'
    BY <1>0, <1>1 DEF DStrong, DInv
<1>2. GoodBatches /\ NoneMissing /\ AllListed /\ Reading
    BY <1>0 DEF DInv
<1>3. /\ received \in Seq(GoodBatch') /\ InHand \in Seq(GoodBatch')
      /\ resp # <<>> => resp[1].batches \in Seq(GoodBatch')
    BY <1>1, <1>2 DEF GoodBatches
<1>4. /\ Covers(received, attempted, Owed') /\ Covers(InHand, tried, Owed')
      /\ resp # <<>> => Covers(resp[1].batches, resp[1].tried, Owed')
    BY <1>1, <1>2, CoversFewer DEF NoneMissing
<1>5. /\ pc # "off" \/ resp # <<>> => Lists(listed, Standing')
      /\ token # <<>> \/ client = "done" => Lists(playlist, Standing')
    BY <1>1, <1>2, ListsFewer DEF AllListed
<1>6. <<>> \in Seq(GoodBatch') /\ \A bs : Covers(bs, <<>>, Owed')
    BY EmptySeq, CoversNone
<1>7. /\ received \in Seq(Batch) /\ InHand \in Seq(Batch) /\ sent \in Seq(Batch)
      /\ tried \in Seq(Source) /\ attempted \in Seq(Source)
      /\ ret = <<>> => InHand = sent
    BY <1>0, InHandType DEF TypeOK
<1>8. CASE StartFirstTurn \/ StartNextTurn
    <2>1. /\ pc = "off" /\ sent' = <<>> /\ ret' = <<>> /\ tried' = <<>> /\ resp' = <<>>
          /\ pc' = "idle" /\ UNCHANGED <<received, attempted, client, token, playlist, disk, touched>>
        BY <1>0, <1>8 DEF StartFirstTurn, StartNextTurn, Idle, Producer, ProducerRestored,
                Construct, clientVars, TurnPlaces
    <2>2. InHand' = <<>>
        BY <2>1 DEF InHand
    <2>3. Lists(listed', Standing')
        <3>1. CASE StartFirstTurn
            <4>1. PICK files \in ExpandGlob : listed' = files
                BY <3>1 DEF StartFirstTurn
            <4>2. DOMAIN files = 1..Len(files)
                BY PlaylistType, LenProperties
            <4>3. {files[i] : i \in DOMAIN files} = {f \in File : disk[f].primary # Absent}
                BY DEF ExpandGlob
            <4>4. Standing' \subseteq {f \in File : disk[f].primary # Absent}
                BY <2>1 DEF Standing
            <4> QED BY <4>1, <4>2, <4>3, <4>4 DEF Lists
        <3>2. CASE StartNextTurn
            BY <1>5, <3>2 DEF StartNextTurn
        <3> QED BY <1>8, <3>1, <3>2
    <2>4. GoodBatches'
        BY <1>3, <1>6, <2>1, <2>2 DEF GoodBatches
    <2>5. NoneMissing'
        BY <1>4, <1>6, <2>1, <2>2 DEF NoneMissing
    <2>6. AllListed'
        BY <1>5, <2>1, <2>3 DEF AllListed
    <2> QED BY <2>1, <2>4, <2>5, <2>6 DEF Reading
<1>9. CASE NextBatch \/ Collect
    <2>1. /\ pc # "off" /\ pc' # "off" /\ resp = <<>> /\ resp' = <<>>
          /\ UNCHANGED <<received, attempted, client, token, playlist, listed, disk, touched>>
        BY <1>0, <1>9 DEF NextBatch, NextBatchStep, NextBatchBlob, NextBatchExhausted,
               ReadPrimary, ReadLog, EmitFile, SkipFile, Collect, Return, clientVars,
               turnVars, TurnShape
    <2>2. AllListed'
        BY <1>5, <2>1 DEF AllListed
    <2>3. SUFFICES InHand' \in Seq(GoodBatch') /\ Covers(InHand', tried', Owed') /\ Reading'
        BY <1>3, <1>4, <2>1, <2>2 DEF GoodBatches, NoneMissing
    <2>4. CASE Collect
        <3>1. /\ ret # <<>> /\ ret' = <<>> /\ sent' = Append(sent, ret[1])
              /\ tried' = tried /\ pc' = "idle"
            BY <2>4 DEF Collect
        <3>2. PICK b \in Batch : ret = <<b>> /\ sent' = Append(sent, b)
            BY <1>0, <3>1, Unwrap DEF TypeOK, RHTypeOK, ProducerTypeOK
        <3>3. sent' = sent \o ret /\ sent' \in Seq(Batch)
            BY <1>7, <3>2, AppendIsConcat, AppendProperties
        <3>4. InHand' = InHand
            BY <3>1, <3>3, ConcatEmptySeq DEF InHand
        <3> QED BY <1>3, <1>4, <3>1, <3>4 DEF Reading
    <2>5. CASE NextBatch /\ (NextBatchExhausted \/ ReadPrimary \/ ReadLog)
        <3>1. ret' = ret /\ sent' = sent /\ tried' = tried
            BY <1>0, <2>5 DEF NextBatch, NextBatchExhausted, ReadPrimary, ReadLog, Return,
                              turnVars, TurnPlaces
        <3>2. InHand' = InHand
            BY <3>1 DEF InHand
        <3>3. Reading'
            <4>1. CASE NextBatchExhausted
                BY <4>1 DEF NextBatchExhausted, Return, Reading
            <4>2. CASE ReadPrimary
                <5>1. 1..Len(<<>>) = {} /\ 1..(1 - 1) = {}
                    OBVIOUS
                <5>2. /\ pc' = "logs" /\ logs' = <<>> /\ probe' = 1
                      /\ UNCHANGED <<disk, touched, cursor>>
                      /\ bytes' = IF disk[cursor.current_file].primary \in {Absent, Unreadable}
                                  THEN <<>> ELSE <<disk[cursor.current_file].primary>>
                    BY <4>2 DEF ReadPrimary
                <5> QED BY <5>1, <5>2 DEF Reading, ReadAsIs
            <4>3. CASE ReadLog
                <5>1. ReadAsIs
                    BY <1>2, <4>3 DEF Reading, ReadLog
                <5> QED BY <1>0, <4>3, <5>1, ProbeMore DEF Reading
            <4> QED BY <2>5, <4>1, <4>2, <4>3
        <3> QED BY <1>3, <1>4, <3>1, <3>2, <3>3
    <2>6. CASE NextBatch /\ NextBatchBlob
        BY <1>0, <2>6 DEF NextBatchBlob, TypeOK, RHTypeOK, ProducerTypeOK
    <2>7. CASE NextBatch /\ (EmitFile \/ SkipFile)
        <3> DEFINE f == cursor.current_file
        <3>1. /\ pc = "build" /\ ret = <<>> /\ sent' = sent /\ tried' = Append(tried, f)
              /\ pc' \in {"returned", "loop"}
            BY <1>0, <2>7 DEF NextBatch, EmitFile, SkipFile, Return, turnVars, TurnPlaces
        <3>2. f \in File /\ f \in Source /\ ReadAsIs
            BY <1>0, <1>2, <3>1 DEF TypeOK, RHTypeOK, ProducerTypeOK, Source, Reading
        <3>3. Reading'
            BY <3>1 DEF Reading
        <3>4. CASE EmitFile
            <4>1. PICK b \in FileBatches : b.rows > 0 /\ ret' = <<b>>
                BY <3>4 DEF EmitFile, Return
            <4>2. b \in GoodBatch /\ b \in GoodBatch' /\ b \in Batch /\ b.source = f
                BY <1>0, <1>1, <3>1, <3>2, <4>1, EmitsGood DEF FileBatches, BuildRows,
                   GoodBatch
            <4> HIDE DEF f
            <4>3. InHand' = Append(InHand, b)
                BY <1>0, <2>1, <3>1, <4>1, <4>2, MoreInHand
            <4>4. InHand' \in Seq(GoodBatch')
                BY <1>3, <4>2, <4>3, AppendProperties
            <4>5. Covers(InHand', tried', Owed')
                BY <1>4, <1>7, <3>1, <4>2, <4>3, CoversBoth
            <4> QED BY <3>3, <4>4, <4>5
        <3>5. CASE SkipFile
            <4>1. ret' = <<>>
                BY <3>1, <3>5 DEF SkipFile, Return
            <4>2. InHand' = InHand
                BY <3>1, <4>1 DEF InHand
            <4>3. f \notin Owed'
                BY <1>0, <1>1, <3>2, <3>5, SkipsNone
            <4> HIDE DEF f
            <4>4. Covers(InHand', tried', Owed')
                BY <1>4, <1>7, <3>1, <3>2, <4>2, <4>3, CoversSkip
            <4> QED BY <1>3, <3>3, <4>2, <4>4
        <3> QED BY <2>7, <3>4, <3>5
    <2> QED BY <1>9, <2>4, <2>5, <2>6, <2>7 DEF NextBatch, NextBatchStep
<1>10. CASE EndTurn \/ FinishTurn
    <2>1. PICK tok : Answer(tok) /\ ret = <<>> /\ pc # "off"
        BY <1>0, <1>10 DEF EndTurn, FinishTurn, TurnPlaces
    <2> DEFINE r == [batches |-> sent, token |-> tok, tried |-> tried]
    <2>2. /\ resp' = <<r>> /\ pc' = "off" /\ sent' = <<>> /\ ret' = <<>> /\ tried' = <<>>
          /\ UNCHANGED <<client, token, listed, playlist, received, attempted>>
        BY <2>1 DEF Answer, DropProducer, clientVars
    <2>3. resp[1]' = r /\ r.batches = InHand /\ r.tried = tried /\ InHand' = <<>>
        BY <1>7, <2>1, <2>2 DEF InHand
    <2> HIDE DEF r
    <2>4. GoodBatches'
        BY <1>3, <1>6, <2>2, <2>3 DEF GoodBatches
    <2>5. NoneMissing'
        BY <1>4, <1>6, <2>2, <2>3 DEF NoneMissing
    <2>6. AllListed'
        BY <1>5, <2>1, <2>2 DEF AllListed
    <2> QED BY <2>2, <2>4, <2>5, <2>6 DEF Reading
<1>11. CASE Deliver
    <2>1. /\ resp # <<>> /\ resp' = <<>> /\ pc = "off" /\ pc' = "off" /\ playlist' = listed
          /\ sent' = sent /\ ret' = ret /\ tried' = tried
          /\ received' = received \o resp[1].batches
          /\ attempted' = attempted \o resp[1].tried
        BY <1>0, <1>11 DEF Deliver, TurnShape, rhVars, producerVars
    <2>2. InHand' = InHand
        BY <2>1 DEF InHand
    <2>3. resp[1].batches \in Seq(Batch) /\ resp[1].tried \in Seq(Source)
        BY <1>0, <2>1, AnswerType
    <2>4. GoodBatches'
        BY <1>3, <2>1, <2>2, ConcatProperties DEF GoodBatches
    <2>5. Covers(received', attempted', Owed')
        BY <1>4, <1>7, <2>1, <2>3, CoversConcat
    <2>6. NoneMissing'
        BY <1>4, <2>1, <2>2, <2>5 DEF NoneMissing
    <2>7. AllListed'
        BY <1>5, <2>1 DEF AllListed
    <2> QED BY <2>1, <2>4, <2>6, <2>7 DEF Reading
<1>12. CASE LoseTurn
    <2>1. /\ pc' = "off" /\ resp' = <<>> /\ sent' = <<>> /\ ret' = <<>> /\ tried' = <<>>
          /\ UNCHANGED <<client, token, received, attempted, playlist>>
        BY <1>12 DEF LoseTurn, DropProducer, clientVars
    <2>2. InHand' = <<>>
        BY <2>1 DEF InHand
    <2> QED BY <1>3, <1>4, <1>5, <1>6, <2>1, <2>2
            DEF GoodBatches, NoneMissing, AllListed, Reading
<1>13. CASE CorruptToken \/ OtherPrograms \/ UNCHANGED vars
    <2>1. /\ UNCHANGED <<client, received, attempted, playlist, sent, resp, listed, tried,
                         pc, ret, cursor, bytes, logs, probe>>
          /\ token' # <<>> => token # <<>>
        BY <1>13 DEF CorruptToken, OtherPrograms, Environment, WritePrimary, WriteLog, vars,
                     rhVars, producerVars, clientVars, turnVars
    <2>2. InHand' = InHand
        BY <2>1 DEF InHand
    <2>3. Reading'
        <3>1. SUFFICES ASSUME pc \in {"logs", "build"}, ReadAsIs PROVE ReadAsIs'
            BY <1>2, <2>1 DEF Reading
        <3>2. cursor.current_file \in File
            BY <1>0, <3>1 DEF TypeOK, RHTypeOK, ProducerTypeOK
        <3> QED BY <1>0, <2>1, <3>1, <3>2 DEF ReadAsIs, Kept
    <2> QED BY <1>3, <1>4, <1>5, <2>1, <2>2, <2>3
            DEF GoodBatches, NoneMissing, AllListed
<1> QED BY <1>8, <1>9, <1>10, <1>11, <1>12, <1>13 DEF Next, TurnStep, Finished

LEMMA DiskInit == Init => DStrong
<1> SUFFICES ASSUME Init PROVE DStrong
    OBVIOUS
<1>1. InHand = <<>> /\ <<>> \in Seq(GoodBatch) /\ Covers(<<>>, <<>>, Owed)
    BY EmptySeq, CoversNone DEF Init, RHInit, NoProducer, InHand
<1> QED BY <1>1, OrderInit DEF DStrong, DInv, GoodBatches, NoneMissing, AllListed, Reading,
           Init, RHInit, NoProducer

\* The second invariant of the scan: batches agree with the disk, nothing
\* that must be reported is missing from what was gone through, and no file
\* that was there all the time is missing from the list.
THEOREM DiskInvariant == Spec => []DStrong
    BY DiskInit, DiskStep, PTL DEF Spec

-----------------------------------------------------------------------------
(* What follows. *)

\* Files come once, in sorted order, and no batch is empty, however often a
\* turn was lost and run again.
THEOREM FilesOrderedOnce == Spec => []OrderedOnce
<1>1. ASSUME DStrong PROVE OrderedOnce
    <2> SUFFICES ASSUME ~IsBlob
                 PROVE  /\ Ascending(Sources(received \o sent))
                        /\ \A i \in DOMAIN received : received[i].rows > 0
        BY DEF OrderedOnce
    <2>1. TypeOK /\ TurnPlaces /\ InTurn /\ Accepted /\ received \in Seq(GoodBatch)
        BY <1>1 DEF DStrong, OInv, IInv, DInv, GoodBatches
    <2>2. received \in Seq(Batch) /\ sent \in Seq(Batch) /\ ret \in Seq(Batch)
        BY <2>1, InHandType
    <2>3. received \o sent \in Seq(Batch) /\ (received \o sent) \o ret = received \o InHand
        BY <2>2, ConcatProperties, ConcatAssociative DEF InHand
    <2>4. \A i \in DOMAIN received : received[i].rows > 0
        BY <2>1, ElementOfSeq, LenProperties DEF GoodBatch
    <2>5. CASE pc # "off"
        <3>1. Trail(received \o InHand, Left)
            BY <2>1, <2>5 DEF InTurn, TurnOK
        <3>2. Trail((received \o sent) \o ret, Left)
            BY <2>3, <3>1
        <3>3. Ascending(Sources(received \o sent))
            BY <2>2, <2>3, <3>2, TrailFront
        <3> QED BY <2>4, <3>3
    <2>6. CASE pc = "off"
        <3>1. received \o sent = received /\ received \o <<>> = received
            BY <2>1, <2>2, <2>6, ConcatEmptySeq DEF TurnPlaces
        <3>2. Trail(received, <<>>)
            BY <2>1 DEF Accepted
        <3>3. Trail(received \o <<>>, <<>>)
            BY <3>1, <3>2
        <3>4. Ascending(Sources(received))
            BY <2>2, <3>3, EmptyTypes, TrailFront
        <3> QED BY <2>4, <3>1, <3>4
    <2> QED BY <2>5, <2>6
<1> QED BY <1>1, DiskInvariant, PTL

\* The recovery label of a reported file that nobody changed is that of its
\* own image and its own logs.
THEOREM LabelsAgree == Spec => []LabelsMatchDisk
<1>1. ASSUME DStrong PROVE LabelsMatchDisk
    <2> SUFFICES ASSUME ~IsBlob, NEW i \in DOMAIN received,
                        received[i].source \notin touched
                 PROVE  LET b        == received[i]
                            dirty    == disk[b.source].primary.dirty
                            haveLogs == \E k \in 1..LogFiles :
                                            disk[b.source].logs[k] \in LogBytes
                        IN  /\ b.recovery = "null" <=> ~dirty
                            /\ b.recovery = "dirty-no-logs" <=>
                                  dirty /\ ~(args.apply_logs /\ haveLogs)
        BY DEF LabelsMatchDisk
    <2>1. received \in Seq(GoodBatch)
        BY <1>1 DEF DStrong, DInv, GoodBatches
    <2>2. received[i] \in GoodBatch
        BY <2>1, ElementOfSeq, LenProperties
    <2> QED BY <2>2 DEF GoodBatch, HasLogs
<1> QED BY <1>1, DiskInvariant, PTL

\* A finished glob scan whose token was never damaged has reported every
\* hive that opens and that nobody changed.
THEOREM NoHiveMissed == Spec => []UntouchedReported
<1>1. ASSUME DStrong PROVE UntouchedReported
    <2> SUFFICES ASSUME client = "done", ~IsBlob, damaged = 0,
                        NEW f \in File \ touched, MustReport(f)
                 PROVE  \E i \in DOMAIN received : received[i].source = f
        BY DEF UntouchedReported
    <2>1. /\ TypeOK /\ Conservation /\ Covers(received, attempted, Owed)
          /\ Lists(playlist, Standing)
        BY <1>1 DEF DStrong, OInv, IInv, DInv, NoneMissing, AllListed
    <2>2. attempted = playlist
        BY <2>1 DEF Conservation
    <2>3. f \in Owed /\ f \in Standing
        BY DEF Owed, Standing, MustReport
    <2>4. PICK i \in 1..Len(attempted) : attempted[i] = f
        BY <2>1, <2>2, <2>3 DEF Lists
    <2>5. PICK j \in 1..Len(received) : received[j].source = f
        BY <2>1, <2>3, <2>4 DEF Covers
    <2>6. DOMAIN received = 1..Len(received)
        BY <2>1, LenProperties DEF TypeOK
    <2> QED BY <2>5, <2>6
<1> QED BY <1>1, DiskInvariant, PTL
=============================================================================
