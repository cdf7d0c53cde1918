------------------------------ MODULE HttpScan ------------------------------
(***************************************************************************)
(* A read_hive scan over the HTTP transport.  The worker keeps nothing     *)
(* between turns: a turn builds a producer, restores the cursor the client *)
(* sent back, calls next_batch one or more times and answers with the      *)
(* batches and the encoded cursor.  A worker that dies or an answer that   *)
(* is lost leaves the client with the token of its last accepted turn,     *)
(* which it sends again.                                                   *)
(*                                                                         *)
(* The turn loop belongs to the vgi SDK, which is external: it is modelled *)
(* from the TableProducer methods the repository implements for it.  A     *)
(* stdio scan is the behaviour with a single, unbroken turn.               *)
(***************************************************************************)
EXTENDS ReadHive

CONSTANTS
    MaxLost,      \* bound: turns that are lost
    MaxDamaged    \* bound: times the stored token is damaged between turns

ASSUME TransportAssumption == MaxLost \in Nat /\ MaxDamaged \in Nat

VARIABLES
    client,      \* "running" or "done"
    token,       \* the opaque_data of the last accepted turn (an Option)
    received,    \* the batches of the accepted turns
    sent,        \* the batches collected in the current turn
    resp,        \* the answer on its way to the client (an Option)
    lost,        \* turns lost so far
    listed,      \* history: the source list of the current turn
    playlist,    \* history: the source list the first accepted turn fixed
    attempted,   \* history: sources finished with in accepted turns
    damaged      \* history: times the token was damaged

clientVars == <<client, token, received, playlist, attempted, damaged>>
turnVars   == <<sent, resp, listed>>
vars       == <<rhVars, clientVars, turnVars, lost>>

Response == [batches : Seq(Batch), token : Option(Bytes), tried : Seq(Source)]

Init ==
    /\ RHInit
    /\ client = "running" /\ token = <<>> /\ received = <<>>
    /\ sent = <<>> /\ resp = <<>> /\ lost = 0
    /\ listed = <<>> /\ playlist = <<>> /\ attempted = <<>> /\ damaged = 0

Idle == client = "running" /\ pc = "off" /\ resp = <<>>

\* The first turn, or a repeat of it: no token, so no restore_resume.
StartFirstTurn ==
    /\ Idle /\ token = <<>>
    /\ \E files \in ExpandGlob :
          /\ Producer(files)
          /\ listed' = IF IsBlob THEN <<BlobSource>> ELSE files
    /\ UNCHANGED <<args, disk, writes, touched, clientVars, sent, resp, lost>>

\* A continuation: a fresh producer whose cursor is restored from the token.
StartNextTurn ==
    /\ Idle /\ token # <<>>
    /\ ProducerRestored(token[1])
    /\ listed' = playlist
    /\ UNCHANGED <<args, disk, writes, touched, clientVars, sent, resp, lost>>

NextBatch ==
    NextBatchStep /\ UNCHANGED <<clientVars, turnVars, lost>>

\* The turn loop takes a batch next_batch returned.
Collect ==
    /\ pc = "returned" /\ ret # <<>>
    /\ sent' = Append(sent, ret[1])
    /\ pc' = "idle" /\ ret' = <<>>
    /\ UNCHANGED <<args, disk, writes, touched, plan, cursor, done, bytes, logs, probe,
                   tried, clientVars, resp, listed, lost>>

Answer(tok) ==
    /\ resp' = <<[batches |-> sent, token |-> tok, tried |-> tried]>>
    /\ sent' = <<>>
    /\ DropProducer
    /\ UNCHANGED <<args, disk, writes, touched, clientVars, listed, lost>>

\* The turn ends at a batch boundary with the scan unfinished.
EndTurn ==
    /\ pc = "idle" /\ sent # <<>> /\ ResumeSupported
    /\ Answer(<<EncodeResume>>)

\* next_batch returned None: the scan is complete.
FinishTurn ==
    /\ pc = "returned" /\ ret = <<>>
    /\ Answer(<<>>)

Deliver ==
    /\ resp # <<>>
    /\ received' = received \o resp[1].batches
    /\ attempted' = attempted \o resp[1].tried
    /\ token' = resp[1].token
    /\ client' = IF resp[1].token = <<>> THEN "done" ELSE "running"
    /\ playlist' = listed
    /\ resp' = <<>>
    /\ UNCHANGED <<rhVars, sent, listed, lost, damaged>>

\* The worker dies in the turn, or its answer does not arrive.
LoseTurn ==
    /\ lost < MaxLost /\ (pc # "off" \/ resp # <<>>)
    /\ DropProducer
    /\ sent' = <<>> /\ resp' = <<>> /\ lost' = lost + 1
    /\ UNCHANGED <<args, disk, writes, touched, clientVars, listed>>

\* The token is damaged where it is kept.
CorruptToken ==
    /\ damaged < MaxDamaged /\ Idle /\ token # <<>>
    /\ \E b \in {EmptyBytes, MalformedBytes} : token # <<b>> /\ token' = <<b>>
    /\ damaged' = damaged + 1
    /\ UNCHANGED <<rhVars, client, received, playlist, attempted, turnVars, lost>>

OtherPrograms == Environment /\ UNCHANGED <<clientVars, turnVars, lost>>

\* A finished scan stays finished.
Finished == client = "done" /\ UNCHANGED vars

TurnStep ==
    \/ StartFirstTurn
    \/ StartNextTurn
    \/ NextBatch
    \/ Collect
    \/ EndTurn
    \/ FinishTurn
    \/ Deliver

Next ==
    \/ TurnStep
    \/ LoseTurn
    \/ CorruptToken
    \/ OtherPrograms
    \/ Finished

Spec == Init /\ [][Next]_vars

\* The turn loop is a sequential program that keeps running, and the client
\* repeats a lost turn; nobody is obliged to lose turns or to touch the disk.
FairSpec == Spec /\ WF_vars(TurnStep)

-----------------------------------------------------------------------------
(* Properties. *)

TypeOK ==
    /\ RHTypeOK
    /\ client \in {"running", "done"}
    /\ token \in Option(Bytes)
    /\ received \in Seq(Batch)
    /\ sent \in Seq(Batch)
    /\ resp \in Option(Response)
    /\ lost \in 0..MaxLost
    /\ listed \in Seq(Source)
    /\ playlist \in Seq(Source)
    /\ attempted \in Seq(Source)
    /\ damaged \in 0..MaxDamaged

\* What a producer has still to open.
Left ==
    IF plan = "blob" THEN IF done THEN <<>> ELSE <<BlobSource>>
                     ELSE Unread(cursor)

\* What the answer on its way leaves for later turns.
LeftAfter(r) == IF r.token = <<>> THEN <<>> ELSE Unread(FromBytes(r.token[1]))

(* Nothing is skipped or repeated across turns: at every moment the sources  *)
(* finished with in accepted turns, those of the turn at hand, and those     *)
(* still to open (in the producer's cursor, in the answer's token or in the  *)
(* client's token) make up the source list exactly, in order.  This is what  *)
(* new, advance_file, the skip of rowless files, to_bytes and from_bytes     *)
(* must preserve together, whatever turns are lost, for as long as the       *)
(* client's token has not been damaged.                                      *)
Conservation ==
    damaged = 0 =>
        /\ pc # "off" => attempted \o tried \o Left = listed
        /\ resp # <<>> => attempted \o resp[1].tried \o LeftAfter(resp[1]) = listed
        /\ token # <<>> => attempted \o Unread(FromBytes(token[1])) = playlist
        /\ client = "done" => attempted = playlist

(* How the phases of a turn and the plan fit together: with TypeOK and       *)
(* Conservation, an inductive invariant.                                     *)
TurnShape ==
    /\ pc # "off" => plan = (IF IsBlob THEN "blob" ELSE "glob")
    /\ pc \in {"loop", "logs", "build"} => plan = "glob"
    /\ pc # "off" => resp = <<>> /\ client = "running"
    /\ resp # <<>> => client = "running"
    /\ token # <<>> => ~IsBlob
    /\ resp # <<>> => (resp[1].token # <<>> => ~IsBlob)
    /\ client = "running" /\ token = <<>> => attempted = <<>>
    /\ pc = "returned" /\ ret = <<>> => Left = <<>>

Sources(batches) == [i \in 1..Len(batches) |-> batches[i].source]

(* The rows of one file reach the client at most once and files come in      *)
(* sorted order, however often a turn was lost and run again, and no batch   *)
(* is empty (read_hive.rs: "Skip empty/unreadable files without emitting a   *)
(* 0-row batch").                                                            *)
OrderedOnce ==
    ~IsBlob => /\ Ascending(Sources(received \o sent))
               /\ \A i \in DOMAIN received : received[i].rows > 0

(* A file must be reported when its image opens, has keys, and no unusable   *)
(* log was handed to notatin.                                                *)
MustReport(f) ==
    /\ disk[f].primary \notin {Absent, Unreadable}
    /\ Openable(disk[f].primary)
    /\ disk[f].primary.builds /\ disk[f].primary.keys > 0
    /\ args.apply_logs => \A i \in 1..LogFiles : disk[f].logs[i] # "unusable"

(* A finished glob scan has reported every hive that opens and that nobody   *)
(* changed meanwhile, whatever became of its neighbours in the playlist:     *)
(* files that are unreadable, malformed, rowless, or that appear, change or  *)
(* vanish during the scan never make it lose another file.  (A damaged token *)
(* does: see CorruptStartsOver.)                                             *)
UntouchedReported ==
    client = "done" /\ ~IsBlob /\ damaged = 0 =>
        \A f \in File \ touched : MustReport(f) =>
            \E i \in DOMAIN received : received[i].source = f

(* The recovery column of a reported file that nobody changed is NULL        *)
(* exactly for a clean image, and "dirty-no-logs" exactly when the image is  *)
(* dirty and it has no log or the caller refused logs: the label never comes *)
(* from the logs or the header of another file of the playlist, nor does a   *)
(* log count that is read twice under two names.                             *)
LabelsMatchDisk ==
    ~IsBlob => \A i \in DOMAIN received :
        LET b        == received[i]
            dirty    == disk[b.source].primary.dirty
            haveLogs == \E k \in 1..LogFiles : disk[b.source].logs[k] \in LogBytes
        IN  b.source \notin touched =>
              /\ b.recovery = "null" <=> ~dirty
              /\ b.recovery = "dirty-no-logs" <=>
                    dirty /\ ~(args.apply_logs /\ haveLogs)

(* A damaged token makes the scan "start over": every file of the playlist   *)
(* is still considered before the scan ends (cursor.rs, from_bytes).         *)
CorruptStartsOver ==
    client = "done" =>
        {playlist[i] : i \in DOMAIN playlist} \subseteq
            {attempted[i] : i \in DOMAIN attempted}

(* A file labelled logs-applied had a log that could be applied              *)
(* (hive/mod.rs, base_recovery_label: logs "available and applied").         *)
LogsAppliedMeansUsable ==
    ~IsBlob => \A i \in DOMAIN received :
        received[i].recovery = "logs-applied" /\ received[i].source \notin touched =>
            \E k \in 1..LogFiles : disk[received[i].source].logs[k] = "usable"

(* Every scan ends, whatever the files hold and although turns are lost.     *)
Termination == <>(client = "done")

-----------------------------------------------------------------------------
(* The scan implements the promise of GlobScan.                              *)

Abstract == INSTANCE GlobScan WITH
    Lists     <- Playlists \cup {<<BlobSource>>},
    Forgetful <- MaxDamaged > 0,
    phase     <- IF client = "done" THEN "done"
                 ELSE IF token = <<>> THEN "new" ELSE "open",
    todo      <- IF token = <<>> THEN <<>> ELSE Unread(FromBytes(token[1])),
    seen      <- attempted,
    reported  <- Sources(received)

ImplementsGlobScan == Abstract!Spec
=============================================================================
