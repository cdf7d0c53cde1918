---------------------------- MODULE LogsApplied -----------------------------
(***************************************************************************)
(* One row of the logs_applied scalar (scalar/logs_applied.rs): the base   *)
(* block of the primary, then each log that is not NULL summarised in turn *)
(* by LogParse, then the summaries combined into the report.               *)
(***************************************************************************)
EXTENDS LogParse, SequencesExt

\* The base block as the report uses it.  Unequal sequence numbers or a bad
\* checksum make the primary dirty.
Base == {b \in [primary_seq : Sequence, secondary_seq : Sequence, dirty : BOOLEAN] :
            b.primary_seq # b.secondary_seq => b.dirty}

\* A NULL, or one value.
Nullable(T) == {<<>>} \cup {<<e>> : e \in T}

VARIABLES
    base,        \* parse(primary).0, or NULL
    logArgs,     \* the log1 and log2 arguments
    next,        \* the argument to look at next
    summaries,   \* the summaries pushed so far
    pc,          \* "args", "walk" or "done"
    result,      \* the row of the answer
    counted      \* history: the entries counted, per summarised log

laVars == <<base, logArgs, next, summaries, pc, result, counted>>
vars == <<walkVars, laVars>>

NoLog == [len |-> 0, regf |-> FALSE, body |-> "other"]

Init ==
    /\ base \in Nullable(Base)
    /\ logArgs \in [1..2 -> Nullable(Log)]
    /\ next = 1 /\ summaries = <<>> /\ pc = "args" /\ result = <<>> /\ counted = <<>>
    /\ log = NoLog /\ off = 0 /\ guard = 0
    /\ entries = 0 /\ dirty_pages = 0 /\ max_sequence = 0
    /\ walking = FALSE /\ chain = <<>>

-----------------------------------------------------------------------------
\* Mutant: the later log decides the format.
CombineStepLast(acc, s) ==
    Summary(IF s.format_label = "none" THEN acc.format_label ELSE s.format_label,
            Saturating(acc.entries, s.entries),
            Saturating(acc.dirty_pages, s.dirty_pages),
            MaxOf(acc.max_sequence, s.max_sequence))

\* The body of combine's loop.
CombineStep(acc, s) ==
    Summary(IF s.format_label = "new" THEN "new"
            ELSE IF s.format_label = "old" /\ acc.format_label # "new" THEN "old"
            ELSE acc.format_label,
            Saturating(acc.entries, s.entries),
            Saturating(acc.dirty_pages, s.dirty_pages),
            MaxOf(acc.max_sequence, s.max_sequence))

\* combine(&summaries), after the first n of them.
Combine(ss) ==
    LET acc[n \in 0..Len(ss)] == IF n = 0 THEN Summary("none", 0, 0, 0)
                                          ELSE CombineStep(acc[n - 1], ss[n])
    IN  acc[Len(ss)]

\* Mutant: the replay need only reach the smaller sequence number.
BecameCleanLoose(b, c) ==
    \/ c.format_label = "old"
    \/ c.max_sequence >= b.primary_seq
    \/ c.max_sequence >= b.secondary_seq

\* The replay reaches both sequence numbers, or the log is old-format.
BecameClean(b, c) ==
    \/ c.format_label = "old"
    \/ c.max_sequence >= MaxOf(b.primary_seq, b.secondary_seq)

-----------------------------------------------------------------------------
\* A primary without a base block gives a NULL row.
NullRow ==
    /\ pc = "args" /\ base = <<>>
    /\ pc' = "done" /\ result' = <<>>
    /\ UNCHANGED <<walkVars, base, logArgs, next, summaries, counted>>

\* A NULL log argument is not available: it is left out.
SkipNullLog ==
    /\ pc = "args" /\ base # <<>> /\ next <= 2 /\ logArgs[next] = <<>>
    /\ next' = next + 1
    /\ UNCHANGED <<walkVars, base, logArgs, summaries, pc, result, counted>>

\* summarize(&log) begins.
BeginLog ==
    /\ pc = "args" /\ base # <<>> /\ next <= 2 /\ logArgs[next] # <<>>
    /\ StartWalk(logArgs[next][1])
    /\ pc' = "walk"
    /\ UNCHANGED <<base, logArgs, next, summaries, result, counted>>

\* The walk of summarize_new.
Walk == pc = "walk" /\ WalkStep /\ UNCHANGED laVars

\* summarize returns and its summary is pushed.
EndLog ==
    /\ pc = "walk" /\ ~walking
    /\ summaries' = Append(summaries, SummaryOfLog)
    /\ counted' = Append(counted, chain)
    /\ next' = next + 1 /\ pc' = "args"
    /\ UNCHANGED <<walkVars, base, logArgs, result>>

\* Both arguments seen: combine and report.
Report ==
    /\ pc = "args" /\ base # <<>> /\ next = 3
    /\ LET c       == Combine(summaries)
           applies == base[1].dirty /\ c.format_label # "none"
       IN  result' = <<[applied          |-> applies,
                        entries_replayed |-> c.entries,
                        dirty_pages      |-> c.dirty_pages,
                        became_clean     |-> applies /\ BecameClean(base[1], c),
                        log_format       |-> c.format_label]>>
    /\ pc' = "done"
    /\ UNCHANGED <<walkVars, base, logArgs, next, summaries, counted>>

Done == pc = "done" /\ UNCHANGED vars

Process == NullRow \/ SkipNullLog \/ BeginLog \/ Walk \/ EndLog \/ Report

Next == Process \/ Done

Spec == Init /\ [][Next]_vars

\* process is a loop that nothing interrupts.
FairSpec == Spec /\ WF_vars(Process)

-----------------------------------------------------------------------------
(* The report does not depend on which log is called .LOG1: combining the    *)
(* summaries in the other order gives the same counts, maximum and format.   *)
OrderOfLogs == Combine(Reverse(summaries)) = Combine(summaries)

\* The entries of both logs, and their pages.
CountedEntries == TotalOf([i \in 1..Len(counted) |-> Len(counted[i])])
CountedPages   == TotalOf([i \in 1..Len(counted) |-> PagesOf(counted[i])])

(* The report counts the entries and the pages of both logs, and where it    *)
(* calls a new-format log clean, that is backed by an entry one of the logs  *)
(* really holds, with a sequence number not below either sequence number of  *)
(* the base block.  (An old-format log is called clean without any entry.)   *)
CleanIsBacked ==
    pc = "done" /\ result # <<>> =>
        /\ result[1].became_clean /\ result[1].log_format = "new" =>
              \E i \in DOMAIN counted : \E k \in DOMAIN counted[i] :
                  /\ counted[i][k].seq >= base[1].primary_seq
                  /\ counted[i][k].seq >= base[1].secondary_seq
        /\ result[1].entries_replayed = AtMost(CountedEntries)
        /\ result[1].dirty_pages = AtMost(CountedPages)

(* The walk of a malformed log always comes to an end, and so does the row.  *)
Termination == <>(pc = "done")

(* A replay "applies" when "the primary is dirty and the logs carry usable   *)
(* entries" (the function's own description).                                *)
AppliedMeansUsable ==
    pc = "done" /\ result # <<>> /\ result[1].applied =>
        \/ \E i \in DOMAIN counted : counted[i] # <<>>
        \/ \E i \in 1..2 : logArgs[i] # <<>> /\ logArgs[i][1].body = "dirty-vector"
=============================================================================
