------------------------------ MODULE LogParse ------------------------------
(***************************************************************************)
(* Inspecting one transaction log (logparse.rs): summarize and the walk    *)
(* over the HvLE entry stream, one loop iteration per step.                *)
(*                                                                         *)
(* A log is its length, whether it starts with a regf base block, and what *)
(* follows the base block.  The header of an entry is chosen when the walk *)
(* arrives at it: the walk never comes back to an offset, so this ranges   *)
(* over every log.  Offsets are counted in a usize of UsizeMod values (the *)
(* worker is also built for wasm32) and, as in a release build, `off + 40` *)
(* wraps; sequence numbers and counts are u32 values of at most U32Max.    *)
(***************************************************************************)
EXTENDS Naturals, Sequences

CONSTANTS
    BaseLen,     \* BASE_BLOCK_LEN, 4096
    HdrLen,      \* the 40 bytes of an entry header
    SigLen,      \* the 4 bytes of a signature
    U32Max,      \* u32::MAX
    UsizeMod,    \* usize::MAX + 1
    GuardMax,    \* the walk's iteration bound, 1_000_000
    LogLen,      \* the lengths a log may have
    Size,        \* the values an entry's size field may have
    Sequence,    \* the values an entry's sequence number may have
    PageCount    \* the values an entry's dirty-page count may have

ASSUME LayoutAssumption ==
    /\ BaseLen \in Nat /\ HdrLen \in Nat /\ SigLen \in Nat \ {0}
    /\ SigLen <= HdrLen /\ HdrLen <= BaseLen
    /\ U32Max \in Nat /\ GuardMax \in Nat
    /\ UsizeMod \in Nat /\ U32Max < UsizeMod /\ BaseLen + HdrLen < UsizeMod
ASSUME FieldAssumption ==
    /\ 0 \in LogLen
    /\ LogLen \subseteq 0..(UsizeMod \div 2)   \* a slice holds at most isize::MAX bytes
    /\ Size \subseteq 0..U32Max
    /\ Sequence \subseteq 0..U32Max
    /\ PageCount \subseteq 0..U32Max

\* What follows the base block: an HvLE entry, the dirty vector of an
\* old-format log, or anything else.
Body == {"hvle", "dirty-vector", "other"}

Log == {l \in [len : LogLen, regf : BOOLEAN, body : Body] :
           l.body # "other" => l.regf /\ l.len >= BaseLen + SigLen}

\* An entry the walk has counted, with the offset it was found at.
Entry == [off : Nat, size : Size, seq : Sequence, dpc : PageCount]

Format == {"none", "old", "new"}

VARIABLES
    log,             \* the log being inspected
    off,             \* offset of the next entry header
    guard,           \* iterations so far
    entries,         \* the counters of summarize_new
    dirty_pages,
    max_sequence,
    walking,         \* the loop has not been left
    chain            \* history: the entries counted, with their offsets

walkVars == <<log, off, guard, entries, dirty_pages, max_sequence, walking, chain>>

\* Mutant: the addition wraps.
SaturatingWraps(a, b) == (a + b) % (U32Max + 1)

\* saturating_add on u32, and u32::max.
Saturating(a, b) == IF a + b > U32Max THEN U32Max ELSE a + b
MaxOf(a, b) == IF a > b THEN a ELSE b

-----------------------------------------------------------------------------
Summary(format, e, d, m) ==
    [format_label |-> format, entries |-> e, dirty_pages |-> d, max_sequence |-> m]

\* summarize, up to the choice of the walk: too short or not regf is "none".
NotALog(l)  == l.len < BaseLen \/ ~l.regf
IsStream(l) == ~NotALog(l) /\ l.body = "hvle"

\* summarize_new: the counters start at zero, the walk after the base block.
StartWalk(l) ==
    /\ log' = l
    /\ off' = BaseLen /\ guard' = 0
    /\ entries' = 0 /\ dirty_pages' = 0 /\ max_sequence' = 0
    /\ walking' = IsStream(l)
    /\ chain' = <<>>

\* Mutant: the header test compares the offset alone.
HeaderFitsLoose(o) == o <= log.len

\* The loop condition's `off + 40 <= blob.len()`.
HeaderFits(o) == (o + HdrLen) % UsizeMod <= log.len

\* blob.get(off..off + 4) is Some: the range is not inverted and in bounds.
SignatureReadable(o) ==
    LET end == (o + SigLen) % UsizeMod IN o <= end /\ end <= log.len

\* The first header's signature is the one summarize tested.
SignatureAt(o, hvle) ==
    /\ SignatureReadable(o) /\ hvle
    /\ o = BaseLen => log.body = "hvle"

\* The loop condition.
InLoop == walking /\ HeaderFits(off) /\ guard < GuardMax

\* Mutant: a size shorter than a header is accepted.
SizeOkLoose(size) == TRUE

\* The entry's size field must cover its own header.
SizeOk(size) == size >= HdrLen

\* One iteration that counts an entry and moves on by its declared size.
CountEntry(hvle, size, seq, dpc) ==
    /\ InLoop
    /\ SignatureAt(off, hvle) /\ SizeOk(size)
    /\ guard' = guard + 1
    /\ entries' = Saturating(entries, 1)
    /\ dirty_pages' = Saturating(dirty_pages, dpc)
    /\ max_sequence' = MaxOf(max_sequence, seq)
    /\ chain' = Append(chain, [off |-> off, size |-> size, seq |-> seq, dpc |-> dpc])
    /\ IF off + size < UsizeMod /\ off + size > off
       THEN off' = off + size /\ walking' = TRUE
       ELSE off' = off /\ walking' = FALSE
    /\ UNCHANGED log

\* Mutant: a header that is no entry is passed over, without counting the
\* iteration.
StopWalkContinues(hvle, size) ==
    /\ walking
    /\ ~InLoop \/ ~(SignatureAt(off, hvle) /\ SizeOk(size))
    /\ off = BaseLen /\ InLoop => hvle
    /\ walking' = InLoop
    /\ UNCHANGED <<log, off, guard, entries, dirty_pages, max_sequence, chain>>

\* The loop is left: its condition fails, or the header is not an entry.
StopWalk(hvle, size) ==
    /\ walking
    /\ ~InLoop \/ ~(SignatureAt(off, hvle) /\ SizeOk(size))
    /\ off = BaseLen /\ InLoop => hvle
    /\ walking' = FALSE
    /\ guard' = IF InLoop THEN guard + 1 ELSE guard
    /\ UNCHANGED <<log, off, entries, dirty_pages, max_sequence, chain>>

WalkStep ==
    \E hvle \in BOOLEAN, size \in Size :
        \/ \E seq \in Sequence, dpc \in PageCount : CountEntry(hvle, size, seq, dpc)
        \/ StopWalk(hvle, size)

\* What summarize returns once the walk, if any, is over.
SummaryOfLog ==
    CASE NotALog(log)            -> Summary("none", 0, 0, 0)
      [] ~NotALog(log) /\ ~IsStream(log) -> Summary("old", 0, 0, 0)
      [] IsStream(log)           -> Summary(IF entries > 0 THEN "new" ELSE "old",
                                            entries, dirty_pages, max_sequence)

-----------------------------------------------------------------------------
(* The walk of one log on its own. *)

WalkInit ==
    /\ log \in Log
    /\ off = BaseLen /\ guard = 0
    /\ entries = 0 /\ dirty_pages = 0 /\ max_sequence = 0
    /\ walking = IsStream(log)
    /\ chain = <<>>

WalkOver == ~walking /\ UNCHANGED walkVars

WalkNext == WalkStep \/ WalkOver

\* summarize_new is a loop that nothing interrupts.
WalkSpec == WalkInit /\ [][WalkNext]_walkVars /\ WF_walkVars(WalkStep)

WalkTypeOK ==
    /\ log \in Log
    /\ off \in 0..(UsizeMod - 1)
    /\ guard \in 0..GuardMax
    /\ entries \in 0..U32Max
    /\ dirty_pages \in 0..U32Max
    /\ max_sequence \in 0..U32Max
    /\ walking \in BOOLEAN
    /\ chain \in Seq(Entry)

(* Every entry counted has its whole header inside the log, although the     *)
(* bound test `off + 40` can wrap round on a 32-bit usize (summarize_new).   *)
HeadersInside ==
    \A i \in DOMAIN chain : chain[i].off + HdrLen <= log.len

(* The entries counted do not overlap and follow each other without a gap,   *)
(* so that a log of n bytes never reports more than n / 40 entries; and      *)
(* every iteration before the last has counted one, so the iteration bound   *)
(* cuts short the walk of no log below 40 MB (the loop of summarize_new).    *)
ChainTiles ==
    /\ chain # <<>> => BaseLen + HdrLen * Len(chain) <= log.len
    /\ walking => guard = Len(chain)
    /\ \A i \in DOMAIN chain :
          /\ i = 1 => chain[i].off = BaseLen
          /\ i > 1 => chain[i].off = chain[i-1].off + chain[i-1].size

\* The sum of a sequence of numbers, what a u32 counter shows of a number,
\* and the pages of the entries of a walk.
TotalOf(s) ==
    LET total[n \in 0..Len(s)] == IF n = 0 THEN 0 ELSE total[n - 1] + s[n]
    IN  total[Len(s)]
AtMost(n) == IF n > U32Max THEN U32Max ELSE n
PagesOf(c) == TotalOf([i \in 1..Len(c) |-> c[i].dpc])

(* The counters are those of the entries walked: their number, the sum of    *)
(* their dirty pages, each held at u32::MAX and never wrapped, and the       *)
(* highest of their sequence numbers (the body of summarize_new's loop).     *)
CountersExact ==
    /\ entries = AtMost(Len(chain))
    /\ dirty_pages = AtMost(PagesOf(chain))
    /\ \A i \in DOMAIN chain : max_sequence >= chain[i].seq
    /\ IF chain = <<>> THEN max_sequence = 0
                       ELSE \E i \in DOMAIN chain : max_sequence = chain[i].seq
=============================================================================
