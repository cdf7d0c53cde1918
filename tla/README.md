# vgi-reghive: TLA+ models

Specifications of the core of `vgi-reghive`, a VGI worker that reads Windows
Registry hives into rows: what it does with files, tokens and logs, checked with
TLC on small instances, and in part proved with TLAPS for all of them.

## The system

| Part | Source | State it keeps | Operations |
|---|---|---|---|
| glob cursor | `reghive-core/cursor.rs` | pending files, current file | `new`, `advance_file`, `is_exhausted`, `to_bytes`, `from_bytes` |
| `read_hive` | `reghive-worker/table/read_hive.rs`, `common.rs` | the producer's plan: a blob with its `done` flag, or a cursor | `producer`, `next_batch`, `resume_supported`, `encode_resume`, `restore_resume` |
| turn loop | vgi SDK (external) | the client's token and the rows accepted | one HTTP request per turn |
| opening a hive | `hive/open.rs`, `hive/mod.rs` | none | header check, logs handed to notatin, recovery label |
| base block reader | `reghive-core/baseblock.rs` | none | `parse`, checksum, dirty mark, hive type |
| header scalars | `scalar/well_formed.rs`, `scalar/hive_info.rs` | none | one struct per blob |
| log inspection | `reghive-core/logparse.rs` | offset and counters of a walk | `summarize` |
| `logs_applied` | `scalar/logs_applied.rs` | summaries of a row | one report per row |
| hive walk, `hive_subtree` | `hive/walk.rs`, `table/hive_subtree.rs` | rows built so far | path normalisation, modes, deleted labels, filter |
| value coercion | `hive/value.rs`, `reghive-core/valuetype.rs` | components of a multi-string | UTF-16, multi-strings, integers, hex |
| key scalars | `scalar/hive_key.rs`, `hive_value.rs`, `key_info.rs`, `io.rs` | column builders | one struct per row of a batch |
| row builder | `arrow_map.rs` | column builders | `push`, `finish` |
| demo data | `sample.rs` | none | `compact_blob_sql`; static catalog text |
| synthetic hives | `reghive-core/hivegen.rs` | cell layout | `build` |

How they interact: the SDK builds a producer for every turn, restores the cursor
from the token the client returned, calls `next_batch` until the turn is over and
sends rows and the new token. `next_batch` reads a primary, then its sibling logs,
from a file system that other programs use too, and hands both to `open_blob`,
which asks the base block reader first and notatin second. The scalars use the
same reader on a blob.

What is hard here: a turn may be lost after the worker advanced its cursor; the
glob is expanded again on every turn and then overridden by the token; the token
may come back damaged; files change between the expansion and the read, and
between the read of a primary and of its logs; files without rows are passed over
inside one call; the log walk trusts sizes found in the log and adds to a `usize`
that has 32 bits in the wasm build; counters saturate; the header is read from
files still being copied; text is decoded from bytes that may be cut anywhere;
a batch of a scalar mixes NULLs, foreign blobs and absent keys, and its columns
are built apart. `PROJECT.json` lists each with its line under
"hazards".

What makes each part correct: the scan considers every file of its playlist once
and in order, reports every hive that opens, labels it by its own header and
logs, makes progress on every turn and ends; the walk stays inside the log, ends,
and shows the sums over its entries up to the limit of its counters; the report
does not depend on the order of the logs and, over logs of the new format, calls
nothing clean without an entry that shows it (over old-format logs it does, which
is finding 3); the verdict on a growing file only moves towards its final value
and nothing damaged is called clean; a rendering keeps the bytes or says what was
lost; a row of a batch answers for its own arguments only, and the three functions
that look keys and values up agree about the same hive.

## Modules

| Module | Models |
|---|---|
| `HiveCursor` | the cursor and its serialised form, as operators |
| `HiveOpen` | `open_blob`, `base_recovery_label`, `build_rows` over abstract images |
| `ReadHive` | the producer and the disk, extends the two above |
| `HttpScan` | `ReadHive` inside the turn loop, with the client and the transport |
| `GlobScan` | what a scan promises; `HttpScan` is shown to implement it |
| `MCHttpScan` | the images for TLC |
| `LogParse` | `summarize` and the HvLE walk |
| `LogsApplied` | one row of `logs_applied`, extends `LogParse` |
| `BaseBlock` | the base block reader on a prefix of a file |
| `HiveProbe` | `well_formed`, `hive_info` and `read_hive` on a file being copied |
| `HiveWalk` | walking an opened hive into rows, for `read_hive` and `hive_subtree`, extends `HiveOpen` |
| `MCHiveWalk` | a small registry for TLC |
| `HiveGen` | the synthetic hive builder, extends `BaseBlock`, which reads its header back |
| `ByteText` | bytes and their hexadecimal text |
| `ValueCoerce` | the columns of one registry value, extends `ByteText` |
| `CompactBlob` | a blob as a SQL expression, extends `ByteText` |
| `MCByteRendering` | byte strings for TLC, for the two modules above |
| `KeyScalars` | the scalar functions over a batch of rows |
| `MCKeyScalars` | blobs, paths and names for TLC |
| `HttpScanProofs` | theorems about the scan, the cursor lemmas they rest on, and the proof that it implements `GlobScan` |
| `LogsAppliedProofs` | theorems about the log walk alone and inside a row of `logs_applied` |
| `HiveProbeProofs`, `HiveWalkProofs`, `HiveGenProofs`, `ValueCoerceProofs`, `KeyScalarsProofs` | theorems about the module of that name |
| `LeastNumber` | the least-number principle, for the proofs |

### The scan (`HiveCursor`, `HiveOpen`, `ReadHive`, `HttpScan`)

Paths are numbers in sort order. A hive image is the classification `parse` gives
it, its dirty mark, whether notatin can build a parser from it and how many keys
it yields (in every `mode` a key yields at least one row, which `HiveWalk` checks
as `EveryKeySurfaces`, so the number of keys decides whether a batch is empty). A
log is usable or not; absent and empty logs are distinguished because
`sibling_logs` drops both by different tests. What notatin makes of an unusable
log is not visible in this repository: both outcomes are allowed. The token
carries the cursor when it is well formed; empty and malformed bytes carry
nothing.

A call of `next_batch` takes several steps: `ReadPrimary` (the head of the loop
and `fs::read`), one `ReadLog` per log name, then `EmitFile` (rows: advance and
return them) or `SkipFile` (no rows: advance, return `None` at the end of the list,
else go round). `WritePrimary` and `WriteLog` are other programs; they may run
between any two steps. `NextBatchBlob` is the blob plan.

`StartFirstTurn`, `StartNextTurn`, `Collect`, `EndTurn`, `FinishTurn` and
`Deliver` are the SDK's loop; a turn may end after any batch, so every division
of a scan into turns is covered, and a stdio scan is the one with a single turn.
`LoseTurn` drops the producer or the answer at any moment: the client then sends
its last token again. `CorruptToken` damages the stored token, at most
`MaxDamaged` times.

The code probes four log names (`.LOG1`, `.LOG2`, `.log1`, `.log2`). On a file
system that ignores case they lead to two files: `LogFileOf` says which file a
name leads to, so that one log may be read twice, at two moments.

`GlobScan` lets the position be lost between turns (`Forget`) exactly where
tokens can be damaged (`Forgetful`): the scan then ends early, and even so
nothing comes twice or out of order.

The history variables `tried`, `attempted`, `listed` and `playlist` record which
sources were finished with and which list the scan is over; `touched` records
which files other programs changed, `damaged` how often the token was damaged.
No guard reads them but for the bounds.

### Logs (`LogParse`, `LogsApplied`)

An entry header is chosen when the walk arrives at it. The offset only grows while
the walk goes on, so no header is read twice and this ranges over every log. The
addition in the bound test and in the slice ranges wraps at `UsizeMod`, as it does
in a release build; `checked_add` and `saturating_add` do what their names say.
`LogsApplied` runs the walk once per log that is not NULL, then combines; its
run checks the walk's properties as well. `LogParse!WalkSpec` is the walk alone,
over which they are proved.

### The header (`BaseBlock`, `HiveProbe`)

`BaseBlock` keeps the real offsets and lengths and answers as a function of a file
and the number of bytes present, `n`. Names are sets of the patterns they contain.
`HiveProbe` grows the file over lengths around each boundary (3/4, 7/8, 11/12,
31/32, 43/44, 111/112, 507/508, 511/512, 4095/4096, and the ends of one and two
bins). `Ask` calls the surfaces on the bytes there are, and what notatin makes of
them is chosen anew at every length. `well_formed` and `hive_info` both open the
bytes without logs and without recovery, and one parser given the same bytes and
options gives one answer, `built`. `read_hive` opens them with its own options and
the sibling logs: `call` holds these and an outcome of its own, a failure or a
root name, which is the scalars' only when the builder gets just what it gets from
them (`PlainOpen`). The hive type of the rows may therefore differ from that of
the scalars; `ReadersAgree` says where, and that what comes from the base block
does not.

### Rows (`HiveWalk`)

A path is the sequence of its backslash-separated segments; a leading backslash is
an empty first segment. A segment is a text, whether its ASCII letters are written
in upper case, and whether its letters beyond ASCII are: `Lowercase` folds the
former only, as `to_ascii_lowercase` does, so that `SubtreeClosed` speaks of ASCII
case. `root` is the name `open_blob` finds, and stays empty when `get_root_key`
fails: nothing then descends from the root, and every path, those of live keys
too, gets the prefix of an orphan. `Normalize`, `NormalizeFilter`, `SubtreeMatch`,
`DeletedLabel` and `ModeParse` are the functions of `walk.rs`, `WalkKey` one round
of its loop with the key row and the value rows. A key is live, recovered or a
replaced version of a live one. A value is its state and the diagnostic of its
decoding. `hive_subtree` is `OpenHive` or `OpenFails`, `WalkKey` for each key,
`FinishWalk` and, on the next call, `NextBatchNone`; the walk of `read_hive` is
the same without the further call. `BatchOf` is the finished `RowBatchBuilder`:
one column per field, filled row by row, so that a batch could lose a row or mix
two; the columns are the ones the properties speak of.

notatin's iterator is external. It yields keys in any order; what is assumed of
it is in `Yielded`: a live key's path begins with the root's name, deleted
cells come only with `recover`, replaced versions only from logs handed over. No
key has an empty name (`NamesAssumption`), as in every registry. A key without a
name right below the root would get the empty path of the root itself, against
`RowIdentifiesKey`, and `normalize_filter`, which strips every leading backslash,
would not select the keys below it again by their own path, against
`PathsSelectThemselves`. The
history variable `from` remembers which key and value each row was made from; no
action reads it.

### Synthetic hives (`HiveGen`)

The tree is not fixed in advance: each step lays out the next part of some tree
(a value, a value list, a subkey, the end of a key, an orphan's value, an
orphan), in the order of the recursion, whose open calls are `stack`. Offsets and
sizes are the real ones. A cell is its place, its kind, whether it is free and
the offsets stored in it; names and data are their lengths. `Build` rounds the
bin, adds the trailing free cell and writes the base block, which
`BaseBlock!ParseKind` then reads. That the bytes before the checksum XOR to a
given word is an input of `Build`, with both sentinels among its values.

### Values and bytes (`ByteText`, `ValueCoerce`, `CompactBlob`)

A byte has `HexBase^2` values and a UTF-16 unit is two bytes; the widths 4 and 8
of the integers are the real ones. A Rust `String` is given by its UTF-16 units,
which determine it, a number in decimal by its value. `CoerceAtOnce` answers for
every type but REG_MULTI_SZ, whose split is a loop: `StartSplit`, then
`CollectUnit`, `EndComponent` or `EndSplit` per unit. `DecodeFilename` is the other
UTF-16 reader, of the base block, which stops at the first NUL. `DecodedValue` is
what `decode` hands to the rows and the scalars.

`CompactBlobSql` folds the loop of `compact_blob_sql` over the offsets; the
expression is the list of its operands, and `EvalSql` what the database makes of
it.

### The scalars over a batch (`KeyScalars`)

The five functions run one after the other over one batch; a step is one row of
one function. A builder is the sequence of what was appended to it; the list
column of `hive_key` keeps offsets into its child columns, as Arrow does, and the
properties read the answers back through them. A column has the declared type or
another one: `blob_val` and `text_val` look for NULL first, then at the type.
notatin's `get_key` and `get_value` are external: whether a path may begin with
backslashes is a property of the blob (`lenient`), and of two values whose names
differ in case either may be returned. The version, sequence numbers and time in
`hive_info`, which are always appended together, are one column.

## Runs

| Run | Configuration | Shows |
|---|---|---|
| `http_turns` | 4 files, 2 lost turns, 1 damaged token, quiet disk | `Conservation`, `OrderedOnce`, `Termination`, and that the scan implements `GlobScan` |
| `changing_disk` | 2 files, 4 images, 4 log states, 2 log names for 1 log, 1 change, 1 lost turn | `UntouchedReported`, `LabelsMatchDisk` |
| `start_over` | 3 files, 1 lost turn, 1 damaged token | finding 1 |
| `unusable_log_label` | 1 file | finding 2 |
| `logs_applied_row` | two logs, each NULL, foreign, empty, old or a stream; base block 4, header 4, 32-value `usize` | `HeadersInside`, `ChainTiles`, `CountersExact`, `OrderOfLogs`, `CleanIsBacked`, the row ends |
| `applied_without_entries` | the same | finding 3 |
| `growing_copy` | 6,144 files, 26 lengths, every way `read_hive` may open them and every outcome | `VerdictForward`, `CleanRowsAreClean`, `ReadersAgree` |
| `hive_walk` | 6 key paths, 3 value lists, 9 filters, 5 images, 2 keys, the root's name found or not | `CleanRowsAreClean`, `DeletedMarked`, `RowIdentifiesKey`, `EveryKeySurfaces`, `SubtreeClosed`, `PathsSelectThemselves`, `OneBatch`, the scan ends |
| `replaced_versions` | the same | finding 4 |
| `synthetic_hive` | names of 0 or 3 bytes, data of 0, 5 or 8044, depth 3, 5 cells | `CellsApart`, `CellsAligned`, `ReferencesResolve`, `OneTree`, `BinFilled`, `ImageParses` |
| `byte_renderings` | digits of base 2; up to 5 units, up to 9 bytes of a number, zero runs from 3 | `RenderingMatchesType`, `TextKeepsUnits`, `MultiSzKeepsComponents`, `BadUnitsFlagged`, `IntegersExact`, `BlobSqlFaithful` |
| `key_scalars` | 4 blobs, 5 paths, 3 names and NULLs, 2 rows, every choice of column types | `ColumnsAligned`, `RowsReadBack`, `ScalarsAgree`, `FailsOnlyForTypes` |

Why the bounds are enough. Four files have a first, a last and two inner
positions, so that rowless files can be first, last, alone and adjacent; two lost
turns lose the same turn twice or two different ones. One change to the disk can
come between any two reads; a second one adds only changes to other files or
reverts. Two logs are what `logs_applied` takes; two names for one log are enough
for `read_hive`, where logs are only told apart by being there, and one damaged
token can come after any turn (a second finds nothing left to forget). In
`logs_applied_row` the sizes reach the wrap-around at the second entry (4 + 24 + 4
= 32). Entries have 3 or 20 pages: one of each and two of the smaller stay below
the limit of the counters, 31, where a sum must be exact, and two of the larger
pass it, within a log and across two. Three entries fit in the longest log and the
iteration bound is 3. The checksum words include both sentinels and their
neighbours. In `hive_walk` every property speaks of at most two keys at a time;
the paths hold a key whose name has a letter beyond ASCII, its child in another
case, the same path outside the root, and a live key that is itself named
`$Deleted`; the filters write the name in both cases of either kind of letter. In
`synthetic_hive` data of 8044 bytes makes the cells of some trees end exactly at
the page boundary, so that there is no trailing cell, and of others just before
and after it; depth 3 has a grandparent to confuse a parent with. In
`byte_renderings` a digit has 2 values, so that a byte has 4, a unit 16 and a
64-bit integer 16 bits: every order of NULs, letters and both kinds of surrogate
over five units is there, with an odd byte and without, every pattern of zeros
around the widths 4 and 8 and around the run that is folded. In `key_scalars` two
rows are enough to confuse a row with its neighbour, in either order and with an
absent one between the values and the end; the third key's name is there twice in
different case, and its header counts a value that cannot be read.

Fairness. `HttpScan!FairSpec` asks that the turn loop goes on and the client
repeats a lost turn (weak fairness of `TurnStep`, which is enabled until the scan
is done): the worker is a sequential loop that waits for nothing but the file
system. Lost turns are bounded by `MaxLost`, as no retry protocol ends when all
turns are lost. `LogParse`, `LogsApplied` and `HiveWalk` are sequential loops, the
last over a finite iterator, that nothing interrupts.

## Findings

1. `from_bytes` says a damaged cursor "degrades to start over". It becomes the
   exhausted cursor: the scan ends and the remaining files are missing, silently
   (`start_over`).
2. The recovery label speaks of logs "available and applied". It says
   `logs-applied` when any log file is there, usable or not
   (`unusable_log_label`).
3. `logs_applied` promises `applied` when "the logs carry usable entries". Any
   regf file of 4096 bytes without entries counts as an old-format log, so
   `applied` and `became_clean` are true (`applied_without_entries`).
4. The schema describes the `recovery` column with a value `modified-prior`, and
   NULL for "a clean live cell". The walk asks notatin for replaced versions of
   keys and labels them like current cells; no code produces that value
   (`replaced_versions`). `CleanRowsAreClean` of `HiveWalk` therefore excludes
   replaced versions only where no logs were handed over and applied.

More disagreements with the documentation are plain from the code and have no
run. The comment on `normalize_filter` says that it strips an optional leading
root-name segment and lowercases for a case-insensitive match; it strips leading
backslashes only, so that a key path that begins with the root's name selects
nothing of the subtree it names, and it folds ASCII letters only. `hive_info`
promises a NULL struct for a non-hive input; a transaction log, which `well_formed`
calls `not-a-hive`, gets a summary. `common.rs` describes `$Deleted` as the prefix
of deleted orphans; when the root has no name, live keys get it too. The comment on
`value_dword` in `valuetype.rs` names DWORD and QWORD; a FILETIME and a big-endian
DWORD have it too. The argument of `well_formed` promises a NULL struct for NULL;
it gets a struct of NULLs, as the comment in `process` says.

## What is proved

Each invariant below was first checked by TLC on the instances of the runs, then
proved inductive.

### The scan

For every set of files, images and log states, every number of log names,
changes, lost turns and damaged tokens (`HttpScanProofs`):

* `TypeCorrect`: `Spec => []TypeOK`. In particular a file is only read while
  there is a current one, and a log probe stays within the names.
* `ConservationHolds`: `Spec => []Conservation`, which speaks of the time until a
  token is damaged. Conservation is not inductive alone. That a returned `None`
  means that nothing is left, that only a glob scan has tokens, and that nothing
  was accepted while there is no token, are collected in `TurnShape`;
  `IInv == TypeOK /\ TurnShape /\ Conservation` is inductive. The argument is one
  equation, `accepted \o tried \o left = list`: `UnreadNew` establishes it,
  `UnreadAdvance` moves one file from `left` to `tried`, `RoundTrip` carries `left`
  through the token, and a lost turn falls back to the equation of the client's
  own token.
* `ScanImplements`: `Spec => ImplementsGlobScan`. Accepting an answer
  (`Deliver`) is a turn of `GlobScan`, a damaged token is its `Forget`, every
  other step stutters: reading, losing, repeating and the other programs are
  invisible. A damaged token ends `Conservation` and must not end the order, so
  the invariant `OInv` speaks of what a turn is given and not of the playlist:
  `InTurn` says that the files finished with and those left are the turn's goal,
  `Trail` that the batches accepted and in hand ascend and all come before
  whatever is left, `Picks` that the batches of a turn are a part of what it went
  through, `Answered` and `Accepted` the same of an answer under way and of the
  client's token.
* `FilesOrderedOnce`: `Spec => []OrderedOnce`, from `OInv`.
* `LabelsAgree`, `NoHiveMissed`: `Spec => []LabelsMatchDisk` and
  `[]UntouchedReported`. `DInv` relates the disk now to reads that are over. For a
  file in `touched` nothing is claimed; for any other, `Reading` says that the
  bytes and logs in hand are those on the disk, log name by log name, `GoodBatches`
  that every batch agrees with its file, `NoneMissing` that whatever must be
  reported and was gone through was reported, `AllListed` that it is in the list.
  `UntouchedReported` speaks of scans whose token was not damaged; a damaged one
  makes the scan end early, which is finding 1.

### The logs

For every layout, every log length below half the address space and every header
(`LogsAppliedProofs`):

* `HeadersStayInside`, `EntriesAdjoin`, `CountersAreExact`: `WalkSpec =>
  []HeadersInside`, `[]ChainTiles`, `[]CountersExact`. The key lemma is
  `HeaderInside`: when `off + 40` wraps and passes the bound test, the four
  signature bytes at `off` are already outside the log, so `get` returns `None`
  and the walk stops. `CountersExact` says that the counters are the number of
  entries and the sum of their pages, cut at `u32::MAX`, and the maximum of their
  sequence numbers: not bounds, but the values. The invariant adds `ChainShape`,
  where the last entry is and where the walk goes from it, without which the
  number of entries is not bounded by the length.
* `RowWalks`, `EitherOrder`, `CleanBacked`: over `LogsApplied!Spec`, `Spec =>
  [](HeadersInside /\ ChainTiles /\ CountersExact)`, `[]OrderOfLogs` and
  `[]CleanIsBacked`. The invariant `RowInv` adds that every summary kept is
  `Backed` by the entries its walk counted: the count and the pages are theirs,
  saturated, and the highest sequence number is that of one of them.
  `CleanIsBacked` speaks of reports over new-format logs. `Combine` goes over the
  list of summaries; a row keeps at most two, so its recursive function is
  unfolded for none, one and two, and `Both` shows that two summaries combine
  alike in either order. Saturated counters are where this could fail: the sum is
  cut after each addition.

### The header

For every file and every set of lengths it may have while it grows
(`HiveProbeProofs`):

* `VerdictOnlyForward`: `Spec => VerdictForward`, an action property. It rests on
  the order of the tests in `parse`: each can only be passed, never failed again,
  when bytes are added behind those it read.
* `RowsAreClean`, `SurfacesAgree`: `Spec => []CleanRowsAreClean` and
  `[]ReadersAgree`. The second relates opens whose outcomes are chosen apart: what
  is left equal is what the base block alone decides, and a differing hive type is
  traced to the root name one of the opens found. The invariant `PInv` adds that
  notatin was only asked about bytes `open_blob` let through, and that a plain
  open of `read_hive` was answered as the scalars were.

### The walk

For every set of key paths, value lists, filters and images, every request and
every number and order of keys (`HiveWalkProofs`). `WInv` is inductive:
`RowsMade` gives for every row the selected key and the entry it was made from,
`KeysTaken` the converse, for every selected key and every entry it must give a
row, and `BatchShape` says which batches there are in each state. From it:

* `CleanRows`, `DeletedRowsMarked`, `KeysSurface`, `BatchOnce`:
  `CleanRowsAreClean`, `DeletedMarked`, `EveryKeySurfaces` and `OneBatch`. They
  join two rows or labels that are computed apart.
* `RowsIdentifyKeys`, `SubtreesClosed`, `PathsComeBack`: `RowIdentifiesKey`,
  `SubtreeClosed` and `PathsSelectThemselves`. These are about `Normalize`,
  `NormalizeFilter` and `SubtreeMatch` on any paths. Trimming backslashes finds
  the first segment that is not empty: a least number, which `LeastMember` of
  `LeastNumber` supplies (it follows from the library's theorem that `<` is
  well-founded on the natural numbers, whose statement about sets the provers can
  use).

### The builder

For every tree, every list of orphans and every length of names and data
(`HiveGenProofs`):

* `CellsNeverOverlap`, `CellsStayAligned`: `Spec => []CellsApart` and
  `[]CellsAligned`. `CellsApart` says that no two cells share a byte, that all lie
  behind the bin's header, and that they end at or below the cursor, or, once the
  trailing free cell is there, inside the bin. A key's nk cell is placed only
  after its whole subtree, into the room reserved for it, so `CellsApart` already
  speaks of cells and of reserved places, and it is still not inductive:
  `LayoutOK` adds that each of them is aligned, not empty and ends at or below the
  cursor, and that the cursor is aligned. `AddCell` adds a cell at the cursor,
  `PlaceKeeps` moves the innermost reserved place into the cells, and `Trailing`
  shows that the last free cell, which goes from the cursor to the end of the bin,
  is aligned too.
* `BinIsFilled`: `Spec => []BinFilled`. That there is no gap is `Filled`, an
  equation of two sets: the starts of cells and reserved places together with the
  cursor are the ends of them together with the first place of the bin.
* `ImagesParse`: `Spec => []ImageParses`. `StoredAsAsked` compares the word the
  builder stores with the one the reader computes, for both sentinels, and shows
  that the inverted word of a corrupt image is never right by accident.
* `ReferencesLead`: `Spec => []ReferencesResolve`. A child is written before its
  parent and names it by an offset where there is no cell yet. `Linked` says that
  a reference leads to a cell of its kind, or, for a parent, to the reserved place
  of an open call, and that what the open calls have collected is there;
  `CellsApart` makes the target unique.
* `KeysFormOneTree`: `Spec => []OneTree`. `Tree` says of each live key that either
  one list names it, and the list's owner is the parent it names, or no list does
  and exactly the open call of its parent has collected it; `TreeClose` is the
  step that turns the second into the first for all children of a key at once.

### The values

For every type code, every string of bytes of any length and every even base of
the digits (`ValueCoerceProofs`). The invariant `ValueInv` says what `coerce` gave
for each code and, while a REG_MULTI_SZ is split, relates the position to the
work done: `SplitAt` says that the component being collected is a slice of the
units between its start `s` and the position, with no NUL inside, that the
finished ones joined are the `Lines` of the units before `s`, and that the flag
speaks of exactly these units.

* `ListsKeepComponents`: `Spec => []MultiSzKeepsComponents`. `FinishComponent` is
  the step: the slice lies between NULs or the ends of the list, a NUL is no
  surrogate, so the component pairs its surrogates as the whole list does
  (`SlicePairs`) and its text is that part of the `Lines`. What `JoinLines`
  computes for a list of any length would need an induction over data; instead
  `Joins` carries, from each component to the next, that its recursive function
  exists and what it gives (`JoinMore`), which the invariant needs only for the
  components there are.
* `BadUnitsAreFlagged`: `[]BadUnitsFlagged`, from the same invariant and, for a
  string, from `ErrorsOf`: the terminator that is trimmed hides no bad unit.
* `StringsKeepUnits`: `[]TextKeepsUnits`. `FilenameIs` compares the two readers of
  UTF-16: cutting at the first NUL before decoding, as the base block's reader
  does, or after it gives the same text.
* `NamesAndRenderings`: `[]RenderingMatchesType`. The name and the rendering are
  chosen by two tables, which `KnownCodes` compares code by code; `HexGivesBack`
  is the round trip of the hexadecimal text.
* `IntegersAreExact`: `[]IntegersExact`. `FromLeBytes` is unfolded one byte at a
  time up to the eight of the widest field; `DigitsMore` is the step, `Signed` the
  cast to 64 bits and `TopDigit` says when it is negative.

### The scalars

For every set of blobs, paths and names, any number of rows and any mix of
columns (`KeyScalarsProofs`). The invariant `ScalarInv` says of the call under way
that its builders hold exactly the answers of the rows before `row` (`Holds`), and
of every call that is over that it returned the columns of all rows, or an error
and a row that explains it.

* `Aligns`, `ReadBack`: `Spec => []ColumnsAligned` and `[]RowsReadBack`. The list
  column of `hive_key` is the hard one: `Holds` says of its offsets that the items
  between two of them are those of one row, which stays true when a row appends
  any number of them, or none.
* `Agree`: `[]ScalarsAgree`, for `hive_value`, `key_info` and `hive_key`, from the
  columns read back and from what the three lookups have in common. `hive_info` and
  `well_formed` look nothing up; they are compared in `HiveProbe`.
* `FailsForTypes`: `[]FailsOnlyForTypes`.

### Assumptions

Assumptions on the constants are the named `ASSUME`s of the modules: files are
numbered and finite, images are consistent (a bad checksum is a dirty mark), every
log file has a name that leads to it, no key of a registry has an empty name, a
header is no longer than the base block, a slice is at most half the address
space, only the empty name is equal to the empty name without regard to case, a
key's values are a list, the two kinds of surrogate are apart and contain neither
NUL, the newline nor U+FFFD, a hexadecimal digit is a whole number of bits. TLC
evaluates each of them in the runs.

### Only model-checked

* Termination: liveness under fairness is out of the prover's reach.
* `BlobSqlFaithful` of `CompactBlob`: the expression is a fold over all offsets of
  a blob, in which one step may jump over a run of any length, and what it computes
  needs induction over data.
* That `notatin` behaves as the external operators say is an assumption of the
  model, neither proved nor checked.

## Not modelled

notatin (external, and nondeterministic where it is used), the vendored crossterm,
packaging, and `lib.rs`, `meta.rs`, `main.rs` and the wasm entry point, which
register functions and hold the texts of the catalog without a state of their own.
Of the header, version numbers, the root offset and timestamps. Of the row
builder, the schema, the columns no property speaks of and the Arrow builders as
such: a column of `BatchOf` is the sequence of its entries. The batch loop of
`logs_applied` (`LogsApplied` is one row). Of `sample.rs`, the static tables. A
producer called without a required argument returns an error before it has a plan
(`hive_subtree.rs:121,125`, `read_hive.rs:156,162`); requests with their arguments
are modelled. The five builders of `hive_info` are one column, so drift among them
would not show. The error of `RecordBatch::try_new`, which the builders' types
rule out, is left out of `Finish`. `HiveGen` counts in natural numbers where the
code stores child counts and name sizes in 16 bits and offsets in 32. The primary
and logs of one file may be torn by a concurrent writer, and value bytes notatin
cannot read become an empty value; the code promises nothing about either and no
property does.

## Plan

Modelled, in this order: the scan, the logs, the header, the walk, the builder,
values and bytes, the scalars. Proved: every safety property that a passing run
checks but one, and the refinement of `GlobScan`. What is left:

1. `BlobSqlFaithful`, with the loop of `compact_blob_sql` as steps of a module of
   its own, so that an invariant can follow it over a blob of any length.
2. The batch loop around the row of `logs_applied`, and the columns of the row
   builder that no property speaks of.
