------------------------------ MODULE HiveGen -------------------------------
(***************************************************************************)
(* The synthetic hive builder (hivegen.rs), which every fixture and the    *)
(* demo data come from.  The tree to build is not fixed in advance: each   *)
(* step lays out the next part of some tree, in the order of layout_key,   *)
(* layout_orphan and build.  A cell is its place, its kind, whether it is  *)
(* free, and the offsets it refers to, each with its role.  Sizes and      *)
(* offsets are the real ones.                                              *)
(***************************************************************************)
EXTENDS BaseBlock

CONSTANTS
    NameLen,    \* lengths of key and value names
    DataLen,    \* lengths of value data
    MaxDepth,   \* bound: keys below one another
    MaxCells    \* bound: cells laid out before the tree is closed

ASSUME LengthAssumption == NameLen \subseteq Nat /\ DataLen \subseteq Nat
ASSUME GenBoundAssumption == MaxDepth \in Nat /\ MaxCells \in Nat

FIRST_CELL_REL == 32
NK_FIXED == 76   \* the nk payload before the name
VK_FIXED == 20   \* the vk payload before the name
PAGE == 4096
MIN_HBIN == 8192

VARIABLES
    lay,     \* the Layout: cells and next
    stack,   \* the keys whose layout_key call is open, innermost last
    orphan,  \* the vk offsets of the orphan being laid out
    phase,   \* "root", "tree", "orphans" or "built"
    header,  \* the base block built
    spec     \* the scalar fields of the HiveSpec

vars == <<lay, stack, orphan, phase, header, spec>>

-----------------------------------------------------------------------------
(* Layout. *)

\* Mutant: the size header is left out of the rounding.
CellSizeBare(payload) == 4 + ((payload + 7) \div 8) * 8

\* cell_size, and the length of what cell_with_sign returns: pad8(4 + payload)
CellSize(payload) == ((4 + payload + 7) \div 8) * 8

Cell(off, payload, kind, free, to) ==
    [off |-> off, size |-> CellSize(payload), kind |-> kind, free |-> free, to |-> to]

\* Layout::emit; the offset it returns is l.next.
Emit(l, payload, kind, free, to) ==
    [cells |-> Append(l.cells, Cell(l.next, payload, kind, free, to)),
     next  |-> l.next + CellSize(payload)]

\* Mutant: reserve returns the offset without moving the cursor past the name.
ReserveFixed(l, name) == [l EXCEPT !.next = @ + CellSize(NK_FIXED)]

\* Layout::reserve, for the nk cell of a key; the offset it returns is l.next.
Reserve(l, name) == [l EXCEPT !.next = @ + CellSize(NK_FIXED + name)]

\* Layout::place
Place(l, cell) == [l EXCEPT !.cells = Append(@, cell)]

\* Mutant: the vk of five or more bytes points at itself.
EmitValueSelf(l, name, len, free) ==
    IF len <= 4 THEN Emit(l, VK_FIXED + name, "vk", free, {})
    ELSE LET d == Emit(l, len, "data", free, {})
         IN  Emit(d, VK_FIXED + name, "vk", free, {<<"data", d.next>>})

\* layout_value and its copy in layout_orphan: up to four bytes are resident
\* in the vk, more go into a data cell before it.  The vk is the last cell.
EmitValue(l, name, len, free) ==
    IF len <= 4 THEN Emit(l, VK_FIXED + name, "vk", free, {})
    ELSE Emit(Emit(l, len, "data", free, {}), VK_FIXED + name, "vk", free,
              {<<"data", l.next>>})

LastOff(l) == l.cells[Len(l.cells)].off

\* The value-list cell, when there are values; n is their number.
EmitList(l, vks, n, free) ==
    IF n = 0 THEN l ELSE Emit(l, 4 * n, "list", free, {<<"vk", o>> : o \in vks})

\* The lf cell, when there are subkeys.
EmitLf(l, subs, n) ==
    IF n = 0 THEN l ELSE Emit(l, 4 + 8 * n, "lf", FALSE, {<<"nk", o>> : o \in subs})

\* The reference an nk makes to a cell emitted at off, if it was.
RefIf(n, role, off) == IF n = 0 THEN {} ELSE {<<role, off>>}

-----------------------------------------------------------------------------
(* layout_key, one part of it at a time. *)

\* An open call: the reserved nk, its parent, and what has been laid out below.
OpenKey(off, name, parent) ==
    [off |-> off, name |-> name, parent |-> parent, part |-> "values",
     vks |-> {}, nvals |-> 0, list |-> 0, subs |-> {}, nsubs |-> 0]

WithValue(k, off) == [k EXCEPT !.vks = @ \cup {off}, !.nvals = @ + 1]
WithList(k, off) == [k EXCEPT !.list = off, !.part = "subkeys"]
WithSubkey(k, off) == [k EXCEPT !.subs = @ \cup {off}, !.nsubs = @ + 1]

Top == stack[Len(stack)]
Room == Len(lay.cells) + Len(stack) < MaxCells

\* build calls layout_key on the root.
LayoutRoot(name) ==
    /\ phase = "root"
    /\ phase' = "tree"
    /\ lay' = Reserve(lay, name)
    /\ stack' = <<OpenKey(lay.next, name, 0)>>
    /\ UNCHANGED <<orphan, header, spec>>

\* One value of the innermost key.
LayoutValue(name, len) ==
    /\ phase = "tree" /\ stack # <<>> /\ Top.part = "values" /\ Room
    /\ lay' = EmitValue(lay, name, len, FALSE)
    /\ stack' = [stack EXCEPT ![Len(stack)] = WithValue(@, LastOff(lay'))]
    /\ UNCHANGED <<orphan, phase, header, spec>>

\* The values are done: their list.
LayoutValueList ==
    /\ phase = "tree" /\ stack # <<>> /\ Top.part = "values"
    /\ lay' = EmitList(lay, Top.vks, Top.nvals, FALSE)
    /\ stack' = [stack EXCEPT ![Len(stack)] = WithList(@, lay.next)]
    /\ UNCHANGED <<orphan, phase, header, spec>>

\* layout_key calls itself on the next subkey.
LayoutSubkey(name) ==
    /\ phase = "tree" /\ stack # <<>> /\ Top.part = "subkeys"
    /\ Room /\ Len(stack) < MaxDepth
    /\ lay' = Reserve(lay, name)
    /\ stack' = Append(stack, OpenKey(lay.next, name, Top.off))
    /\ UNCHANGED <<orphan, phase, header, spec>>

\* Mutant: the parent written is the grandparent.
NkRefsGrand(k, lf) ==
    {<<"parent", IF Len(stack) > 2 THEN stack[Len(stack) - 2].off ELSE k.parent>>}
    \cup RefIf(k.nsubs, "lf", lf) \cup RefIf(k.nvals, "list", k.list)

NkRefs(k, lf) ==
    {<<"parent", k.parent>>} \cup RefIf(k.nsubs, "lf", lf) \cup RefIf(k.nvals, "list", k.list)

\* The call returns its nk offset to the call that made it.
Returned(frames, off) ==
    IF frames = <<>> THEN <<>>
    ELSE [frames EXCEPT ![Len(frames)] = WithSubkey(@, off)]

\* The subkeys are done: the lf list, then the nk into its reserved place.
LayoutKeyEnd ==
    /\ phase = "tree" /\ stack # <<>> /\ Top.part = "subkeys"
    /\ lay' = Place(EmitLf(lay, Top.subs, Top.nsubs),
                    Cell(Top.off, NK_FIXED + Top.name, "nk", FALSE, NkRefs(Top, lay.next)))
    /\ stack' = Returned(SubSeq(stack, 1, Len(stack) - 1), Top.off)
    /\ phase' = IF Len(stack) = 1 THEN "orphans" ELSE "tree"
    /\ UNCHANGED <<orphan, header, spec>>

-----------------------------------------------------------------------------
(* layout_orphan: free cells, values first, nothing live refers to them. *)

LayoutOrphanValue(name, len) ==
    /\ phase = "orphans" /\ Room
    /\ lay' = EmitValue(lay, name, len, TRUE)
    /\ orphan' = Append(orphan, LastOff(lay'))
    /\ UNCHANGED <<stack, phase, header, spec>>

LayoutOrphan(name) ==
    /\ phase = "orphans" /\ (orphan # <<>> \/ Room)
    /\ LET l == EmitList(lay, {orphan[i] : i \in DOMAIN orphan}, Len(orphan), TRUE)
       IN  lay' = Emit(l, NK_FIXED + name, "nk", TRUE,
                       {<<"parent", 0>>} \cup RefIf(Len(orphan), "list", lay.next))
    /\ orphan' = <<>>
    /\ UNCHANGED <<stack, phase, header, spec>>

-----------------------------------------------------------------------------
(* build *)

\* Mutant: the size is rounded down to a page.
HbinSizeDown(used) ==
    IF ((used + PAGE - 1) \div PAGE) * PAGE < MIN_HBIN THEN MIN_HBIN
    ELSE (used \div PAGE) * PAGE

HbinSize(used) ==
    IF ((used + PAGE - 1) \div PAGE) * PAGE < MIN_HBIN THEN MIN_HBIN
    ELSE ((used + PAGE - 1) \div PAGE) * PAGE

\* The rest of the bin is one free cell.
TrailingFree(used, hbin) ==
    [off |-> used, size |-> hbin - used, kind |-> "free", free |-> TRUE, to |-> {}]

\* Mutant: the XOR itself is stored, sentinels included.
StoredRaw(xor, corrupt) == IF corrupt THEN xor - (xor % 256) + (255 - (xor % 256)) ELSE xor

\* The checksum, its low byte inverted (^ 0xff) to corrupt it.
Stored(xor, corrupt) ==
    LET c == Xor32Checksum([xor |-> xor], CHECKSUM_OFFSET)
    IN  IF corrupt THEN c - (c % 256) + (255 - (c % 256)) ELSE c

\* xor: what the first 127 dwords of the base block XOR to.
Build(xor) ==
    /\ phase = "orphans" /\ orphan = <<>>
    /\ LET hbin == HbinSize(lay.next)
       IN  /\ header' = <<[regf |-> TRUE, primary_seq |-> spec.primary_seq,
                           secondary_seq |-> spec.secondary_seq, file_type |-> 0,
                           bins |-> hbin, stored |-> Stored(xor, spec.corrupt_checksum),
                           xor |-> xor, name |-> {}, total |-> BASE_BLOCK_LEN + hbin]>>
           /\ lay' = IF lay.next < hbin
                     THEN Place(lay, TrailingFree(lay.next, hbin)) ELSE lay
    /\ phase' = "built"
    /\ UNCHANGED <<stack, orphan, spec>>

Init ==
    /\ lay = [cells |-> <<>>, next |-> FIRST_CELL_REL]
    /\ stack = <<>> /\ orphan = <<>> /\ phase = "root" /\ header = <<>>
    /\ spec \in [primary_seq : SeqNo, secondary_seq : SeqNo, corrupt_checksum : BOOLEAN]

Next ==
    \/ \E name \in NameLen : LayoutRoot(name)
    \/ \E name \in NameLen, len \in DataLen : LayoutValue(name, len)
    \/ LayoutValueList
    \/ \E name \in NameLen : LayoutSubkey(name)
    \/ LayoutKeyEnd
    \/ \E name \in NameLen, len \in DataLen : LayoutOrphanValue(name, len)
    \/ \E name \in NameLen : LayoutOrphan(name)
    \/ \E xor \in Word : Build(xor)

Spec == Init /\ [][Next]_vars

-----------------------------------------------------------------------------
Role == {"parent", "lf", "list", "nk", "vk", "data"}

CellKind == {"nk", "vk", "list", "lf", "data", "free"}

CellType == [off : Nat, size : Nat, kind : CellKind,
             free : BOOLEAN, to : SUBSET (Role \X Nat)]

LayoutType == [cells : Seq(CellType), next : Nat]

KeyType == [off : Nat, name : NameLen, parent : Nat, part : {"values", "subkeys"},
            vks : SUBSET Nat, nvals : Nat, list : Nat, subs : SUBSET Nat, nsubs : Nat]

\* Every variable holds a value of its type.
TypeOK ==
    /\ lay \in LayoutType
    /\ stack \in Seq(KeyType)
    /\ orphan \in Seq(Nat)
    /\ phase \in {"root", "tree", "orphans", "built"}
    /\ phase = "tree" <=> stack # <<>>

Apart(c, d) == c.off + c.size <= d.off \/ d.off + d.size <= c.off

\* The place an open layout_key call has reserved for its nk.
Reserved(k) == [off |-> k.off, size |-> CellSize(NK_FIXED + k.name)]

\* Where the cells end: at the cursor, and in the image built at the bin's end.
CellsEnd == IF phase = "built" THEN header[1].bins ELSE lay.next

Between(c, from, to) == from <= c.off /\ c.off + c.size <= to

\* No cell is written over another one, nor over a place reserved for a key
\* whose subtree is still being laid out.  All of them lie past the hbin header,
\* and before the cursor or, in the image built, in the bin the header declares.
CellsApart ==
    /\ \A i \in DOMAIN lay.cells : Between(lay.cells[i], FIRST_CELL_REL, CellsEnd)
    /\ \A k \in DOMAIN stack : Between(Reserved(stack[k]), FIRST_CELL_REL, CellsEnd)
    /\ \A i, j \in DOMAIN lay.cells : i # j => Apart(lay.cells[i], lay.cells[j])
    /\ \A i \in DOMAIN lay.cells, k \in DOMAIN stack :
           Apart(lay.cells[i], Reserved(stack[k]))
    /\ \A k, m \in DOMAIN stack : k # m => Apart(Reserved(stack[k]), Reserved(stack[m]))

\* Cells start and end on multiples of 8, as readers of hives take for granted.
CellsAligned ==
    \A i \in DOMAIN lay.cells : lay.cells[i].off % 8 = 0 /\ lay.cells[i].size % 8 = 0

CellAt(off) == {i \in DOMAIN lay.cells : lay.cells[i].off = off}

\* The kind of cell each role refers to.
Target == [parent |-> "nk", lf |-> "lf", list |-> "list", nk |-> "nk", vk |-> "vk",
           data |-> "data"]

\* In the image built, every reference but the parent 0 of the root and of
\* orphans leads to the start of one cell of the right kind, and never from a
\* live cell to a free one or back: deleted evidence is reached by scanning only.
ReferencesResolve ==
    phase = "built" =>
        \A i \in DOMAIN lay.cells : \A r \in lay.cells[i].to :
            r # <<"parent", 0>> =>
                \E j \in CellAt(r[2]) :
                    /\ CellAt(r[2]) = {j}
                    /\ lay.cells[j].kind = Target[r[1]]
                    /\ lay.cells[j].free = lay.cells[i].free

\* Live keys form one tree: each but the root is named by one lf list, and the
\* key that owns that list is the parent the key itself names.
OneTree ==
    phase = "built" =>
        \A i \in DOMAIN lay.cells :
            LET c == lay.cells[i]
                lists == {j \in DOMAIN lay.cells : <<"nk", c.off>> \in lay.cells[j].to}
            IN  c.kind = "nk" /\ ~c.free =>
                IF c.off = FIRST_CELL_REL THEN lists = {}
                ELSE \E j \in lists, p \in DOMAIN lay.cells :
                        /\ lists = {j}
                        /\ <<"lf", lay.cells[j].off>> \in lay.cells[p].to
                        /\ <<"parent", lay.cells[p].off>> \in c.to

\* The cells, the trailing free cell included, fill the declared bin exactly.
BinFilled ==
    phase = "built" =>
        LET ends == {lay.cells[i].off + lay.cells[i].size : i \in DOMAIN lay.cells}
            starts == {lay.cells[i].off : i \in DOMAIN lay.cells}
        IN  starts \cup {header[1].bins} = ends \cup {FIRST_CELL_REL}

\* The base block reader accepts every image built, calls it corrupt exactly
\* when that was asked for and dirty exactly when it was made so.
ImageParses ==
    phase = "built" =>
        LET h == header[1]
        IN  /\ ParseKind(h, h.total) = IF spec.corrupt_checksum THEN "bad-checksum" ELSE "ok"
            /\ IsDirty(ReadFields(h, h.total)[1]) <=>
                   spec.corrupt_checksum \/ spec.primary_seq # spec.secondary_seq
=============================================================================
