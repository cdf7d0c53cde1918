--------------------------- MODULE HiveGenProofs ----------------------------
(***************************************************************************)
(* The layout of the synthetic hive builder, for every tree and every      *)
(* length of names and data: cells are aligned and never overlap, places   *)
(* reserved for keys included, they fill the bin, and the base block is    *)
(* read back for what it was meant to be.                                  *)
(*                                                                         *)
(* CellsApart is not inductive by itself: a new cell begins at the cursor, *)
(* so one has to know that everything laid out or reserved before it ends  *)
(* at or below the cursor, and that the cursor is aligned.  BinFilled says *)
(* nothing before the last step: that step needs that the cells and the    *)
(* reserved places leave no gap below the cursor (LayoutOK, Filled).       *)
(***************************************************************************)
EXTENDS HiveGen, SequenceTheorems, TLAPS

\* An extent between the hbin header and the cursor n.
InBin(c, n) ==
    /\ c.off \in Nat /\ c.size \in Nat
    /\ FIRST_CELL_REL <= c.off /\ 0 < c.size /\ c.off + c.size <= n
    /\ c.off % 8 = 0 /\ c.size % 8 = 0

\* Where extents begin and where they end.
Froms(cs, st) ==
    {cs[i].off : i \in DOMAIN cs} \cup {Reserved(st[k]).off : k \in DOMAIN st}
Tos(cs, st) ==
    {cs[i].off + cs[i].size : i \in DOMAIN cs}
    \cup {Reserved(st[k]).off + Reserved(st[k]).size : k \in DOMAIN st}

\* No gap: each extent begins where another one, or the hbin header, ends.
Filled(cs, st, n) == Froms(cs, st) \cup {n} = Tos(cs, st) \cup {FIRST_CELL_REL}

LayoutOK(cs, st, n) ==
    /\ cs \in Seq(CellType) /\ st \in Seq(KeyType)
    /\ n \in Nat /\ n % 8 = 0 /\ FIRST_CELL_REL <= n
    /\ \A i \in DOMAIN cs : InBin(cs[i], n)
    /\ \A k \in DOMAIN st : InBin(Reserved(st[k]), n)
    /\ \A i, j \in DOMAIN cs : i # j => Apart(cs[i], cs[j])
    /\ \A i \in DOMAIN cs, k \in DOMAIN st : Apart(cs[i], Reserved(st[k]))
    /\ \A k, m \in DOMAIN st : k # m => Apart(Reserved(st[k]), Reserved(st[m]))
    /\ Filled(cs, st, n)

\* A cell is never empty and its size is a multiple of 8 (cell_size).
LEMMA CellSizes ==
    ASSUME NEW p \in Nat
    PROVE  CellSize(p) \in Nat /\ 0 < CellSize(p) /\ CellSize(p) % 8 = 0
BY DEF CellSize

\* The payload of an nk is a length.
LEMMA NkPayload ==
    ASSUME NEW name \in NameLen
    PROVE  NK_FIXED + name \in Nat
BY LengthAssumption DEF NK_FIXED

\* Sums of multiples of 8 are multiples of 8.
LEMMA Multiples ==
    ASSUME NEW a \in Nat, NEW b \in Nat, a % 8 = 0, b % 8 = 0
    PROVE  (a + b) % 8 = 0
OBVIOUS

\* One more cell.
LEMMA ExtentsCell ==
    ASSUME NEW cs \in Seq(CellType), NEW st, NEW c \in CellType
    PROVE  /\ Froms(Append(cs, c), st) = Froms(cs, st) \cup {c.off}
           /\ Tos(Append(cs, c), st) = Tos(cs, st) \cup {c.off + c.size}
<1> DEFINE ds == Append(cs, c)
<1>1. /\ DOMAIN cs = 1..Len(cs) /\ DOMAIN ds = 1..(Len(cs) + 1) /\ Len(cs) \in Nat
      /\ \A i \in 1..Len(cs) : ds[i] = cs[i]
      /\ ds[Len(cs) + 1] = c
  OBVIOUS
<1> HIDE DEF ds
<1>2. \A i : i \in DOMAIN ds <=> i \in DOMAIN cs \/ i = Len(cs) + 1
  BY <1>1
<1>3. /\ {ds[i].off : i \in DOMAIN ds} = {cs[i].off : i \in DOMAIN cs} \cup {c.off}
      /\ {ds[i].off + ds[i].size : i \in DOMAIN ds}
            = {cs[i].off + cs[i].size : i \in DOMAIN cs} \cup {c.off + c.size}
  BY <1>1, <1>2
<1>4. Froms(ds, st) = Froms(cs, st) \cup {c.off}
  BY <1>3 DEF Froms
<1>5. Tos(ds, st) = Tos(cs, st) \cup {c.off + c.size}
  BY <1>3 DEF Tos
<1> QED
  BY <1>4, <1>5 DEF ds

\* tt is the calls st and one more, k.
OneMore(st, tt, k) ==
    \E n \in Nat :
        /\ DOMAIN st = 1..n /\ DOMAIN tt = 1..(n + 1)
        /\ \A i \in 1..n : tt[i] = st[i]
        /\ tt[n + 1] = k

\* One more open call.
LEMMA ExtentsOpen ==
    ASSUME NEW cs, NEW st, NEW tt, NEW k, OneMore(st, tt, k)
    PROVE  /\ Froms(cs, tt) = Froms(cs, st) \cup {Reserved(k).off}
           /\ Tos(cs, tt) = Tos(cs, st) \cup {Reserved(k).off + Reserved(k).size}
<1>0. PICK n \in Nat :
         /\ DOMAIN st = 1..n /\ DOMAIN tt = 1..(n + 1)
         /\ \A i \in 1..n : tt[i] = st[i]
         /\ tt[n + 1] = k
  BY DEF OneMore
<1>1. \A i : i \in DOMAIN tt <=> i \in DOMAIN st \/ i = n + 1
  BY <1>0
<1> DEFINE R(e) == Reserved(e)
<1> HIDE DEF R
<1>2. /\ {R(tt[i]).off : i \in DOMAIN tt} = {R(st[i]).off : i \in DOMAIN st} \cup {R(k).off}
      /\ {R(tt[i]).off + R(tt[i]).size : i \in DOMAIN tt}
            = {R(st[i]).off + R(st[i]).size : i \in DOMAIN st} \cup {R(k).off + R(k).size}
  BY <1>0, <1>1
<1>3. Froms(cs, tt) = Froms(cs, st) \cup {Reserved(k).off}
  BY <1>2 DEF Froms, R
<1>4. Tos(cs, tt) = Tos(cs, st) \cup {Reserved(k).off + Reserved(k).size}
  BY <1>2 DEF Tos, R
<1> QED
  BY <1>3, <1>4

\* An extent at the cursor leaves no gap.
LEMMA FilledOn ==
    ASSUME NEW cs, NEW st, NEW ds, NEW tt, NEW n, NEW m, Filled(cs, st, n),
           Froms(ds, tt) = Froms(cs, st) \cup {n}, Tos(ds, tt) = Tos(cs, st) \cup {m}
    PROVE  Filled(ds, tt, m)
BY DEF Filled

\* A cell put at the cursor keeps the layout in order.
LEMMA AddCell ==
    ASSUME NEW cs, NEW st, NEW n, LayoutOK(cs, st, n),
           NEW c \in CellType, c.off = n, 0 < c.size, c.size % 8 = 0
    PROVE  LayoutOK(Append(cs, c), st, n + c.size)
<1> DEFINE ds == Append(cs, c)
           m == n + c.size
<1>0. /\ cs \in Seq(CellType) /\ st \in Seq(KeyType)
      /\ n \in Nat /\ n % 8 = 0 /\ FIRST_CELL_REL <= n
      /\ c.size \in Nat
  BY DEF LayoutOK, CellType
<1>1. ds \in Seq(CellType) /\ Len(ds) = Len(cs) + 1
      /\ \A i \in 1..Len(cs) : ds[i] = cs[i]
      /\ ds[Len(cs) + 1] = c
  BY <1>0
<1>2. m \in Nat /\ m % 8 = 0 /\ FIRST_CELL_REL <= m
  BY <1>0, Multiples DEF FIRST_CELL_REL
<1>3. InBin(c, m)
  BY <1>0 DEF InBin
<1>4. ASSUME NEW e, InBin(e, n) PROVE InBin(e, m) /\ Apart(e, c) /\ Apart(c, e)
  BY <1>4, <1>0 DEF InBin, Apart, FIRST_CELL_REL
<1>5. \A i \in DOMAIN cs : InBin(cs[i], n)
  BY DEF LayoutOK
<1>6. \A k \in DOMAIN st : InBin(Reserved(st[k]), n)
  BY DEF LayoutOK
<1>7. DOMAIN cs = 1..Len(cs) /\ DOMAIN ds = 1..(Len(cs) + 1) /\ Len(cs) \in Nat
  BY <1>0, <1>1
<1>8. \A i \in DOMAIN ds : InBin(ds[i], m)
  BY <1>1, <1>3, <1>4, <1>5, <1>7
<1>9. \A k \in DOMAIN st : InBin(Reserved(st[k]), m)
  BY <1>4, <1>6
<1>10. \A i, j \in DOMAIN ds : i # j => Apart(ds[i], ds[j])
  <2> SUFFICES ASSUME NEW i \in DOMAIN ds, NEW j \in DOMAIN ds, i # j
               PROVE  Apart(ds[i], ds[j])
    OBVIOUS
  <2>1. CASE i \in DOMAIN cs /\ j \in DOMAIN cs
    BY <2>1, <1>1, <1>7 DEF LayoutOK
  <2>2. CASE i \in DOMAIN cs /\ j = Len(cs) + 1
    BY <2>2, <1>1, <1>4, <1>5, <1>7
  <2>3. CASE j \in DOMAIN cs /\ i = Len(cs) + 1
    BY <2>3, <1>1, <1>4, <1>5, <1>7
  <2> QED
    BY <2>1, <2>2, <2>3, <1>7
<1>11. \A i \in DOMAIN ds, k \in DOMAIN st : Apart(ds[i], Reserved(st[k]))
  <2> SUFFICES ASSUME NEW i \in DOMAIN ds, NEW k \in DOMAIN st
               PROVE  Apart(ds[i], Reserved(st[k]))
    OBVIOUS
  <2>1. CASE i \in DOMAIN cs
    BY <2>1, <1>1, <1>7 DEF LayoutOK
  <2>2. CASE i = Len(cs) + 1
    BY <2>2, <1>1, <1>4, <1>6
  <2> QED
    BY <2>1, <2>2, <1>7
<1>12. Filled(ds, st, m)
  <2>1. Filled(cs, st, n)
    BY DEF LayoutOK
  <2>2. Froms(ds, st) = Froms(cs, st) \cup {n} /\ Tos(ds, st) = Tos(cs, st) \cup {m}
    <3>1. Froms(ds, st) = Froms(cs, st) \cup {c.off}
          /\ Tos(ds, st) = Tos(cs, st) \cup {c.off + c.size}
      BY <1>0, ExtentsCell
    <3> QED
      BY <3>1
  <2> QED
    BY <2>1, <2>2, FilledOn
<1> HIDE DEF ds, m
<1> QED
  BY <1>0, <1>1, <1>2, <1>8, <1>9, <1>10, <1>11, <1>12 DEF LayoutOK, ds, m

\* The layout and the open calls st belong together.
GoodLayout(l, st) == l \in LayoutType /\ LayoutOK(l.cells, st, l.next)

\* emit keeps the layout in order.
LEMMA EmitKeeps ==
    ASSUME NEW l, NEW st, GoodLayout(l, st), NEW p \in Nat, NEW kind \in CellKind,
           NEW free \in BOOLEAN, NEW to \in SUBSET (Role \X Nat)
    PROVE  /\ GoodLayout(Emit(l, p, kind, free, to), st)
           /\ LastOff(Emit(l, p, kind, free, to)) \in Nat
<1> DEFINE c == Cell(l.next, p, kind, free, to)
<1>1. l.cells \in Seq(CellType) /\ l.next \in Nat
  BY DEF GoodLayout, LayoutType
<1>2. c \in CellType /\ c.off = l.next /\ c.size = CellSize(p)
      /\ 0 < c.size /\ c.size % 8 = 0
  BY <1>1, CellSizes DEF Cell, CellType
<1> HIDE DEF c
<1>3. LayoutOK(Append(l.cells, c), st, l.next + c.size)
  BY <1>2, AddCell DEF GoodLayout
<1>4. Emit(l, p, kind, free, to)
        = [cells |-> Append(l.cells, c), next |-> l.next + c.size]
  BY <1>2 DEF Emit, c
<1>5. Append(l.cells, c) \in Seq(CellType) /\ l.next + c.size \in Nat
  BY <1>3 DEF LayoutOK
<1>6. Append(l.cells, c)[Len(Append(l.cells, c))] = c /\ c.off \in Nat
  BY <1>1, <1>2
<1> QED
  BY <1>3, <1>4, <1>5, <1>6 DEF GoodLayout, LayoutType, LastOff

\* layout_value keeps the layout in order.
LEMMA ValueKeeps ==
    ASSUME NEW l, NEW st, GoodLayout(l, st), NEW name \in Nat, NEW len \in Nat,
           NEW free \in BOOLEAN
    PROVE  /\ GoodLayout(EmitValue(l, name, len, free), st)
           /\ LastOff(EmitValue(l, name, len, free)) \in Nat
<1>1. VK_FIXED + name \in Nat
  BY DEF VK_FIXED
<1>2. CASE len <= 4
  <2>1. {} \in SUBSET (Role \X Nat) /\ "vk" \in CellKind
    BY DEF CellKind
  <2> QED
    BY <1>1, <1>2, <2>1, EmitKeeps DEF EmitValue
<1>3. CASE ~(len <= 4)
  <2> DEFINE d == Emit(l, len, "data", free, {})
  <2>1. GoodLayout(d, st)
    BY EmitKeeps DEF CellKind
  <2>2. {<<"data", l.next>>} \in SUBSET (Role \X Nat)
    BY DEF GoodLayout, LayoutType, Role
  <2>3. EmitValue(l, name, len, free)
          = Emit(d, VK_FIXED + name, "vk", free, {<<"data", l.next>>})
    BY <1>3 DEF EmitValue
  <2> HIDE DEF d
  <2>4. "vk" \in CellKind
    BY DEF CellKind
  <2> QED
    BY <1>1, <2>1, <2>2, <2>3, <2>4, EmitKeeps
<1> QED
  BY <1>2, <1>3

\* The value list keeps the layout in order, and so does the lf list.
LEMMA ListsKeep ==
    ASSUME NEW l, NEW st, GoodLayout(l, st), NEW offs \in SUBSET Nat, NEW n \in Nat,
           NEW free \in BOOLEAN
    PROVE  GoodLayout(EmitList(l, offs, n, free), st) /\ GoodLayout(EmitLf(l, offs, n), st)
<1>1. {<<"vk", o>> : o \in offs} \in SUBSET (Role \X Nat)
  BY DEF Role
<1>2. {<<"nk", o>> : o \in offs} \in SUBSET (Role \X Nat)
  BY DEF Role
<1>3. 4 * n \in Nat /\ 4 + 8 * n \in Nat /\ "list" \in CellKind /\ "lf" \in CellKind
  BY DEF CellKind
<1>4. GoodLayout(EmitList(l, offs, n, free), st)
  BY <1>1, <1>3, EmitKeeps DEF EmitList
<1>5. GoodLayout(EmitLf(l, offs, n), st)
  BY <1>2, <1>3, EmitKeeps DEF EmitLf
<1> QED
  BY <1>4, <1>5

\* What the open calls reserve is all the layout depends on.
LEMMA SameReserved ==
    ASSUME NEW l, NEW st, GoodLayout(l, st), NEW tt \in Seq(KeyType), Len(tt) = Len(st),
           \A k \in DOMAIN st : tt[k].off = st[k].off /\ tt[k].name = st[k].name
    PROVE  GoodLayout(l, tt)
<1>1. st \in Seq(KeyType)
  BY DEF GoodLayout, LayoutOK
<1>2. DOMAIN tt = DOMAIN st
  BY <1>1
<1>3. \A k \in DOMAIN st : Reserved(tt[k]) = Reserved(st[k])
  BY DEF Reserved
<1>4. Froms(l.cells, tt) = Froms(l.cells, st) /\ Tos(l.cells, tt) = Tos(l.cells, st)
  <2> DEFINE R(e) == Reserved(e)
  <2> HIDE DEF R
  <2>1. \A k \in DOMAIN st : R(tt[k]) = R(st[k])
    BY <1>3 DEF R
  <2>2. /\ {R(tt[k]).off : k \in DOMAIN tt} = {R(st[k]).off : k \in DOMAIN st}
        /\ {R(tt[k]).off + R(tt[k]).size : k \in DOMAIN tt}
              = {R(st[k]).off + R(st[k]).size : k \in DOMAIN st}
    BY <1>2, <2>1
  <2> QED
    BY <2>2 DEF Froms, Tos, R
<1>5. Filled(l.cells, tt, l.next)
  BY <1>4 DEF Filled, GoodLayout, LayoutOK
<1> QED
  BY <1>2, <1>3, <1>5 DEF GoodLayout, LayoutOK

\* reserve keeps the layout in order, with the new call among the open ones.
LEMMA ReserveKeeps ==
    ASSUME NEW l, NEW st, GoodLayout(l, st), NEW name \in NameLen, NEW parent \in Nat
    PROVE  GoodLayout(Reserve(l, name), Append(st, OpenKey(l.next, name, parent)))
<1> DEFINE k == OpenKey(l.next, name, parent)
           r == Reserved(k)
           n == l.next
           m == n + r.size
           tt == Append(st, k)
           cs == l.cells
<1>1. /\ cs \in Seq(CellType) /\ st \in Seq(KeyType)
      /\ n \in Nat /\ n % 8 = 0 /\ FIRST_CELL_REL <= n
  BY DEF GoodLayout, LayoutOK
<1>2. NK_FIXED + name \in Nat
  BY NkPayload
<1>3. k \in KeyType /\ r.off = n /\ r.size = CellSize(NK_FIXED + name)
  BY <1>1 DEF OpenKey, KeyType, Reserved
<1>4. r.size \in Nat /\ 0 < r.size /\ r.size % 8 = 0
  BY <1>2, <1>3, CellSizes
<1>5. Reserve(l, name) = [cells |-> cs, next |-> m]
  BY <1>3 DEF Reserve, GoodLayout, LayoutType
<1>6. tt \in Seq(KeyType) /\ DOMAIN tt = 1..(Len(st) + 1) /\ DOMAIN st = 1..Len(st)
      /\ Len(st) \in Nat
      /\ (\A i \in 1..Len(st) : tt[i] = st[i]) /\ tt[Len(st) + 1] = k
  BY <1>1, <1>3
<1> HIDE DEF r, k, n
<1>7. m \in Nat /\ m % 8 = 0 /\ FIRST_CELL_REL <= m
  BY <1>1, <1>4, Multiples DEF FIRST_CELL_REL
<1>8. InBin(r, m)
  BY <1>1, <1>3, <1>4 DEF InBin
<1>9. ASSUME NEW e, InBin(e, n) PROVE InBin(e, m) /\ Apart(e, r) /\ Apart(r, e)
  BY <1>9, <1>1, <1>3, <1>4 DEF InBin, Apart, FIRST_CELL_REL
<1>10. /\ \A i \in DOMAIN cs : InBin(cs[i], n)
       /\ \A i \in DOMAIN st : InBin(Reserved(st[i]), n)
       /\ \A i, j \in DOMAIN cs : i # j => Apart(cs[i], cs[j])
       /\ \A i \in DOMAIN cs, j \in DOMAIN st : Apart(cs[i], Reserved(st[j]))
       /\ \A i, j \in DOMAIN st : i # j => Apart(Reserved(st[i]), Reserved(st[j]))
  BY DEF GoodLayout, LayoutOK, n
<1> HIDE DEF m, tt, cs
<1>11. \A i \in DOMAIN cs : InBin(cs[i], m)
  BY <1>9, <1>10
<1>12. Reserved(tt[Len(st) + 1]) = r /\ \A i \in 1..Len(st) : Reserved(tt[i]) = Reserved(st[i])
  BY <1>6 DEF r
<1>13. \A i \in DOMAIN tt : InBin(Reserved(tt[i]), m)
  BY <1>6, <1>8, <1>9, <1>10, <1>12
<1>14. \A i \in DOMAIN cs, j \in DOMAIN tt : Apart(cs[i], Reserved(tt[j]))
  BY <1>6, <1>9, <1>10, <1>12
<1>15. \A i, j \in DOMAIN tt : i # j => Apart(Reserved(tt[i]), Reserved(tt[j]))
  BY <1>6, <1>9, <1>10, <1>12
<1>f. Filled(cs, tt, m)
  <2>1. Froms(cs, tt) = Froms(cs, st) \cup {n} /\ Tos(cs, tt) = Tos(cs, st) \cup {m}
    <3>1. OneMore(st, tt, k)
      BY <1>6 DEF OneMore
    <3>2. /\ Froms(cs, tt) = Froms(cs, st) \cup {Reserved(k).off}
          /\ Tos(cs, tt) = Tos(cs, st) \cup {Reserved(k).off + Reserved(k).size}
      BY <3>1, ExtentsOpen
    <3> QED
      BY <1>3, <3>2 DEF m, r
  <2>2. Filled(cs, st, n)
    BY DEF GoodLayout, LayoutOK, cs, n
  <2> QED
    BY <2>1, <2>2, FilledOn
<1>16. LayoutOK(cs, tt, m)
  BY <1>1, <1>6, <1>7, <1>10, <1>11, <1>13, <1>14, <1>15, <1>f DEF LayoutOK
<1> QED
  BY <1>1, <1>5, <1>7, <1>16 DEF GoodLayout, LayoutType, tt, k, n

\* All but the last of a sequence is empty when there is one.
LEMMA AllButLast ==
    ASSUME NEW s \in Seq(KeyType), s # <<>>
    PROVE  SubSeq(s, 1, Len(s) - 1) = <<>> <=> Len(s) = 1
<1> DEFINE n == Len(s)
           t == SubSeq(s, 1, n - 1)
<1>1. n \in Nat /\ 1 <= n
  OBVIOUS
<1>2. \A i \in 1..(n - 1) : s[i] \in KeyType
  OBVIOUS
<1> HIDE DEF n
<1>3. CASE n = 1
  <2>1. 1 \in Int /\ n - 1 \in Int /\ n - 1 < 1
    BY <1>3
  <2>2. t = <<>>
    BY <2>1, SubSeqEmpty
  <2> QED
    BY <1>3, <2>2 DEF n
<1>4. CASE 1 < n
  <2>1. Len(t) = IF 1 <= n - 1 THEN n - 1 - 1 + 1 ELSE 0
    BY <1>1, <1>2, SubSeqProperties
  <2>2. Len(t) # 0
    BY <1>1, <1>4, <2>1
  <2>3. t # <<>>
    BY <2>2, EmptySeq
  <2> QED
    BY <1>4, <2>3 DEF n
<1> QED
  BY <1>1, <1>3, <1>4

\* The nk placed where it was reserved keeps the layout in order, its call gone.
LEMMA PlaceKeeps ==
    ASSUME NEW l, NEW st, GoodLayout(l, st), st # <<>>, NEW to \in SUBSET (Role \X Nat)
    PROVE  LET top == st[Len(st)]
           IN  GoodLayout(Place(l, Cell(top.off, NK_FIXED + top.name, "nk", FALSE, to)),
                          SubSeq(st, 1, Len(st) - 1))
<1> DEFINE top == st[Len(st)]
           c == Cell(top.off, NK_FIXED + top.name, "nk", FALSE, to)
           tt == SubSeq(st, 1, Len(st) - 1)
           cs == l.cells
           ds == Append(cs, c)
           n == l.next
<1>1. cs \in Seq(CellType) /\ st \in Seq(KeyType) /\ n \in Nat
  BY DEF GoodLayout, LayoutOK
<1>2. Len(st) \in Nat /\ 1 <= Len(st) /\ DOMAIN st = 1..Len(st) /\ top \in KeyType
  BY <1>1
<1>3. tt \in Seq(KeyType) /\ DOMAIN tt = 1..(Len(st) - 1)
      /\ \A i \in 1..(Len(st) - 1) : tt[i] = st[i]
  BY <1>1, <1>2
<1> HIDE DEF top, tt
<1>4. NK_FIXED + top.name \in Nat /\ top.off \in Nat
  <2>1. top.name \in NameLen /\ top.off \in Nat
    BY <1>2 DEF KeyType
  <2> QED
    BY <2>1, NkPayload
<1>5. c \in CellType /\ c.off = Reserved(top).off /\ c.size = Reserved(top).size
  BY <1>4, CellSizes DEF Cell, CellType, CellKind, Reserved
<1>6. /\ \A i \in DOMAIN cs : InBin(cs[i], n)
      /\ \A i \in DOMAIN st : InBin(Reserved(st[i]), n)
      /\ \A i, j \in DOMAIN cs : i # j => Apart(cs[i], cs[j])
      /\ \A i \in DOMAIN cs, j \in DOMAIN st : Apart(cs[i], Reserved(st[j]))
      /\ \A i, j \in DOMAIN st : i # j => Apart(Reserved(st[i]), Reserved(st[j]))
      /\ n % 8 = 0 /\ FIRST_CELL_REL <= n
  BY DEF GoodLayout, LayoutOK
<1> HIDE DEF c
<1>7. ds \in Seq(CellType) /\ DOMAIN ds = 1..(Len(cs) + 1) /\ DOMAIN cs = 1..Len(cs)
      /\ Len(cs) \in Nat
      /\ (\A i \in 1..Len(cs) : ds[i] = cs[i]) /\ ds[Len(cs) + 1] = c
  BY <1>1, <1>5
<1>8. Place(l, c) = [cells |-> ds, next |-> n]
  <2>1. Place(l, c) = [l EXCEPT !.cells = ds]
    BY DEF Place
  <2> HIDE DEF ds
  <2> QED
    BY <2>1 DEF GoodLayout, LayoutType
<1> HIDE DEF ds
<1>9. InBin(c, n)
  BY <1>2, <1>5, <1>6 DEF InBin, top
<1>10. \A i \in DOMAIN cs : Apart(cs[i], c) /\ Apart(c, cs[i])
  BY <1>2, <1>5, <1>6 DEF Apart, top
<1>11. \A i \in 1..(Len(st) - 1) : Apart(c, Reserved(st[i]))
  <2> TAKE i \in 1..(Len(st) - 1)
  <2> DEFINE N == Len(st)
  <2>0. N \in Nat /\ 1 <= N /\ DOMAIN st = 1..N /\ i \in 1..(N - 1)
    BY <1>2
  <2> HIDE DEF N
  <2>1. i \in DOMAIN st /\ i # N /\ N \in DOMAIN st
    BY <2>0
  <2>2. Apart(Reserved(top), Reserved(st[i]))
    BY <2>1, <1>6 DEF top, N
  <2> QED
    BY <2>2, <1>5 DEF Apart
<1> HIDE DEF cs, n
<1>12. \A i \in DOMAIN ds : InBin(ds[i], n)
  BY <1>6, <1>7, <1>9
<1>13. \A i, j \in DOMAIN ds : i # j => Apart(ds[i], ds[j])
  BY <1>6, <1>7, <1>10
<1>14. \A i \in 1..(Len(st) - 1) : tt[i] = st[i] /\ i \in DOMAIN st
  BY <1>2, <1>3
<1>15. \A i \in DOMAIN ds, j \in DOMAIN tt : Apart(ds[i], Reserved(tt[j]))
  BY <1>3, <1>6, <1>7, <1>11, <1>14
<1>16. \A i, j \in DOMAIN tt : i # j => Apart(Reserved(tt[i]), Reserved(tt[j]))
  BY <1>3, <1>6, <1>14
<1>17. \A i \in DOMAIN tt : InBin(Reserved(tt[i]), n)
  BY <1>3, <1>6, <1>14
<1>f. Filled(ds, tt, n)
  <2>1. OneMore(tt, st, top)
    <3> DEFINE N == Len(st) - 1
    <3>1. N \in Nat /\ DOMAIN tt = 1..N /\ DOMAIN st = 1..(N + 1)
          /\ (\A i \in 1..N : st[i] = tt[i]) /\ st[N + 1] = top
      BY <1>2, <1>3 DEF top
    <3> HIDE DEF N
    <3> QED
      BY <3>1 DEF OneMore
  <2>2. /\ Froms(cs, st) = Froms(cs, tt) \cup {Reserved(top).off}
        /\ Tos(cs, st) = Tos(cs, tt) \cup {Reserved(top).off + Reserved(top).size}
    BY <2>1, ExtentsOpen
  <2>3. /\ Froms(ds, tt) = Froms(cs, tt) \cup {c.off}
        /\ Tos(ds, tt) = Tos(cs, tt) \cup {c.off + c.size}
    BY <1>1, <1>5, ExtentsCell DEF ds
  <2>4. Froms(ds, tt) = Froms(cs, st) /\ Tos(ds, tt) = Tos(cs, st)
    BY <1>5, <2>2, <2>3
  <2>5. Filled(cs, st, n)
    BY DEF GoodLayout, LayoutOK, cs, n
  <2> QED
    BY <2>4, <2>5 DEF Filled
<1>18. LayoutOK(ds, tt, n)
  BY <1>1, <1>3, <1>6, <1>7, <1>12, <1>13, <1>15, <1>16, <1>17, <1>f DEF LayoutOK
<1>19. Place(l, c) \in LayoutType
  BY <1>1, <1>7, <1>8 DEF LayoutType
<1> QED
  <2>1. GoodLayout(Place(l, c), tt)
    BY <1>8, <1>18, <1>19 DEF GoodLayout
  <2> QED
    BY <2>1 DEF c, top, tt

\* Changing what an innermost call has collected changes no reserved place.
LEMMA UpdateTop ==
    ASSUME NEW l, NEW st, GoodLayout(l, st), st # <<>>, NEW k \in KeyType,
           k.off = st[Len(st)].off, k.name = st[Len(st)].name
    PROVE  LET tt == [st EXCEPT ![Len(st)] = k]
           IN  GoodLayout(l, tt) /\ tt # <<>>
<1> DEFINE tt == [st EXCEPT ![Len(st)] = k]
<1>1. st \in Seq(KeyType)
  BY DEF GoodLayout, LayoutOK
<1>2. Len(st) \in Nat /\ 1 <= Len(st) /\ DOMAIN st = 1..Len(st)
  BY <1>1
<1>3. tt \in Seq(KeyType) /\ Len(tt) = Len(st)
  BY <1>1, <1>2
<1>4. \A i \in DOMAIN st : tt[i].off = st[i].off /\ tt[i].name = st[i].name
  BY <1>1, <1>2
<1> HIDE DEF tt
<1>5. GoodLayout(l, tt)
  BY <1>3, <1>4, SameReserved
<1>6. tt # <<>>
  BY <1>2, <1>3
<1> QED
  BY <1>5, <1>6 DEF tt

\* The changes made to a call keep its type.
LEMMA KeyUpdates ==
    ASSUME NEW k \in KeyType, NEW off \in Nat
    PROVE  /\ WithSubkey(k, off) \in KeyType /\ WithValue(k, off) \in KeyType
           /\ WithList(k, off) \in KeyType
           /\ WithSubkey(k, off).off = k.off /\ WithSubkey(k, off).name = k.name
           /\ WithValue(k, off).off = k.off /\ WithValue(k, off).name = k.name
           /\ WithList(k, off).off = k.off /\ WithList(k, off).name = k.name
<1>0. /\ k.subs \cup {off} \in SUBSET Nat /\ k.nsubs + 1 \in Nat
      /\ k.vks \cup {off} \in SUBSET Nat /\ k.nvals + 1 \in Nat
  BY DEF KeyType
<1> DEFINE subs == k.subs \cup {off}
           vks == k.vks \cup {off}
<1>1. [k EXCEPT !.subs = subs, !.nsubs = @ + 1] \in KeyType
  <2> HIDE DEF subs
  <2>1. subs \in SUBSET Nat
    BY <1>0 DEF subs
  <2> QED
    BY <1>0, <2>1 DEF KeyType
<1>2. [k EXCEPT !.vks = vks, !.nvals = @ + 1] \in KeyType
  <2> HIDE DEF vks
  <2>1. vks \in SUBSET Nat
    BY <1>0 DEF vks
  <2> QED
    BY <1>0, <2>1 DEF KeyType
<1>3. [k EXCEPT !.list = off, !.part = "subkeys"] \in KeyType
  BY DEF KeyType
<1>4. /\ WithSubkey(k, off).off = k.off /\ WithSubkey(k, off).name = k.name
      /\ WithValue(k, off).off = k.off /\ WithValue(k, off).name = k.name
      /\ WithList(k, off).off = k.off /\ WithList(k, off).name = k.name
  BY DEF KeyType, WithSubkey, WithValue, WithList
<1> QED
  BY <1>1, <1>2, <1>3, <1>4 DEF WithSubkey, WithValue, WithList

\* A return changes no open call's reserved place.
LEMMA ReturnedKeeps ==
    ASSUME NEW l, NEW st, GoodLayout(l, st), NEW off \in Nat
    PROVE  GoodLayout(l, Returned(st, off)) /\ (Returned(st, off) = <<>> <=> st = <<>>)
<1>1. st \in Seq(KeyType)
  BY DEF GoodLayout, LayoutOK
<1>2. CASE st = <<>>
  BY <1>2 DEF Returned
<1>3. CASE st # <<>>
  <2> DEFINE k == WithSubkey(st[Len(st)], off)
  <2>1. st[Len(st)] \in KeyType
    BY <1>1, <1>3
  <2>2. Returned(st, off) = [st EXCEPT ![Len(st)] = k]
    BY <1>3 DEF Returned
  <2>3. k \in KeyType /\ k.off = st[Len(st)].off /\ k.name = st[Len(st)].name
    BY <2>1, KeyUpdates
  <2> HIDE DEF k
  <2>4. GoodLayout(l, [st EXCEPT ![Len(st)] = k]) /\ [st EXCEPT ![Len(st)] = k] # <<>>
    BY <1>3, <2>3, UpdateTop
  <2> QED
    BY <1>3, <2>2, <2>4
<1> QED
  BY <1>2, <1>3

-----------------------------------------------------------------------------
(* The inductive invariant: the layout is in order until build closes it.  *)

SpecType == [primary_seq : SeqNo, secondary_seq : SeqNo, corrupt_checksum : BOOLEAN]

LInv ==
    /\ TypeOK /\ spec \in SpecType
    /\ phase # "built" => GoodLayout(lay, stack)
    /\ CellsApart /\ CellsAligned /\ BinFilled /\ ImageParses

\* A layout in order has its cells apart and aligned.
LEMMA InOrder ==
    ASSUME GoodLayout(lay, stack), phase # "built"
    PROVE  lay \in LayoutType /\ stack \in Seq(KeyType) /\ CellsApart /\ CellsAligned
<1>1. CellsEnd = lay.next
  BY DEF CellsEnd
<1> QED
  BY <1>1 DEF GoodLayout, LayoutOK, CellsApart, CellsAligned, InBin, Between

\* A step that leaves the layout in order keeps the invariant.
LEMMA KeepsLInv ==
    ASSUME GoodLayout(lay, stack)', orphan' \in Seq(Nat),
           phase' \in {"root", "tree", "orphans"}, spec' \in SpecType,
           (phase = "tree" <=> stack # <<>>)'
    PROVE  LInv'
<1>1. (GoodLayout(lay, stack) /\ phase # "built")'
  OBVIOUS
<1>2. (lay \in LayoutType /\ stack \in Seq(KeyType) /\ CellsApart /\ CellsAligned)'
  BY <1>1, InOrder, PTL
<1> QED
  BY <1>2 DEF LInv, TypeOK, BinFilled, ImageParses

\* The free cell that fills the bin is aligned, and lies past the cursor.
LEMMA Trailing ==
    ASSUME NEW n \in Nat, n % 8 = 0, n < HbinSize(n)
    PROVE  LET c == TrailingFree(n, HbinSize(n))
           IN  c \in CellType /\ c.off = n /\ 0 < c.size /\ c.size % 8 = 0
<1>1. HbinSize(n) \in Nat /\ HbinSize(n) % 8 = 0
  BY DEF HbinSize, PAGE, MIN_HBIN
<1> DEFINE h == HbinSize(n)
<1> HIDE DEF h
<1>2. h - n \in Nat /\ 0 < h - n /\ (h - n) % 8 = 0
  BY <1>1 DEF h
<1>3. {} \in SUBSET (Role \X Nat) /\ "free" \in CellKind
  BY DEF CellKind
<1> QED
  BY <1>2, <1>3 DEF TrailingFree, CellType, h

\* The bin is as long as what was laid out, or longer.
LEMMA BinLargeEnough ==
    ASSUME NEW n \in Nat
    PROVE  HbinSize(n) \in Nat /\ n <= HbinSize(n) /\ 0 < HbinSize(n)
BY DEF HbinSize, PAGE, MIN_HBIN

\* Where cells begin and end.
Starts(cs) == {cs[i].off : i \in DOMAIN cs}
Ends(cs) == {cs[i].off + cs[i].size : i \in DOMAIN cs}

\* With no call open, extents without a gap are cells that fill a bin of n bytes.
LEMMA CellsFill ==
    ASSUME NEW cs, NEW n, Filled(cs, <<>>, n)
    PROVE  Starts(cs) \cup {n} = Ends(cs) \cup {FIRST_CELL_REL}
<1>1. DOMAIN << >> = {}
  OBVIOUS
<1>2. Froms(cs, <<>>) = Starts(cs) /\ Tos(cs, <<>>) = Ends(cs)
  BY <1>1 DEF Froms, Tos, Starts, Ends
<1> QED
  BY <1>2 DEF Filled

\* The checksum stored is the one a reader computes, unless it was corrupted:
\* a byte is never its own inverse.
LEMMA StoredAsAsked ==
    ASSUME NEW f, f.xor \in Word, NEW corrupt \in BOOLEAN, NEW n \in Nat,
           CHECKSUM_OFFSET <= n
    PROVE  Stored(f.xor, corrupt) # Xor32Checksum(f, n) <=> corrupt
<1> DEFINE c == Xor32Checksum(f, n)
<1>1. CHECKSUM_OFFSET \in Nat /\ ~(n < CHECKSUM_OFFSET)
      /\ ~(CHECKSUM_OFFSET < CHECKSUM_OFFSET) /\ n >= CHECKSUM_OFFSET
      /\ CHECKSUM_OFFSET >= CHECKSUM_OFFSET
  BY DEF CHECKSUM_OFFSET
<1>2. f.xor \in Nat /\ U32Max \in Nat /\ U32Max # 0 /\ U32Max - 1 \in Nat
  <2>1. U32Max \in Nat \ {0, 1} /\ Word \subseteq 0..U32Max
    BY HeaderAssumption, Zenon
  <2>2. U32Max \in Nat /\ U32Max # 0 /\ U32Max - 1 \in Nat
    BY <2>1
  <2>3. f.xor \in 0..U32Max
    BY <2>1, Zenon
  <2> QED
    BY <2>2, <2>3
<1>3. c = Xor32Checksum([xor |-> f.xor], CHECKSUM_OFFSET) /\ c \in Nat
  <2> DEFINE g == [xor |-> f.xor]
  <2>0. g.xor = f.xor
    OBVIOUS
  <2> HIDE DEF g
  <2>1. CASE f.xor = 0
    BY <1>1, <1>2, <2>0, <2>1, Zenon DEF Xor32Checksum, g
  <2>2. CASE f.xor = U32Max
    BY <1>1, <1>2, <2>0, <2>2, Zenon DEF Xor32Checksum, g
  <2>3. CASE f.xor # 0 /\ f.xor # U32Max
    BY <1>1, <1>2, <2>0, <2>3, Zenon DEF Xor32Checksum, g
  <2> QED
    BY <2>1, <2>2, <2>3, Zenon
<1> HIDE DEF c
<1>4. Stored(f.xor, corrupt) = IF corrupt THEN c - (c % 256) + (255 - (c % 256)) ELSE c
  BY <1>3 DEF Stored
<1>5. c - (c % 256) + (255 - (c % 256)) # c
  <2> DEFINE low == c % 256
  <2>1. low \in Nat
    BY <1>3
  <2> HIDE DEF low
  <2>2. c - low + (255 - low) # c
    BY <1>3, <2>1
  <2> QED
    BY <2>2 DEF low
<1>6. CASE corrupt
  BY <1>4, <1>5, <1>6, Zenon DEF c
<1>7. CASE ~corrupt
  BY <1>4, <1>7, Zenon DEF c
<1> QED
  BY <1>6, <1>7

\* The base block that build writes.
Written(s, xor, hbin) ==
    [regf |-> TRUE, primary_seq |-> s.primary_seq, secondary_seq |-> s.secondary_seq,
     file_type |-> 0, bins |-> hbin, stored |-> Stored(xor, s.corrupt_checksum),
     xor |-> xor, name |-> {}, total |-> BASE_BLOCK_LEN + hbin]

\* A reader takes that base block for what was asked for.
LEMMA WrittenParses ==
    ASSUME NEW s \in SpecType, NEW xor \in Word, NEW hbin \in Nat
    PROVE  LET h == Written(s, xor, hbin)
           IN  /\ ParseKind(h, h.total) = IF s.corrupt_checksum THEN "bad-checksum" ELSE "ok"
               /\ IsDirty(ReadFields(h, h.total)[1]) <=>
                      s.corrupt_checksum \/ s.primary_seq # s.secondary_seq
<1> DEFINE h == Written(s, xor, hbin)
           n == BASE_BLOCK_LEN + hbin
           bb == [primary_seq |-> s.primary_seq, secondary_seq |-> s.secondary_seq,
                  file_type |-> 0, bins |-> hbin, name |-> {}, stored |-> h.stored,
                  computed |-> Xor32Checksum(h, n)]
<1>1. /\ h.regf = TRUE /\ h.primary_seq = s.primary_seq /\ h.secondary_seq = s.secondary_seq
      /\ h.file_type = 0 /\ h.bins = hbin /\ h.xor = xor /\ h.name = {} /\ h.total = n
      /\ h.stored = Stored(xor, s.corrupt_checksum)
  BY DEF Written
<1>2. /\ n \in Nat /\ ~(n < 8) /\ 8 + 4 <= n /\ 28 + 4 <= n /\ 40 + 4 <= n /\ n >= 112
      /\ CHECKSUM_OFFSET + 4 <= n /\ CHECKSUM_OFFSET <= n /\ ~(n < 4)
      /\ ~(n < BASE_BLOCK_LEN) /\ ~(BASE_BLOCK_LEN + hbin > n)
  BY DEF BASE_BLOCK_LEN, CHECKSUM_OFFSET
<1>3. s.corrupt_checksum \in BOOLEAN
  BY DEF SpecType
<1> HIDE DEF h, n
<1>4. ReadFields(h, n) = <<bb>>
  BY <1>1, <1>2 DEF ReadFields, Field
<1>5. h.stored # Xor32Checksum(h, n) <=> s.corrupt_checksum
  BY <1>1, <1>2, <1>3, StoredAsAsked
<1>6. /\ bb.stored = h.stored /\ bb.computed = Xor32Checksum(h, n) /\ bb.file_type = 0
      /\ bb.bins = hbin /\ bb.primary_seq = s.primary_seq
      /\ bb.secondary_seq = s.secondary_seq
  OBVIOUS
<1> HIDE DEF bb
<1>7. ReadFields(h, n)[1] = bb /\ ReadFields(h, n) # <<>>
  BY <1>4
<1>8. ChecksumBad(bb) <=> s.corrupt_checksum
  BY <1>5, <1>6 DEF ChecksumBad
<1>9. ParseKind(h, n) = IF ChecksumBad(bb) THEN "bad-checksum" ELSE "ok"
  BY <1>1, <1>2, <1>6, <1>7 DEF ParseKind, n
<1>10. IsDirty(bb) <=> s.corrupt_checksum \/ s.primary_seq # s.secondary_seq
  BY <1>6, <1>8 DEF IsDirty
<1> QED
  BY <1>1, <1>7, <1>8, <1>9, <1>10 DEF h

\* Every step of the builder keeps the invariant.
LEMMA LInvStep == LInv /\ [Next]_vars => LInv'
<1> SUFFICES ASSUME LInv, [Next]_vars PROVE LInv'
  OBVIOUS
<1>0. /\ lay \in LayoutType /\ stack \in Seq(KeyType) /\ orphan \in Seq(Nat)
      /\ phase \in {"root", "tree", "orphans", "built"}
      /\ phase = "tree" <=> stack # <<>>
      /\ phase # "built" => GoodLayout(lay, stack)
      /\ lay.next \in Nat /\ spec \in SpecType
  BY DEF LInv, TypeOK, LayoutType
<1>t. stack # <<>> => Top \in KeyType
  BY <1>0 DEF Top
<1>1. ASSUME NEW name \in NameLen, LayoutRoot(name) PROVE LInv'
  <2>1. stack = <<>> /\ GoodLayout(lay, <<>>)
    BY <1>0, <1>1 DEF LayoutRoot
  <2>2. GoodLayout(Reserve(lay, name), Append(<<>>, OpenKey(lay.next, name, 0)))
    BY <2>1, ReserveKeeps
  <2>3. Append(<<>>, OpenKey(lay.next, name, 0)) = <<OpenKey(lay.next, name, 0)>>
    OBVIOUS
  <2>4. GoodLayout(lay', stack') /\ stack' # <<>> /\ phase' = "tree" /\ orphan' = orphan
        /\ spec' = spec
    BY <1>1, <2>2, <2>3 DEF LayoutRoot
  <2> QED
    BY <1>0, <2>4, KeepsLInv
<1>2. ASSUME NEW name \in NameLen, NEW len \in DataLen, LayoutValue(name, len) PROVE LInv'
  <2> DEFINE k == WithValue(Top, LastOff(lay'))
  <2>1. stack # <<>> /\ phase = "tree" /\ lay' = EmitValue(lay, name, len, FALSE)
        /\ stack' = [stack EXCEPT ![Len(stack)] = k] /\ phase' = phase /\ orphan' = orphan /\ spec' = spec
    BY <1>2 DEF LayoutValue, Top
  <2>2. GoodLayout(lay', stack) /\ LastOff(lay') \in Nat
    BY <1>0, <2>1, ValueKeeps, LengthAssumption
  <2>3. k \in KeyType /\ k.off = Top.off /\ k.name = Top.name
    BY <1>t, <2>1, <2>2, KeyUpdates
  <2> HIDE DEF k
  <2>4. GoodLayout(lay', [stack EXCEPT ![Len(stack)] = k])
        /\ [stack EXCEPT ![Len(stack)] = k] # <<>>
    BY <2>1, <2>2, <2>3, UpdateTop DEF Top
  <2> QED
    BY <1>0, <2>1, <2>4, KeepsLInv
<1>3. ASSUME LayoutValueList PROVE LInv'
  <2> DEFINE k == WithList(Top, lay.next)
  <2>1. stack # <<>> /\ phase = "tree" /\ lay' = EmitList(lay, Top.vks, Top.nvals, FALSE)
        /\ stack' = [stack EXCEPT ![Len(stack)] = k] /\ phase' = phase /\ orphan' = orphan /\ spec' = spec
    BY <1>3 DEF LayoutValueList, Top
  <2>2. Top.vks \in SUBSET Nat /\ Top.nvals \in Nat
    BY <1>t, <2>1 DEF KeyType
  <2>3. GoodLayout(lay', stack)
    BY <1>0, <2>1, <2>2, ListsKeep
  <2>4. k \in KeyType /\ k.off = Top.off /\ k.name = Top.name
    BY <1>0, <1>t, <2>1, KeyUpdates
  <2> HIDE DEF k
  <2>5. GoodLayout(lay', [stack EXCEPT ![Len(stack)] = k])
        /\ [stack EXCEPT ![Len(stack)] = k] # <<>>
    BY <2>1, <2>3, <2>4, UpdateTop DEF Top
  <2> QED
    BY <1>0, <2>1, <2>5, KeepsLInv
<1>4. ASSUME NEW name \in NameLen, LayoutSubkey(name) PROVE LInv'
  <2>1. stack # <<>> /\ phase = "tree" /\ lay' = Reserve(lay, name)
        /\ stack' = Append(stack, OpenKey(lay.next, name, Top.off))
        /\ phase' = phase /\ orphan' = orphan /\ spec' = spec
    BY <1>4 DEF LayoutSubkey
  <2>2. Top.off \in Nat
    BY <1>t, <2>1 DEF KeyType
  <2>3. GoodLayout(lay', stack')
    BY <1>0, <2>1, <2>2, ReserveKeeps
  <2>4. stack' # <<>>
    BY <1>0, <2>1
  <2> QED
    BY <1>0, <2>1, <2>3, <2>4, KeepsLInv
<1>5. ASSUME LayoutKeyEnd PROVE LInv'
  <2> DEFINE l == EmitLf(lay, Top.subs, Top.nsubs)
             refs == NkRefs(Top, lay.next)
             rest == SubSeq(stack, 1, Len(stack) - 1)
  <2>1. stack # <<>> /\ phase = "tree"
        /\ lay' = Place(l, Cell(Top.off, NK_FIXED + Top.name, "nk", FALSE, refs))
        /\ stack' = Returned(rest, Top.off)
        /\ phase' = (IF Len(stack) = 1 THEN "orphans" ELSE "tree") /\ orphan' = orphan
        /\ spec' = spec
    BY <1>5 DEF LayoutKeyEnd
  <2>2. /\ Top.subs \in SUBSET Nat /\ Top.nsubs \in Nat /\ Top.off \in Nat
        /\ Top.parent \in Nat /\ Top.list \in Nat
    BY <1>t, <2>1 DEF KeyType
  <2>3. GoodLayout(l, stack)
    BY <1>0, <2>1, <2>2, ListsKeep
  <2>4. refs \in SUBSET (Role \X Nat)
    BY <1>0, <2>2 DEF NkRefs, RefIf, Role
  <2> HIDE DEF l, refs
  <2>5. GoodLayout(lay', rest)
    BY <2>1, <2>3, <2>4, PlaceKeeps DEF Top
  <2>7. rest = <<>> <=> Len(stack) = 1
    BY <1>0, <2>1, AllButLast
  <2> HIDE DEF rest
  <2>8. GoodLayout(lay', stack') /\ (stack' = <<>> <=> rest = <<>>)
    BY <2>1, <2>2, <2>5, ReturnedKeeps
  <2>9. phase' = "tree" <=> stack' # <<>>
    BY <2>1, <2>7, <2>8
  <2> QED
    BY <1>0, <2>1, <2>8, <2>9, KeepsLInv
<1>6. ASSUME NEW name \in NameLen, NEW len \in DataLen, LayoutOrphanValue(name, len)
      PROVE  LInv'
  <2>1. phase = "orphans" /\ lay' = EmitValue(lay, name, len, TRUE)
        /\ orphan' = Append(orphan, LastOff(lay')) /\ stack' = stack /\ phase' = phase
        /\ spec' = spec
    BY <1>6 DEF LayoutOrphanValue
  <2>2. GoodLayout(lay', stack') /\ LastOff(lay') \in Nat
    BY <1>0, <2>1, ValueKeeps, LengthAssumption
  <2>3. orphan' \in Seq(Nat)
    <3> DEFINE o == LastOff(lay')
    <3>1. o \in Nat /\ orphan' = Append(orphan, o)
      BY <2>1, <2>2
    <3> HIDE DEF o
    <3> QED
      BY <1>0, <3>1
  <2> QED
    BY <1>0, <2>1, <2>2, <2>3, KeepsLInv
<1>7. ASSUME NEW name \in NameLen, LayoutOrphan(name) PROVE LInv'
  <2> DEFINE offs == {orphan[i] : i \in DOMAIN orphan}
             l == EmitList(lay, offs, Len(orphan), TRUE)
             refs == {<<"parent", 0>>} \cup RefIf(Len(orphan), "list", lay.next)
  <2>1. phase = "orphans" /\ lay' = Emit(l, NK_FIXED + name, "nk", TRUE, refs)
        /\ orphan' = <<>> /\ stack' = stack /\ phase' = phase
        /\ spec' = spec
    BY <1>7 DEF LayoutOrphan
  <2>2. offs \in SUBSET Nat /\ Len(orphan) \in Nat
    BY <1>0
  <2> HIDE DEF offs
  <2>3. GoodLayout(l, stack)
    BY <1>0, <2>1, <2>2, ListsKeep
  <2>4. refs \in SUBSET (Role \X Nat)
    BY <1>0 DEF RefIf, Role
  <2> HIDE DEF l, refs
  <2>5. "nk" \in CellKind
    BY DEF CellKind
  <2>6. GoodLayout(lay', stack')
    BY <2>1, <2>3, <2>4, <2>5, NkPayload, EmitKeeps
  <2> QED
    BY <1>0, <2>1, <2>6, KeepsLInv
<1>8. ASSUME NEW xor \in Word, Build(xor) PROVE LInv'
  <2> DEFINE c == TrailingFree(lay.next, HbinSize(lay.next))
             hbin == HbinSize(lay.next)
  <2>1. phase = "orphans" /\ phase' = "built" /\ stack' = stack /\ orphan' = orphan
        /\ lay' = (IF lay.next < HbinSize(lay.next) THEN Place(lay, c) ELSE lay)
        /\ header' = <<Written(spec, xor, hbin)>> /\ spec' = spec
    BY <1>8 DEF Build, Written
  <2>2. /\ LayoutOK(lay.cells, stack, lay.next) /\ lay.next % 8 = 0 /\ stack = <<>>
        /\ Filled(lay.cells, stack, lay.next)
    BY <1>0, <2>1 DEF GoodLayout, LayoutOK
  <2>3. hbin \in Nat /\ lay.next <= hbin
    BY <1>0, BinLargeEnough
  <2>4. header'[1] = Written(spec, xor, hbin) /\ Written(spec, xor, hbin).bins = hbin
    BY <2>1 DEF Written
  <2>5. ImageParses'
    BY <1>0, <2>1, <2>3, <2>4, WrittenParses DEF ImageParses
  <2>6. CASE lay.next < hbin
    <3>1. c \in CellType /\ c.off = lay.next /\ 0 < c.size /\ c.size % 8 = 0
          /\ c.size = hbin - lay.next
      BY <1>0, <2>2, <2>6, Trailing DEF TrailingFree
    <3>2. lay' = [lay EXCEPT !.cells = Append(lay.cells, c)]
      BY <2>1, <2>6 DEF Place
    <3>3. lay.next + c.size = hbin
      BY <1>0, <2>3, <3>1
    <3> HIDE DEF c, hbin
    <3>4. LayoutOK(Append(lay.cells, c), stack, hbin)
      BY <2>2, <3>1, <3>3, AddCell
    <3>5. lay' \in LayoutType /\ lay'.cells = Append(lay.cells, c)
      BY <1>0, <3>2, <3>4 DEF LayoutType, LayoutOK
    <3>b. CellsEnd' = hbin
      BY <2>1, <2>4 DEF CellsEnd
    <3>6. CellsApart' /\ CellsAligned'
      BY <2>1, <3>4, <3>5, <3>b DEF LayoutOK, CellsApart, CellsAligned, InBin, Between
    <3>7. Filled(lay'.cells, <<>>, hbin)
      BY <2>2, <3>4, <3>5 DEF LayoutOK
    <3>8. BinFilled'
      <4> DEFINE cs == lay'.cells
      <4>1. Filled(cs, <<>>, hbin)
        BY <3>7
      <4> HIDE DEF cs
      <4>2. Starts(cs) \cup {hbin} = Ends(cs) \cup {FIRST_CELL_REL}
        BY <4>1, CellsFill
      <4>3. header'[1].bins = hbin
        BY <2>4
      <4> QED
        BY <4>2, <4>3, Zenon DEF BinFilled, Starts, Ends, cs
    <3> QED
      BY <1>0, <2>1, <2>5, <3>5, <3>6, <3>8 DEF LInv, TypeOK
  <2>7. CASE ~(lay.next < hbin)
    <3>1. lay.next = hbin /\ lay' = lay
      BY <1>0, <2>1, <2>3, <2>7
    <3> HIDE DEF hbin
    <3>2. Filled(lay'.cells, <<>>, hbin)
      BY <2>2, <3>1
    <3>3. BinFilled'
      <4> DEFINE cs == lay'.cells
      <4>1. Filled(cs, <<>>, hbin)
        BY <3>2
      <4> HIDE DEF cs
      <4>2. Starts(cs) \cup {hbin} = Ends(cs) \cup {FIRST_CELL_REL}
        BY <4>1, CellsFill
      <4>3. header'[1].bins = hbin
        BY <2>4
      <4> QED
        BY <4>2, <4>3, Zenon DEF BinFilled, Starts, Ends, cs
    <3>b. CellsEnd' = lay.next /\ CellsEnd = lay.next
      BY <2>1, <2>4, <3>1 DEF CellsEnd
    <3>4. CellsApart' /\ CellsAligned'
      BY <2>1, <3>1, <3>b DEF LInv, CellsApart, CellsAligned
    <3> QED
      BY <1>0, <2>1, <2>5, <3>1, <3>3, <3>4 DEF LInv, TypeOK
  <2> QED
    BY <2>6, <2>7
<1>9. CASE UNCHANGED vars
  <2>1. UNCHANGED <<lay, stack, phase, orphan, header, spec>>
    BY <1>9 DEF vars
  <2>b. CellsEnd' = CellsEnd
    BY <2>1 DEF CellsEnd
  <2>2. CellsApart' /\ CellsAligned'
    BY <2>1, <2>b DEF LInv, CellsApart, CellsAligned
  <2>3. BinFilled'
    <3>1. phase = "built" =>
             Starts(lay.cells) \cup {header[1].bins} = Ends(lay.cells) \cup {FIRST_CELL_REL}
      BY Zenon DEF LInv, BinFilled, Starts, Ends
    <3>2. phase' = "built" =>
             Starts(lay'.cells) \cup {header'[1].bins} = Ends(lay'.cells) \cup {FIRST_CELL_REL}
      BY <2>1, <3>1
    <3> QED
      BY <3>2, Zenon DEF BinFilled, Starts, Ends
  <2>4. ImageParses'
    BY <2>1, Zenon DEF LInv, ImageParses
  <2> QED
    BY <1>0, <2>1, <2>2, <2>3, <2>4 DEF LInv, TypeOK
<1> QED
  BY <1>1, <1>2, <1>3, <1>4, <1>5, <1>6, <1>7, <1>8, <1>9 DEF Next

\* The empty layout is in order.
LEMMA LInvInit == Init => LInv
<1> SUFFICES ASSUME Init PROVE LInv
  OBVIOUS
<1>1. lay.cells = <<>> /\ lay.next = 32 /\ lay \in LayoutType
      /\ stack = <<>> /\ orphan = <<>> /\ phase = "root" /\ spec \in SpecType
  BY DEF Init, LayoutType, FIRST_CELL_REL, SpecType
<1>f. Filled(lay.cells, stack, lay.next)
  <2>1. Froms(<<>>, <<>>) = {} /\ Tos(<<>>, <<>>) = {}
    BY DEF Froms, Tos
  <2> QED
    BY <1>1, <2>1 DEF Filled, FIRST_CELL_REL
<1>2. GoodLayout(lay, stack)
  BY <1>1, <1>f DEF GoodLayout, LayoutOK, FIRST_CELL_REL
<1> QED
  BY <1>1, <1>2, InOrder DEF LInv, TypeOK, BinFilled, ImageParses

\* No cell the builder writes overlaps another one, a place reserved for an open
\* key or the hbin header, and none leaves the bin, for every tree, every list
\* of orphans and every length.
THEOREM CellsNeverOverlap == Spec => []CellsApart
<1>1. LInv => CellsApart
  BY DEF LInv
<1> QED
  BY <1>1, LInvInit, LInvStep, PTL DEF Spec

\* Every cell of every image starts and ends on a multiple of 8.
THEOREM CellsStayAligned == Spec => []CellsAligned
<1>1. LInv => CellsAligned
  BY DEF LInv
<1> QED
  BY <1>1, LInvInit, LInvStep, PTL DEF Spec

\* The cells of every image, the trailing free cell included, fill the bin the
\* base block declares without a gap.
THEOREM BinIsFilled == Spec => []BinFilled
<1>1. LInv => BinFilled
  BY DEF LInv
<1> QED
  BY <1>1, LInvInit, LInvStep, PTL DEF Spec

\* Every image is accepted by the base block reader, corrupt and dirty exactly
\* when that was asked for.
THEOREM ImagesParse == Spec => []ImageParses
<1>1. LInv => ImageParses
  BY DEF LInv
<1> QED
  BY <1>1, LInvInit, LInvStep, PTL DEF Spec

-----------------------------------------------------------------------------
(* References.  ReferencesResolve says nothing before the image is built:  *)
(* until then a reference to a parent may lead to a key that is still open,*)
(* and the offsets that open calls have collected lead to cells already.   *)

\* A cell of that kind begins at off.
At(cs, off, kind, free) ==
    \E j \in DOMAIN cs : cs[j].off = off /\ cs[j].kind = kind /\ cs[j].free = free

\* Where a reference from a live or free cell leads.
Leads(cs, st, r, free) ==
    \/ r = <<"parent", 0>>
    \/ At(cs, r[2], Target[r[1]], free)
    \/ r[1] = "parent" /\ free = FALSE /\ \E k \in DOMAIN st : st[k].off = r[2]

\* What an open call has collected is there.
FrameOK(cs, st, k) ==
    /\ \A o \in k.vks : At(cs, o, "vk", FALSE)
    /\ \A o \in k.subs : At(cs, o, "nk", FALSE)
    /\ k.part = "subkeys" /\ k.nvals # 0 => At(cs, k.list, "list", FALSE)
    /\ Leads(cs, st, <<"parent", k.parent>>, FALSE)

Linked(cs, st, orph) ==
    /\ \A i \in DOMAIN cs : \A r \in cs[i].to : Leads(cs, st, r, cs[i].free)
    /\ \A k \in DOMAIN st : FrameOK(cs, st, st[k])
    /\ \A i \in DOMAIN orph : At(cs, orph[i], "vk", TRUE)

\* The kind of cell each role refers to.
LEMMA Targets ==
    /\ Target["parent"] = "nk" /\ Target["lf"] = "lf" /\ Target["list"] = "list"
    /\ Target["nk"] = "nk" /\ Target["vk"] = "vk" /\ Target["data"] = "data"
BY DEF Target

\* A reference to a cell that is there leads to it.
LEMMA LeadsAt ==
    ASSUME NEW cs, NEW st, NEW role, NEW off, NEW free, At(cs, off, Target[role], free)
    PROVE  Leads(cs, st, <<role, off>>, free)
BY DEF Leads

\* A cell is there once it is appended, and those before it stay.
LEMMA AtAppend ==
    ASSUME NEW cs \in Seq(CellType), NEW c \in CellType
    PROVE  /\ At(Append(cs, c), c.off, c.kind, c.free)
           /\ \A off, kind, free : At(cs, off, kind, free) => At(Append(cs, c), off, kind, free)
<1> DEFINE ds == Append(cs, c)
<1>1. /\ DOMAIN cs = 1..Len(cs) /\ DOMAIN ds = 1..(Len(cs) + 1) /\ Len(cs) \in Nat
      /\ \A i \in 1..Len(cs) : ds[i] = cs[i]
      /\ ds[Len(cs) + 1] = c
  OBVIOUS
<1> HIDE DEF ds
<1>2. At(ds, c.off, c.kind, c.free)
  BY <1>1 DEF At
<1>3. \A off, kind, free : At(cs, off, kind, free) => At(ds, off, kind, free)
  BY <1>1 DEF At
<1> QED
  BY <1>2, <1>3 DEF ds

\* A cell whose references lead somewhere keeps everything linked.
LEMMA LinkCell ==
    ASSUME NEW cs \in Seq(CellType), NEW st, NEW orph, Linked(cs, st, orph),
           NEW c \in CellType, \A r \in c.to : Leads(Append(cs, c), st, r, c.free)
    PROVE  Linked(Append(cs, c), st, orph)
<1> DEFINE ds == Append(cs, c)
<1>1. /\ DOMAIN cs = 1..Len(cs) /\ DOMAIN ds = 1..(Len(cs) + 1) /\ Len(cs) \in Nat
      /\ \A i \in 1..Len(cs) : ds[i] = cs[i]
      /\ ds[Len(cs) + 1] = c
  OBVIOUS
<1>2. \A off, kind, free : At(cs, off, kind, free) => At(ds, off, kind, free)
  BY AtAppend
<1>3. \A r \in c.to : Leads(ds, st, r, c.free)
  OBVIOUS
<1> HIDE DEF ds
<1>4. \A r, free : Leads(cs, st, r, free) => Leads(ds, st, r, free)
  BY <1>2 DEF Leads
<1>5. \A k : FrameOK(cs, st, k) => FrameOK(ds, st, k)
  BY <1>2, <1>4 DEF FrameOK
<1>6. \A i \in DOMAIN ds : \A r \in ds[i].to : Leads(ds, st, r, ds[i].free)
  <2> SUFFICES ASSUME NEW i \in DOMAIN ds, NEW r \in ds[i].to
               PROVE  Leads(ds, st, r, ds[i].free)
    OBVIOUS
  <2>1. CASE i \in DOMAIN cs
    BY <2>1, <1>1, <1>4 DEF Linked
  <2>2. CASE i = Len(cs) + 1
    BY <2>2, <1>1, <1>3
  <2> QED
    BY <1>1, <2>1, <2>2
<1>7. Linked(ds, st, orph)
  BY <1>2, <1>5, <1>6 DEF Linked
<1> QED
  BY <1>7 DEF ds

\* The layout e extends l: it is linked too and the cells of l are still there.
Extends(e, l, st, orph) ==
    /\ e \in LayoutType /\ Linked(e.cells, st, orph)
    /\ \A off, kind, free : At(l.cells, off, kind, free) => At(e.cells, off, kind, free)

\* emit: the cell is at the cursor and everything stays linked.
LEMMA EmitLinks ==
    ASSUME NEW l \in LayoutType, NEW st, NEW orph, Linked(l.cells, st, orph), NEW p \in Nat,
           NEW kind \in CellKind, NEW free \in BOOLEAN, NEW to \in SUBSET (Role \X Nat),
           \A r \in to : Leads(l.cells, st, r, free)
    PROVE  LET e == Emit(l, p, kind, free, to)
           IN  /\ Extends(e, l, st, orph)
               /\ At(e.cells, l.next, kind, free) /\ LastOff(e) = l.next
<1> DEFINE c == Cell(l.next, p, kind, free, to)
           e == Emit(l, p, kind, free, to)
<1>1. l.cells \in Seq(CellType) /\ l.next \in Nat
  BY DEF LayoutType
<1>2. /\ c \in CellType /\ c.off = l.next /\ c.size = CellSize(p) /\ c.size \in Nat
      /\ c.kind = kind /\ c.free = free /\ c.to = to
  BY <1>1, CellSizes DEF Cell, CellType
<1>3. e = [cells |-> Append(l.cells, c), next |-> l.next + c.size]
  BY <1>2 DEF Emit
<1> HIDE DEF c, e
<1>4. e.cells = Append(l.cells, c)
  BY <1>3
<1>5. e \in LayoutType
  <2>1. Append(l.cells, c) \in Seq(CellType)
    BY <1>1, <1>2
  <2>2. l.next + c.size \in Nat
    BY <1>1, <1>2
  <2> QED
    BY <1>3, <2>1, <2>2 DEF LayoutType
<1>6. /\ \A off, knd, fr : At(l.cells, off, knd, fr) => At(e.cells, off, knd, fr)
      /\ At(e.cells, l.next, kind, free)
  BY <1>1, <1>2, <1>4, AtAppend
<1>7. \A r \in c.to : Leads(Append(l.cells, c), st, r, c.free)
  BY <1>2, <1>4, <1>6 DEF Leads
<1>8. Linked(e.cells, st, orph)
  BY <1>1, <1>2, <1>4, <1>7, LinkCell
<1>9. LastOff(e) = l.next
  <2>1. Append(l.cells, c)[Len(Append(l.cells, c))] = c
    BY <1>1, <1>2
  <2> QED
    BY <1>2, <1>4, <2>1 DEF LastOff
<1> QED
  BY <1>5, <1>6, <1>8, <1>9 DEF e, Extends

\* layout_value: the vk it ends with is there, and its data with it.
LEMMA ValueLinks ==
    ASSUME NEW l \in LayoutType, NEW st, NEW orph, Linked(l.cells, st, orph),
           NEW name \in Nat, NEW len \in Nat, NEW free \in BOOLEAN
    PROVE  LET e == EmitValue(l, name, len, free)
           IN  Extends(e, l, st, orph) /\ At(e.cells, LastOff(e), "vk", free)
<1> DEFINE e == EmitValue(l, name, len, free)
           p == VK_FIXED + name
<1>0. p \in Nat /\ "vk" \in CellKind /\ "data" \in CellKind /\ l.next \in Nat
  BY DEF VK_FIXED, CellKind, LayoutType
<1>1. CASE len <= 4
  <2>1. e = Emit(l, p, "vk", free, {})
    BY <1>1 DEF EmitValue
  <2> HIDE DEF e, p
  <2>2. {} \in SUBSET (Role \X Nat) /\ \A r \in {} : Leads(l.cells, st, r, free)
    OBVIOUS
  <2>3. Extends(e, l, st, orph) /\ At(e.cells, l.next, "vk", free) /\ LastOff(e) = l.next
    BY <1>0, <2>1, <2>2, EmitLinks
  <2> QED
    BY <2>3 DEF e
<1>2. CASE ~(len <= 4)
  <2> DEFINE d == Emit(l, len, "data", free, {})
             to == {<<"data", l.next>>}
  <2>1. e = Emit(d, p, "vk", free, to)
    BY <1>2 DEF EmitValue
  <2>2. {} \in SUBSET (Role \X Nat) /\ \A r \in {} : Leads(l.cells, st, r, free)
    OBVIOUS
  <2>3. Extends(d, l, st, orph) /\ At(d.cells, l.next, "data", free)
    BY <1>0, <2>2, EmitLinks
  <2>4. to \in SUBSET (Role \X Nat)
    BY <1>0 DEF Role
  <2> HIDE DEF d, e, p
  <2>5. Leads(d.cells, st, <<"data", l.next>>, free)
    BY <2>3, Targets, LeadsAt
  <2>6. \A r \in to : Leads(d.cells, st, r, free)
    BY <2>5
  <2> HIDE DEF to
  <2>7. d \in LayoutType /\ Linked(d.cells, st, orph)
    BY <2>3 DEF Extends
  <2>8. Extends(e, d, st, orph) /\ At(e.cells, d.next, "vk", free) /\ LastOff(e) = d.next
    <3>1. p \in Nat /\ "vk" \in CellKind
      BY <1>0
    <3> DEFINE x == Emit(d, p, "vk", free, to)
    <3>2. /\ Extends(x, d, st, orph)
          /\ At(x.cells, d.next, "vk", free) /\ LastOff(x) = d.next
      BY <2>4, <2>6, <2>7, <3>1, EmitLinks
    <3> QED
      BY <2>1, <3>2
  <2>9. Extends(e, l, st, orph) /\ At(e.cells, LastOff(e), "vk", free)
    BY <2>3, <2>8 DEF Extends
  <2> QED
    BY <2>9 DEF e
<1> QED
  BY <1>1, <1>2

\* The value list leads to the values collected, the lf list to the subkeys.
LEMMA ListLinks ==
    ASSUME NEW l \in LayoutType, NEW st, NEW orph, Linked(l.cells, st, orph),
           NEW vks \in SUBSET Nat, NEW n \in Nat, NEW free \in BOOLEAN,
           \A o \in vks : At(l.cells, o, "vk", free)
    PROVE  LET e == EmitList(l, vks, n, free)
           IN  Extends(e, l, st, orph) /\ (n # 0 => At(e.cells, l.next, "list", free))
<1> DEFINE e == EmitList(l, vks, n, free)
           to == {<<"vk", o>> : o \in vks}
           p == 4 * n
<1>0. p \in Nat /\ "list" \in CellKind /\ to \in SUBSET (Role \X Nat)
  BY DEF CellKind, Role
<1>1. \A o \in vks : Leads(l.cells, st, <<"vk", o>>, free)
  BY Targets, LeadsAt
<1>2. \A r \in to : Leads(l.cells, st, r, free)
  BY <1>1
<1>3. CASE n = 0
  BY <1>3 DEF EmitList, Extends
<1>4. CASE n # 0
  <2>1. e = Emit(l, p, "list", free, to)
    BY <1>4 DEF EmitList
  <2> HIDE DEF e, to, p
  <2>2. Extends(e, l, st, orph) /\ At(e.cells, l.next, "list", free)
    BY <1>0, <1>2, <2>1, EmitLinks
  <2> QED
    BY <2>2 DEF e
<1> QED
  BY <1>3, <1>4

LEMMA LfLinks ==
    ASSUME NEW l \in LayoutType, NEW st, NEW orph, Linked(l.cells, st, orph),
           NEW subs \in SUBSET Nat, NEW n \in Nat,
           \A o \in subs : At(l.cells, o, "nk", FALSE)
    PROVE  LET e == EmitLf(l, subs, n)
           IN  Extends(e, l, st, orph) /\ (n # 0 => At(e.cells, l.next, "lf", FALSE))
<1> DEFINE e == EmitLf(l, subs, n)
           to == {<<"nk", o>> : o \in subs}
           p == 4 + 8 * n
<1>0. p \in Nat /\ "lf" \in CellKind /\ to \in SUBSET (Role \X Nat) /\ FALSE \in BOOLEAN
  BY DEF CellKind, Role
<1>1. \A o \in subs : Leads(l.cells, st, <<"nk", o>>, FALSE)
  BY Targets, LeadsAt
<1>2. \A r \in to : Leads(l.cells, st, r, FALSE)
  BY <1>1
<1>3. CASE n = 0
  BY <1>3 DEF EmitLf, Extends
<1>4. CASE n # 0
  <2>1. e = Emit(l, p, "lf", FALSE, to)
    BY <1>4 DEF EmitLf
  <2> HIDE DEF e, to, p
  <2>2. Extends(e, l, st, orph) /\ At(e.cells, l.next, "lf", FALSE)
    BY <1>0, <1>2, <2>1, EmitLinks
  <2> QED
    BY <2>2 DEF e
<1> QED
  BY <1>3, <1>4

\* Calls may be opened and updated, and closed once their nk is placed.
LEMMA LinkStack ==
    ASSUME NEW cs, NEW st, NEW orph, Linked(cs, st, orph), NEW tt,
           \A k \in DOMAIN st :
               (\E m \in DOMAIN tt : tt[m].off = st[k].off) \/ At(cs, st[k].off, "nk", FALSE),
           \A k \in DOMAIN tt : FrameOK(cs, st, tt[k])
    PROVE  Linked(cs, tt, orph)
<1>1. \A r, free : Leads(cs, st, r, free) => Leads(cs, tt, r, free)
  <2> SUFFICES ASSUME NEW r, NEW free, Leads(cs, st, r, free) PROVE Leads(cs, tt, r, free)
    OBVIOUS
  <2>1. CASE r[1] = "parent" /\ free = FALSE /\ \E k \in DOMAIN st : st[k].off = r[2]
    BY <2>1, Targets DEF Leads
  <2> QED
    BY <2>1 DEF Leads
<1>2. \A k : FrameOK(cs, st, k) => FrameOK(cs, tt, k)
  BY <1>1 DEF FrameOK
<1> QED
  BY <1>1, <1>2 DEF Linked

\* A call stays in order when it collects a value, a list or a subkey that is there.
LEMMA FrameUpdates ==
    ASSUME NEW cs, NEW st, NEW k \in KeyType, FrameOK(cs, st, k), NEW off \in Nat
    PROVE  /\ At(cs, off, "vk", FALSE) /\ k.part = "values"
                 => FrameOK(cs, st, WithValue(k, off))
           /\ (k.nvals # 0 => At(cs, off, "list", FALSE)) => FrameOK(cs, st, WithList(k, off))
           /\ At(cs, off, "nk", FALSE) => FrameOK(cs, st, WithSubkey(k, off))
<1>1. LET w == WithValue(k, off)
      IN  /\ w.vks = k.vks \cup {off} /\ w.subs = k.subs /\ w.parent = k.parent
          /\ w.part = k.part
  BY DEF WithValue, KeyType
<1>2. LET w == WithList(k, off)
      IN  /\ w.vks = k.vks /\ w.subs = k.subs /\ w.parent = k.parent /\ w.nvals = k.nvals
          /\ w.list = off
  BY DEF WithList, KeyType
<1>3. LET w == WithSubkey(k, off)
      IN  /\ w.vks = k.vks /\ w.subs = k.subs \cup {off} /\ w.parent = k.parent
          /\ w.nvals = k.nvals /\ w.list = k.list /\ w.part = k.part
  BY DEF WithSubkey, KeyType
<1>4. At(cs, off, "vk", FALSE) /\ k.part = "values" => FrameOK(cs, st, WithValue(k, off))
  <2> DEFINE w == WithValue(k, off)
  <2> HIDE DEF w
  <2>1. w.vks = k.vks \cup {off} /\ w.subs = k.subs /\ w.parent = k.parent /\ w.part = k.part
    BY <1>1 DEF w
  <2>2. At(cs, off, "vk", FALSE) /\ k.part = "values" => FrameOK(cs, st, w)
    BY <2>1 DEF FrameOK
  <2> QED
    BY <2>2 DEF w
<1>5. (k.nvals # 0 => At(cs, off, "list", FALSE)) => FrameOK(cs, st, WithList(k, off))
  <2> DEFINE w == WithList(k, off)
  <2> HIDE DEF w
  <2>1. /\ w.vks = k.vks /\ w.subs = k.subs /\ w.parent = k.parent /\ w.nvals = k.nvals
        /\ w.list = off
    BY <1>2 DEF w
  <2>2. (k.nvals # 0 => At(cs, off, "list", FALSE)) => FrameOK(cs, st, w)
    BY <2>1 DEF FrameOK
  <2> QED
    BY <2>2 DEF w
<1>6. At(cs, off, "nk", FALSE) => FrameOK(cs, st, WithSubkey(k, off))
  <2> DEFINE w == WithSubkey(k, off)
  <2> HIDE DEF w
  <2>1. /\ w.vks = k.vks /\ w.subs = k.subs \cup {off} /\ w.parent = k.parent
        /\ w.nvals = k.nvals /\ w.list = k.list /\ w.part = k.part
    BY <1>3 DEF w
  <2>2. At(cs, off, "nk", FALSE) => FrameOK(cs, st, w)
    BY <2>1 DEF FrameOK
  <2> QED
    BY <2>2 DEF w
<1> QED
  BY <1>4, <1>5, <1>6

\* The innermost call may be updated.
LEMMA LinkTop ==
    ASSUME NEW cs, NEW st \in Seq(KeyType), st # <<>>, NEW orph, Linked(cs, st, orph),
           NEW k \in KeyType, k.off = st[Len(st)].off, FrameOK(cs, st, k)
    PROVE  Linked(cs, [st EXCEPT ![Len(st)] = k], orph)
<1> DEFINE tt == [st EXCEPT ![Len(st)] = k]
<1>1. Len(st) \in DOMAIN st /\ DOMAIN tt = DOMAIN st
  OBVIOUS
<1>2. \A m \in DOMAIN st : tt[m] = IF m = Len(st) THEN k ELSE st[m]
  OBVIOUS
<1> HIDE DEF tt
<1>3. \A m \in DOMAIN st : tt[m].off = st[m].off
  BY <1>2
<1>4. \A m \in DOMAIN tt : FrameOK(cs, st, tt[m])
  BY <1>1, <1>2 DEF Linked
<1>5. Linked(cs, tt, orph)
  BY <1>1, <1>3, <1>4, LinkStack
<1> QED
  BY <1>5 DEF tt

\* A call is opened below the innermost one.
LEMMA LinkOpen ==
    ASSUME NEW cs, NEW st \in Seq(KeyType), NEW orph, Linked(cs, st, orph),
           NEW k \in KeyType, k.vks = {}, k.subs = {}, k.part = "values",
           Leads(cs, st, <<"parent", k.parent>>, FALSE)
    PROVE  Linked(cs, Append(st, k), orph)
<1> DEFINE tt == Append(st, k)
<1>1. /\ DOMAIN st = 1..Len(st) /\ DOMAIN tt = 1..(Len(st) + 1) /\ Len(st) \in Nat
      /\ \A i \in 1..Len(st) : tt[i] = st[i]
      /\ tt[Len(st) + 1] = k
  OBVIOUS
<1> HIDE DEF tt
<1>2. FrameOK(cs, st, k)
  BY DEF FrameOK
<1>3. \A m \in DOMAIN tt : FrameOK(cs, st, tt[m])
  BY <1>1, <1>2 DEF Linked
<1>4. \A m \in DOMAIN st : m \in DOMAIN tt /\ tt[m].off = st[m].off
  BY <1>1
<1>5. Linked(cs, tt, orph)
  BY <1>3, <1>4, LinkStack
<1> QED
  BY <1>5 DEF tt

\* The innermost call is closed once its nk is there, and returns to its caller.
LEMMA LinkReturn ==
    ASSUME NEW cs, NEW st \in Seq(KeyType), st # <<>>, NEW orph, Linked(cs, st, orph),
           At(cs, st[Len(st)].off, "nk", FALSE)
    PROVE  Linked(cs, Returned(SubSeq(st, 1, Len(st) - 1), st[Len(st)].off), orph)
<1> DEFINE N == Len(st)
           rest == SubSeq(st, 1, N - 1)
           off == st[N].off
           tt == Returned(rest, off)
<1>0. N \in Nat /\ 1 <= N /\ DOMAIN st = 1..N /\ \A i \in 1..N : st[i] \in KeyType
  OBVIOUS
<1>1. /\ N \in Nat /\ 1 <= N /\ DOMAIN st = 1..N /\ off \in Nat
      /\ \A i \in 1..N : st[i] \in KeyType
  <2> HIDE DEF N
  <2>1. st[N] \in KeyType
    BY <1>0
  <2> QED
    BY <1>0, <2>1 DEF KeyType
<1>2. rest \in Seq(KeyType) /\ Len(rest) = N - 1 /\ \A i \in 1..(N - 1) : rest[i] = st[i]
  <2>1. rest \in Seq(KeyType) /\ \A i \in 1..(N - 1) : rest[i] = st[i]
    BY <1>0
  <2>2. N - 1 \in Int /\ \A i \in 1..(N - 1) : st[i] \in KeyType
    BY <1>0
  <2> HIDE DEF N
  <2>3. Len(rest) = IF 1 <= N - 1 THEN N - 1 - 1 + 1 ELSE 0
    BY <1>0, <2>2, SubSeqProperties
  <2> QED
    BY <1>0, <2>1, <2>3
<1>3. \A m \in DOMAIN st : FrameOK(cs, st, st[m])
  BY DEF Linked
<1>4. At(cs, off, "nk", FALSE)
  OBVIOUS
<1> HIDE DEF N, rest, off, tt
<1>5. CASE N = 1
  <2>1. rest = <<>>
    BY <1>2, <1>5
  <2>2. tt = <<>>
    BY <2>1 DEF Returned, tt
  <2>3. DOMAIN tt = {}
    BY <2>2
  <2>4. \A m \in DOMAIN st : st[m].off = off
    BY <1>1, <1>5 DEF off
  <2>5. Linked(cs, tt, orph)
    BY <1>4, <2>3, <2>4, LinkStack
  <2> QED
    BY <2>5 DEF tt, rest, off, N
<1>6. CASE N # 1
  <2> DEFINE k == WithSubkey(st[N - 1], off)
  <2>1. rest # <<>> /\ rest[Len(rest)] = st[N - 1] /\ N - 1 \in DOMAIN st
        /\ N - 1 \in DOMAIN rest /\ DOMAIN rest = 1..(N - 1)
    BY <1>1, <1>2, <1>6
  <2>2. tt = [rest EXCEPT ![N - 1] = k]
    BY <1>2, <2>1 DEF Returned, tt
  <2>3. st[N - 1] \in KeyType
    BY <1>1, <2>1
  <2>4. k.off = st[N - 1].off
    BY <1>1, <2>3, KeyUpdates
  <2>5. FrameOK(cs, st, k)
    BY <1>1, <1>3, <1>4, <2>1, <2>3, FrameUpdates
  <2> HIDE DEF k
  <2>6. DOMAIN tt = 1..(N - 1) /\ \A m \in 1..(N - 1) :
           tt[m] = IF m = N - 1 THEN k ELSE st[m]
    BY <1>2, <2>1, <2>2
  <2>7. \A m \in DOMAIN tt : FrameOK(cs, st, tt[m])
    BY <1>1, <1>3, <2>5, <2>6
  <2>8. \A m \in DOMAIN st : (m \in DOMAIN tt /\ tt[m].off = st[m].off) \/ st[m].off = off
    BY <1>1, <2>4, <2>6 DEF off
  <2>9. Linked(cs, tt, orph)
    BY <1>4, <2>7, <2>8, LinkStack
  <2> QED
    BY <2>9 DEF tt, rest, off, N
<1> QED
  BY <1>5, <1>6

\* An orphan's values are collected, and forgotten when the orphan is done.
LEMMA LinkOrphans ==
    ASSUME NEW cs, NEW st, NEW orph \in Seq(Nat), Linked(cs, st, orph), NEW o \in Nat
    PROVE  /\ Linked(cs, st, <<>>)
           /\ At(cs, o, "vk", TRUE) => Linked(cs, st, Append(orph, o))
<1> DEFINE q == Append(orph, o)
<1>1. /\ DOMAIN orph = 1..Len(orph) /\ DOMAIN q = 1..(Len(orph) + 1) /\ Len(orph) \in Nat
      /\ \A i \in 1..Len(orph) : q[i] = orph[i]
      /\ q[Len(orph) + 1] = o
  OBVIOUS
<1> HIDE DEF q
<1>2. ASSUME At(cs, o, "vk", TRUE) PROVE \A i \in DOMAIN q : At(cs, q[i], "vk", TRUE)
  <2>1. \A i \in DOMAIN orph : At(cs, orph[i], "vk", TRUE)
    BY DEF Linked
  <2> TAKE i \in DOMAIN q
  <2>2. (i \in DOMAIN orph /\ q[i] = orph[i]) \/ q[i] = o
    BY <1>1
  <2>3. CASE i \in DOMAIN orph /\ q[i] = orph[i]
    BY <2>1, <2>3, Zenon
  <2>4. CASE q[i] = o
    BY <1>2, <2>4, Zenon
  <2> QED
    BY <2>2, <2>3, <2>4
<1>3. DOMAIN << >> = {}
  OBVIOUS
<1>4. Linked(cs, st, <<>>)
  BY <1>3 DEF Linked
<1>5. At(cs, o, "vk", TRUE) => Linked(cs, st, q)
  BY <1>2 DEF Linked
<1> QED
  BY <1>4, <1>5 DEF q

\* Once no call is open, every reference leads to the one cell that begins there.
LEMMA LinksResolve ==
    ASSUME NEW cs, NEW n, LayoutOK(cs, <<>>, n), NEW orph, Linked(cs, <<>>, orph),
           NEW i \in DOMAIN cs, NEW r \in cs[i].to, r # <<"parent", 0>>
    PROVE  \E j \in DOMAIN cs :
              /\ \A m \in DOMAIN cs : cs[m].off = r[2] => m = j
              /\ cs[j].off = r[2] /\ cs[j].kind = Target[r[1]] /\ cs[j].free = cs[i].free
<1>1. DOMAIN << >> = {}
  OBVIOUS
<1>2. At(cs, r[2], Target[r[1]], cs[i].free)
  BY <1>1 DEF Linked, Leads
<1>3. PICK j \in DOMAIN cs :
         cs[j].off = r[2] /\ cs[j].kind = Target[r[1]] /\ cs[j].free = cs[i].free
  BY <1>2 DEF At
<1>4. ASSUME NEW m \in DOMAIN cs, cs[m].off = r[2], m # j PROVE FALSE
  <2>1. Apart(cs[m], cs[j]) /\ InBin(cs[m], n) /\ InBin(cs[j], n)
    BY <1>4 DEF LayoutOK
  <2>2. /\ cs[m].off \in Nat /\ cs[m].size \in Nat /\ cs[j].size \in Nat
        /\ 0 < cs[m].size /\ 0 < cs[j].size /\ cs[j].off = cs[m].off
    BY <1>3, <1>4, <2>1 DEF InBin
  <2> QED
    BY <2>1, <2>2 DEF Apart
<1> QED
  BY <1>3, <1>4

\* build closes the layout: it is in order and linked up to the end of the bin.
LEMMA BuildCloses ==
    ASSUME LInv, Linked(lay.cells, stack, orphan), NEW xor \in Word, Build(xor)
    PROVE  /\ LayoutOK(lay'.cells, <<>>, HbinSize(lay.next))
           /\ Linked(lay'.cells, <<>>, orphan)
           /\ \/ lay' = lay
              \/ \E c \in CellType : c.kind = "free" /\ c.to = {} /\ c.off = lay.next
                                     /\ lay'.cells = Append(lay.cells, c)
<1> DEFINE hbin == HbinSize(lay.next)
           c == TrailingFree(lay.next, hbin)
<1>1. /\ phase = "orphans" /\ lay' = IF lay.next < hbin THEN Place(lay, c) ELSE lay
  BY DEF Build
<1>2. /\ lay \in LayoutType /\ stack = <<>> /\ LayoutOK(lay.cells, <<>>, lay.next)
      /\ lay.next \in Nat /\ lay.next % 8 = 0 /\ lay.cells \in Seq(CellType)
      /\ Linked(lay.cells, <<>>, orphan)
  BY <1>1 DEF LInv, TypeOK, GoodLayout, LayoutOK
<1>3. hbin \in Nat /\ lay.next <= hbin
  BY <1>2, BinLargeEnough
<1>4. CASE lay.next < hbin
  <2>1. c \in CellType /\ c.off = lay.next /\ 0 < c.size /\ c.size % 8 = 0
        /\ c.size = hbin - lay.next /\ c.to = {} /\ c.kind = "free"
    BY <1>2, <1>4, Trailing DEF TrailingFree
  <2>2. lay.next + c.size = hbin
    BY <1>2, <1>3, <2>1
  <2>3. lay' = [lay EXCEPT !.cells = Append(lay.cells, c)]
    BY <1>1, <1>4 DEF Place
  <2> HIDE DEF c, hbin
  <2>4. lay'.cells = Append(lay.cells, c)
    BY <1>2, <2>3 DEF LayoutType
  <2>5. LayoutOK(Append(lay.cells, c), <<>>, hbin)
    BY <1>2, <2>1, <2>2, AddCell
  <2>6. \A r \in c.to : Leads(Append(lay.cells, c), <<>>, r, c.free)
    BY <2>1
  <2>7. Linked(Append(lay.cells, c), <<>>, orphan)
    BY <1>2, <2>1, <2>6, LinkCell
  <2> QED
    BY <2>1, <2>4, <2>5, <2>7 DEF hbin
<1>5. CASE ~(lay.next < hbin)
  <2>1. lay.next = hbin /\ lay' = lay
    BY <1>1, <1>2, <1>3, <1>5
  <2> QED
    BY <1>2, <2>1
<1> QED
  BY <1>4, <1>5

\* The inductive invariant for references.
RInv == ReferencesResolve /\ (phase # "built" => Linked(lay.cells, stack, orphan))

LEMMA RInvStep == LInv /\ RInv /\ [Next]_vars => RInv'
<1> SUFFICES ASSUME LInv, RInv, [Next]_vars PROVE RInv'
  OBVIOUS
<1>0. /\ lay \in LayoutType /\ stack \in Seq(KeyType) /\ orphan \in Seq(Nat)
      /\ lay.next \in Nat /\ lay.cells \in Seq(CellType)
      /\ phase # "built" => Linked(lay.cells, stack, orphan)
  BY DEF LInv, TypeOK, LayoutType, RInv
<1>t. stack # <<>> => Top \in KeyType /\ Len(stack) \in DOMAIN stack
  BY <1>0 DEF Top
<1>f. stack # <<>> /\ phase # "built" => FrameOK(lay.cells, stack, Top)
  BY <1>0, <1>t DEF Linked, Top
<1>u. ASSUME phase' # "built", Linked(lay'.cells, stack', orphan') PROVE RInv'
  BY <1>u DEF RInv, ReferencesResolve
<1>1. ASSUME NEW name \in NameLen, LayoutRoot(name) PROVE RInv'
  <2> DEFINE k == OpenKey(lay.next, name, 0)
  <2>1. stack = <<>> /\ phase' = "tree" /\ stack' = <<k>> /\ orphan' = orphan
        /\ phase = "root" /\ lay' = Reserve(lay, name)
    BY <1>1 DEF LayoutRoot, LInv, TypeOK
  <2>2. lay'.cells = lay.cells
    BY <1>0, <2>1 DEF Reserve, LayoutType
  <2>3. k \in KeyType /\ k.vks = {} /\ k.subs = {} /\ k.part = "values" /\ k.parent = 0
    BY <1>0 DEF OpenKey, KeyType
  <2> HIDE DEF k
  <2>4. Leads(lay.cells, stack, <<"parent", k.parent>>, FALSE)
    BY <2>3 DEF Leads
  <2>5. Linked(lay.cells, Append(stack, k), orphan)
    BY <1>0, <2>1, <2>3, <2>4, LinkOpen
  <2>6. Append(stack, k) = <<k>>
    BY <2>1
  <2> QED
    BY <1>u, <2>1, <2>2, <2>5, <2>6
<1>2. ASSUME NEW name \in NameLen, NEW len \in DataLen, LayoutValue(name, len) PROVE RInv'
  <2> DEFINE k == WithValue(Top, LastOff(lay'))
  <2>1. stack # <<>> /\ phase = "tree" /\ lay' = EmitValue(lay, name, len, FALSE)
        /\ stack' = [stack EXCEPT ![Len(stack)] = k] /\ phase' = phase /\ orphan' = orphan
        /\ Top.part = "values"
    BY <1>2 DEF LayoutValue, Top
  <2>2. /\ Extends(lay', lay, stack, orphan) /\ At(lay'.cells, LastOff(lay'), "vk", FALSE)
    BY <1>0, <2>1, ValueLinks, LengthAssumption
  <2>3. LastOff(lay') \in Nat
    BY <2>1, ValueKeeps, LengthAssumption DEF LInv
  <2>4. Linked(lay'.cells, stack, orphan)
    BY <2>2 DEF Extends
  <2>5. FrameOK(lay'.cells, stack, Top)
    BY <1>t, <2>1, <2>4 DEF Linked, Top
  <2>6. k \in KeyType /\ k.off = Top.off /\ FrameOK(lay'.cells, stack, k)
    BY <1>t, <2>1, <2>2, <2>3, <2>5, KeyUpdates, FrameUpdates
  <2> HIDE DEF k
  <2>7. Linked(lay'.cells, [stack EXCEPT ![Len(stack)] = k], orphan)
    BY <1>0, <2>1, <2>4, <2>6, LinkTop DEF Top
  <2> QED
    BY <1>u, <2>1, <2>7
<1>3. ASSUME LayoutValueList PROVE RInv'
  <2> DEFINE k == WithList(Top, lay.next)
  <2>1. stack # <<>> /\ phase = "tree" /\ lay' = EmitList(lay, Top.vks, Top.nvals, FALSE)
        /\ stack' = [stack EXCEPT ![Len(stack)] = k] /\ phase' = phase /\ orphan' = orphan
    BY <1>3 DEF LayoutValueList, Top
  <2>2. /\ Top.vks \in SUBSET Nat /\ Top.nvals \in Nat
        /\ \A o \in Top.vks : At(lay.cells, o, "vk", FALSE)
    BY <1>t, <1>f, <2>1 DEF KeyType, FrameOK
  <2>3. /\ Extends(lay', lay, stack, orphan)
        /\ Top.nvals # 0 => At(lay'.cells, lay.next, "list", FALSE)
    BY <1>0, <2>1, <2>2, ListLinks
  <2>4. Linked(lay'.cells, stack, orphan)
    BY <2>3 DEF Extends
  <2>5. FrameOK(lay'.cells, stack, Top)
    BY <1>t, <2>1, <2>4 DEF Linked, Top
  <2>6. k \in KeyType /\ k.off = Top.off /\ FrameOK(lay'.cells, stack, k)
    BY <1>0, <1>t, <2>1, <2>3, <2>5, KeyUpdates, FrameUpdates
  <2> HIDE DEF k
  <2>7. Linked(lay'.cells, [stack EXCEPT ![Len(stack)] = k], orphan)
    BY <1>0, <2>1, <2>4, <2>6, LinkTop DEF Top
  <2> QED
    BY <1>u, <2>1, <2>7
<1>4. ASSUME NEW name \in NameLen, LayoutSubkey(name) PROVE RInv'
  <2> DEFINE k == OpenKey(lay.next, name, Top.off)
  <2>1. stack # <<>> /\ phase = "tree" /\ lay' = Reserve(lay, name)
        /\ stack' = Append(stack, k) /\ phase' = phase /\ orphan' = orphan
    BY <1>4 DEF LayoutSubkey
  <2>2. lay'.cells = lay.cells
    BY <1>0, <2>1 DEF Reserve, LayoutType
  <2>3. Top.off \in Nat
    BY <1>t, <2>1 DEF KeyType
  <2>4. k \in KeyType /\ k.vks = {} /\ k.subs = {} /\ k.part = "values" /\ k.parent = Top.off
    BY <1>0, <2>3 DEF OpenKey, KeyType
  <2> HIDE DEF k
  <2>5. Leads(lay.cells, stack, <<"parent", k.parent>>, FALSE)
    BY <1>t, <2>1, <2>4 DEF Leads, Top
  <2>6. Linked(lay.cells, Append(stack, k), orphan)
    BY <1>0, <2>1, <2>4, <2>5, LinkOpen
  <2> QED
    BY <1>u, <2>1, <2>2, <2>6
<1>5. ASSUME LayoutKeyEnd PROVE RInv'
  <2> DEFINE l == EmitLf(lay, Top.subs, Top.nsubs)
             refs == NkRefs(Top, lay.next)
             c == Cell(Top.off, NK_FIXED + Top.name, "nk", FALSE, refs)
             rest == SubSeq(stack, 1, Len(stack) - 1)
  <2>1. stack # <<>> /\ phase = "tree" /\ Top.part = "subkeys" /\ lay' = Place(l, c)
        /\ stack' = Returned(rest, Top.off) /\ phase' # "built" /\ orphan' = orphan
    BY <1>5 DEF LayoutKeyEnd
  <2>2. /\ Top.subs \in SUBSET Nat /\ Top.nsubs \in Nat /\ Top.off \in Nat
        /\ Top.parent \in Nat /\ Top.list \in Nat /\ Top.name \in NameLen
        /\ \A o \in Top.subs : At(lay.cells, o, "nk", FALSE)
    BY <1>t, <1>f, <2>1 DEF KeyType, FrameOK
  <2>3. /\ Extends(l, lay, stack, orphan)
        /\ Top.nsubs # 0 => At(l.cells, lay.next, "lf", FALSE)
    BY <1>0, <2>1, <2>2, LfLinks
  <2>4. refs \in SUBSET (Role \X Nat)
    BY <1>0, <2>2 DEF NkRefs, RefIf, Role
  <2>5. c \in CellType /\ c.off = Top.off /\ c.kind = "nk" /\ c.free = FALSE /\ c.to = refs
    BY <2>2, <2>4, NkPayload, CellSizes DEF Cell, CellType, CellKind
  <2> HIDE DEF l, c
  <2>6. l \in LayoutType /\ Linked(l.cells, stack, orphan) /\ l.cells \in Seq(CellType)
    BY <2>3 DEF Extends, LayoutType
  <2>7. FrameOK(l.cells, stack, Top)
    BY <1>t, <2>1, <2>6 DEF Linked, Top
  <2>8. \A r \in refs : Leads(l.cells, stack, r, FALSE)
    <3>1. Leads(l.cells, stack, <<"parent", Top.parent>>, FALSE)
      BY <2>7 DEF FrameOK
    <3>2. Top.nsubs # 0 => Leads(l.cells, stack, <<"lf", lay.next>>, FALSE)
      BY <2>3, Targets, LeadsAt
    <3>3. Top.nvals # 0 => Leads(l.cells, stack, <<"list", Top.list>>, FALSE)
      BY <2>1, <2>7, Targets, LeadsAt DEF FrameOK
    <3> QED
      BY <3>1, <3>2, <3>3 DEF NkRefs, RefIf
  <2> DEFINE ds == Append(l.cells, c)
  <2>9. lay'.cells = ds
    <3>1. lay' = [l EXCEPT !.cells = ds]
      BY <2>1 DEF Place
    <3> HIDE DEF ds
    <3> QED
      BY <2>6, <3>1 DEF LayoutType
  <2>10. At(ds, Top.off, "nk", FALSE)
         /\ \A off, kind, free : At(l.cells, off, kind, free) => At(ds, off, kind, free)
    BY <2>5, <2>6, AtAppend
  <2>11. \A r \in c.to : Leads(ds, stack, r, c.free)
    BY <2>5, <2>8, <2>10 DEF Leads
  <2>12. Linked(ds, stack, orphan)
    BY <2>5, <2>6, <2>11, LinkCell
  <2> HIDE DEF ds
  <2>13. Linked(ds, Returned(rest, Top.off), orphan)
    BY <1>0, <2>1, <2>10, <2>12, LinkReturn DEF Top
  <2> QED
    BY <1>u, <2>1, <2>9, <2>13
<1>6. ASSUME NEW name \in NameLen, NEW len \in DataLen, LayoutOrphanValue(name, len)
      PROVE  RInv'
  <2>1. phase = "orphans" /\ lay' = EmitValue(lay, name, len, TRUE)
        /\ orphan' = Append(orphan, LastOff(lay')) /\ stack' = stack /\ phase' = phase
    BY <1>6 DEF LayoutOrphanValue
  <2>2. /\ Extends(lay', lay, stack, orphan) /\ At(lay'.cells, LastOff(lay'), "vk", TRUE)
    BY <1>0, <2>1, ValueLinks, LengthAssumption
  <2>3. LastOff(lay') \in Nat
    BY <2>1, ValueKeeps, LengthAssumption DEF LInv
  <2>4. Linked(lay'.cells, stack, orphan)
    BY <2>2 DEF Extends
  <2>5. Linked(lay'.cells, stack, Append(orphan, LastOff(lay')))
    BY <1>0, <2>2, <2>3, <2>4, LinkOrphans
  <2> QED
    BY <1>u, <2>1, <2>5
<1>7. ASSUME NEW name \in NameLen, LayoutOrphan(name) PROVE RInv'
  <2> DEFINE offs == {orphan[i] : i \in DOMAIN orphan}
             n == Len(orphan)
             l == EmitList(lay, offs, n, TRUE)
             refs == {<<"parent", 0>>} \cup RefIf(n, "list", lay.next)
             p == NK_FIXED + name
  <2>1. phase = "orphans" /\ lay' = Emit(l, p, "nk", TRUE, refs)
        /\ orphan' = <<>> /\ stack' = stack /\ phase' = phase
    BY <1>7 DEF LayoutOrphan
  <2>2. offs \in SUBSET Nat /\ n \in Nat /\ p \in Nat /\ "nk" \in CellKind
    BY <1>0, NkPayload DEF CellKind
  <2>3. \A o \in offs : At(lay.cells, o, "vk", TRUE)
    BY <1>0, <2>1 DEF Linked
  <2> HIDE DEF offs, n
  <2>4. Extends(l, lay, stack, orphan) /\ (n # 0 => At(l.cells, lay.next, "list", TRUE))
    BY <1>0, <2>1, <2>2, <2>3, ListLinks
  <2>5. refs \in SUBSET (Role \X Nat)
    BY <1>0 DEF RefIf, Role
  <2> HIDE DEF l, p
  <2>6. l \in LayoutType /\ Linked(l.cells, stack, orphan)
    BY <2>4 DEF Extends
  <2>7. \A r \in refs : Leads(l.cells, stack, r, TRUE)
    <3>1. n # 0 => Leads(l.cells, stack, <<"list", lay.next>>, TRUE)
      BY <2>4, Targets, LeadsAt
    <3>2. Leads(l.cells, stack, <<"parent", 0>>, TRUE)
      BY DEF Leads
    <3> QED
      BY <3>1, <3>2 DEF RefIf
  <2> HIDE DEF refs
  <2>8. Extends(lay', l, stack, orphan)
    BY <2>1, <2>2, <2>5, <2>6, <2>7, EmitLinks, ZenonT(30)
  <2>9. Linked(lay'.cells, stack, <<>>)
    BY <1>0, <2>8, LinkOrphans DEF Extends
  <2> QED
    BY <1>u, <2>1, <2>9
<1>8. ASSUME NEW xor \in Word, Build(xor) PROVE RInv'
  <2> DEFINE cs == lay'.cells
  <2>1. phase = "orphans" /\ phase' = "built"
    BY <1>8 DEF Build
  <2>2. LayoutOK(cs, <<>>, HbinSize(lay.next)) /\ Linked(cs, <<>>, orphan)
    BY <1>0, <1>8, <2>1, BuildCloses
  <2> HIDE DEF cs
  <2>3. \A i \in DOMAIN cs : \A r \in cs[i].to : r # <<"parent", 0>> =>
          \E j \in DOMAIN cs :
              /\ \A m \in DOMAIN cs : cs[m].off = r[2] => m = j
              /\ cs[j].off = r[2] /\ cs[j].kind = Target[r[1]] /\ cs[j].free = cs[i].free
    BY <2>2, LinksResolve
  <2>4. ASSUME NEW i \in DOMAIN cs, NEW r \in cs[i].to, r # <<"parent", 0>>
        PROVE  \E j \in {m \in DOMAIN cs : cs[m].off = r[2]} :
                  /\ {m \in DOMAIN cs : cs[m].off = r[2]} = {j}
                  /\ cs[j].kind = Target[r[1]] /\ cs[j].free = cs[i].free
    <3>1. PICK j \in DOMAIN cs :
              /\ \A m \in DOMAIN cs : cs[m].off = r[2] => m = j
              /\ cs[j].off = r[2] /\ cs[j].kind = Target[r[1]] /\ cs[j].free = cs[i].free
      BY <2>3, <2>4
    <3>2. {m \in DOMAIN cs : cs[m].off = r[2]} = {j}
      BY <3>1
    <3> QED
      BY <3>1, <3>2
  <2>5. ReferencesResolve'
    BY <2>4, Zenon DEF ReferencesResolve, CellAt, cs
  <2> QED
    BY <2>1, <2>5 DEF RInv
<1>9. CASE UNCHANGED vars
  BY <1>9 DEF RInv, ReferencesResolve, CellAt, vars
<1> QED
  BY <1>1, <1>2, <1>3, <1>4, <1>5, <1>6, <1>7, <1>8, <1>9 DEF Next

LEMMA RInvInit == Init => RInv
<1> SUFFICES ASSUME Init PROVE RInv
  OBVIOUS
<1>1. lay.cells = <<>> /\ stack = <<>> /\ orphan = <<>> /\ phase = "root"
  BY DEF Init
<1>2. DOMAIN << >> = {}
  OBVIOUS
<1> QED
  BY <1>1, <1>2 DEF RInv, Linked, ReferencesResolve

\* In every image every reference, but for the parent 0 of the root and of orphans,
\* leads to the start of one cell of the right kind, and never from a live cell to
\* a free one or back.
THEOREM ReferencesLead == Spec => []ReferencesResolve
<1>1. RInv => ReferencesResolve
  BY DEF RInv
<1> QED
  BY <1>1, LInvInit, LInvStep, RInvInit, RInvStep, PTL DEF Spec

-----------------------------------------------------------------------------
(* The tree of live keys.  A key that has been placed is named by no list  *)
(* while its parent is open, which has collected it (Waiting); when the    *)
(* parent is placed its lf list names all of them at once (Owned).         *)

Names(cs, o) == {j \in DOMAIN cs : <<"nk", o>> \in cs[j].to}

Owned(cs, c) ==
    \E j, p \in DOMAIN cs :
        /\ Names(cs, c.off) = {j}
        /\ <<"lf", cs[j].off>> \in cs[p].to /\ <<"parent", cs[p].off>> \in c.to

Waiting(cs, st, c) ==
    /\ Names(cs, c.off) = {}
    /\ \E k \in DOMAIN st : c.off \in st[k].subs /\ <<"parent", st[k].off>> \in c.to

\* A live key is the root, or has a place in the tree.
Placed(cs, st, c) ==
    c.kind = "nk" /\ c.free = FALSE =>
        IF c.off = FIRST_CELL_REL THEN Names(cs, c.off) = {}
        ELSE Owned(cs, c) \/ Waiting(cs, st, c)

\* Call k of the calls open, the root's at the bottom.
Pending(cs, st, k) ==
    /\ Names(cs, st[k].off) = {} /\ \A o \in st[k].subs : Names(cs, o) = {}
    /\ st[k].subs # {} => st[k].nsubs # 0
    /\ IF k = 1 THEN st[k].off = FIRST_CELL_REL
       ELSE st[k].off # FIRST_CELL_REL /\ st[k].parent = st[k - 1].off

Tree(cs, st) ==
    /\ \A i \in DOMAIN cs : Placed(cs, st, cs[i])
    /\ \A k \in DOMAIN st : Pending(cs, st, k)
    /\ \A k, m \in DOMAIN st : k # m => st[k].subs \cap st[m].subs = {}

\* A cell that is no live key and names none changes nothing in the tree.
LEMMA TreeCell ==
    ASSUME NEW cs \in Seq(CellType), NEW st, Tree(cs, st), NEW c \in CellType,
           \A o : <<"nk", o>> \notin c.to, ~(c.kind = "nk" /\ c.free = FALSE)
    PROVE  Tree(Append(cs, c), st)
<1> DEFINE ds == Append(cs, c)
<1>1. /\ DOMAIN cs = 1..Len(cs) /\ DOMAIN ds = 1..(Len(cs) + 1) /\ Len(cs) \in Nat
      /\ \A i \in 1..Len(cs) : ds[i] = cs[i]
      /\ ds[Len(cs) + 1] = c
  OBVIOUS
<1> HIDE DEF ds
<1>2. \A i : i \in DOMAIN ds <=> i \in DOMAIN cs \/ i = Len(cs) + 1
  BY <1>1
<1>3. \A o : Names(ds, o) = Names(cs, o)
  BY <1>1, <1>2 DEF Names
<1>4. ASSUME NEW i \in DOMAIN cs PROVE Placed(ds, st, cs[i])
  <2>1. Placed(cs, st, cs[i])
    BY <1>4 DEF Tree
  <2>2. ASSUME Owned(cs, cs[i]) PROVE Owned(ds, cs[i])
    <3>1. PICK j \in DOMAIN cs, q \in DOMAIN cs :
             /\ Names(cs, cs[i].off) = {j}
             /\ <<"lf", cs[j].off>> \in cs[q].to /\ <<"parent", cs[q].off>> \in cs[i].to
      BY <2>2 DEF Owned
    <3>2. j \in DOMAIN ds /\ q \in DOMAIN ds /\ ds[j] = cs[j] /\ ds[q] = cs[q]
      BY <1>1, <1>2
    <3> QED
      BY <1>3, <3>1, <3>2 DEF Owned
  <2>3. Waiting(cs, st, cs[i]) => Waiting(ds, st, cs[i])
    BY <1>3 DEF Waiting
  <2> QED
    BY <1>3, <2>1, <2>2, <2>3 DEF Placed
<1>5. \A i \in DOMAIN ds : Placed(ds, st, ds[i])
  <2> TAKE i \in DOMAIN ds
  <2>1. CASE i \in DOMAIN cs
    BY <1>1, <1>4, <2>1
  <2>2. CASE i = Len(cs) + 1
    BY <1>1, <2>2 DEF Placed
  <2> QED
    BY <1>2, <2>1, <2>2
<1>6. \A k \in DOMAIN st : Pending(ds, st, k)
  BY <1>3 DEF Tree, Pending
<1>7. Tree(ds, st)
  BY <1>5, <1>6 DEF Tree
<1> QED
  BY <1>7 DEF ds

\* emit, for such a cell.
LEMMA TreeEmit ==
    ASSUME NEW l \in LayoutType, NEW st, Tree(l.cells, st), NEW p \in Nat,
           NEW kind \in CellKind, NEW free \in BOOLEAN, NEW to \in SUBSET (Role \X Nat),
           \A o : <<"nk", o>> \notin to, ~(kind = "nk" /\ free = FALSE)
    PROVE  LET e == Emit(l, p, kind, free, to)
           IN  e \in LayoutType /\ Tree(e.cells, st)
<1> DEFINE c == Cell(l.next, p, kind, free, to)
           e == Emit(l, p, kind, free, to)
<1>1. l.cells \in Seq(CellType) /\ l.next \in Nat
  BY DEF LayoutType
<1>2. /\ c \in CellType /\ c.size = CellSize(p) /\ c.size \in Nat
      /\ c.kind = kind /\ c.free = free /\ c.to = to
  BY <1>1, CellSizes DEF Cell, CellType
<1>3. e = [cells |-> Append(l.cells, c), next |-> l.next + c.size]
  BY <1>2 DEF Emit
<1> HIDE DEF c, e
<1>4. e.cells = Append(l.cells, c)
  BY <1>3
<1>5. Append(l.cells, c) \in Seq(CellType) /\ l.next + c.size \in Nat
  BY <1>1, <1>2
<1>6. e \in LayoutType
  BY <1>3, <1>5 DEF LayoutType
<1>7. Tree(e.cells, st)
  <2>1. c \in CellType /\ (\A o : <<"nk", o>> \notin c.to) /\ ~(c.kind = "nk" /\ c.free = FALSE)
    BY <1>2
  <2>2. Tree(Append(l.cells, c), st)
    BY <1>1, <2>1, TreeCell
  <2> QED
    BY <1>4, <2>2
<1> QED
  BY <1>6, <1>7 DEF e

\* layout_value and the value list.
LEMMA TreeValues ==
    ASSUME NEW l \in LayoutType, NEW st, Tree(l.cells, st), NEW name \in Nat,
           NEW len \in Nat, NEW free \in BOOLEAN, NEW vks \in SUBSET Nat, NEW n \in Nat
    PROVE  /\ Tree(EmitValue(l, name, len, free).cells, st)
           /\ EmitList(l, vks, n, free) \in LayoutType
           /\ Tree(EmitList(l, vks, n, free).cells, st)
<1> DEFINE p == VK_FIXED + name
           q == 4 * n
           d == Emit(l, len, "data", free, {})
           dref == {<<"data", l.next>>}
           vrefs == {<<"vk", o>> : o \in vks}
<1>0. /\ p \in Nat /\ q \in Nat /\ l.next \in Nat
      /\ "vk" \in CellKind /\ "data" \in CellKind /\ "list" \in CellKind
      /\ {} \in SUBSET (Role \X Nat) /\ \A o : <<"nk", o>> \notin {}
  BY DEF VK_FIXED, CellKind, LayoutType
<1>1. dref \in SUBSET (Role \X Nat) /\ \A o : <<"nk", o>> \notin dref
  BY <1>0 DEF Role
<1>2. vrefs \in SUBSET (Role \X Nat) /\ \A o : <<"nk", o>> \notin vrefs
  BY DEF Role
<1>3. EmitValue(l, name, len, free)
        = IF len <= 4 THEN Emit(l, p, "vk", free, {}) ELSE Emit(d, p, "vk", free, dref)
  BY DEF EmitValue
<1>4. EmitList(l, vks, n, free) = IF n = 0 THEN l ELSE Emit(l, q, "list", free, vrefs)
  BY DEF EmitList
<1> HIDE DEF p, q, dref, vrefs
<1>5. Tree(Emit(l, p, "vk", free, {}).cells, st)
  BY <1>0, TreeEmit
<1>6. d \in LayoutType /\ Tree(d.cells, st)
  BY <1>0, TreeEmit
<1> HIDE DEF d
<1>7. Tree(Emit(d, p, "vk", free, dref).cells, st)
  BY <1>0, <1>1, <1>6, TreeEmit
<1>8. /\ Emit(l, q, "list", free, vrefs) \in LayoutType
      /\ Tree(Emit(l, q, "list", free, vrefs).cells, st)
  BY <1>0, <1>2, TreeEmit
<1> QED
  BY <1>3, <1>4, <1>5, <1>7, <1>8

\* Collecting values changes nothing in the tree.
LEMMA TreeSame ==
    ASSUME NEW cs, NEW st \in Seq(KeyType), st # <<>>, Tree(cs, st), NEW k \in KeyType,
           k.off = st[Len(st)].off, k.parent = st[Len(st)].parent,
           k.subs = st[Len(st)].subs, k.nsubs = st[Len(st)].nsubs
    PROVE  Tree(cs, [st EXCEPT ![Len(st)] = k])
<1> DEFINE tt == [st EXCEPT ![Len(st)] = k]
<1>1. Len(st) \in DOMAIN st /\ DOMAIN tt = DOMAIN st /\ DOMAIN st = 1..Len(st)
      /\ Len(st) \in Nat
  OBVIOUS
<1>2. \A m \in DOMAIN st : tt[m] = IF m = Len(st) THEN k ELSE st[m]
  OBVIOUS
<1> HIDE DEF tt
<1>3. \A m \in DOMAIN st : /\ tt[m].off = st[m].off /\ tt[m].parent = st[m].parent
                           /\ tt[m].subs = st[m].subs /\ tt[m].nsubs = st[m].nsubs
  BY <1>2
<1>4. \A c : Waiting(cs, st, c) => Waiting(cs, tt, c)
  BY <1>1, <1>3 DEF Waiting
<1>5. \A i \in DOMAIN cs : Placed(cs, tt, cs[i])
  BY <1>4 DEF Tree, Placed
<1>6. ASSUME NEW m \in DOMAIN st PROVE Pending(cs, tt, m)
  <2>1. Pending(cs, st, m)
    BY DEF Tree
  <2>2. m # 1 => m - 1 \in DOMAIN st
    BY <1>1
  <2> QED
    BY <1>3, <2>1, <2>2 DEF Pending
<1>7. Tree(cs, tt)
  BY <1>1, <1>3, <1>5, <1>6 DEF Tree
<1> QED
  BY <1>7 DEF tt

\* A call is opened for a place that nothing names yet.
LEMMA TreeOpen ==
    ASSUME NEW cs, NEW st \in Seq(KeyType), Tree(cs, st), NEW k \in KeyType, k.subs = {},
           Names(cs, k.off) = {},
           IF st = <<>> THEN k.off = FIRST_CELL_REL
           ELSE k.off # FIRST_CELL_REL /\ k.parent = st[Len(st)].off
    PROVE  Tree(cs, Append(st, k))
<1> DEFINE tt == Append(st, k)
<1>1. /\ DOMAIN st = 1..Len(st) /\ DOMAIN tt = 1..(Len(st) + 1) /\ Len(st) \in Nat
      /\ \A i \in 1..Len(st) : tt[i] = st[i]
      /\ tt[Len(st) + 1] = k
      /\ st = <<>> <=> Len(st) = 0
  OBVIOUS
<1> HIDE DEF tt
<1>2. \A c : Waiting(cs, st, c) => Waiting(cs, tt, c)
  <2>1. \A m \in DOMAIN st : m \in DOMAIN tt /\ tt[m] = st[m]
    BY <1>1
  <2> QED
    BY <2>1, Zenon DEF Waiting
<1>3. \A i \in DOMAIN cs : Placed(cs, tt, cs[i])
  BY <1>2 DEF Tree, Placed
<1>4. \A m \in DOMAIN tt : Pending(cs, tt, m)
  <2> TAKE m \in DOMAIN tt
  <2>1. CASE m \in DOMAIN st
    <3>1. Pending(cs, st, m) /\ tt[m] = st[m] /\ (m # 1 => tt[m - 1] = st[m - 1])
      BY <1>1, <2>1 DEF Tree
    <3> QED
      BY <3>1 DEF Pending
  <2>2. CASE m = Len(st) + 1
    <3>1. tt[m] = k /\ (m # 1 => tt[m - 1] = st[Len(st)]) /\ (m = 1 <=> st = <<>>)
      BY <1>1, <2>2
    <3> QED
      BY <3>1 DEF Pending
  <2> QED
    BY <1>1, <2>1, <2>2
<1>5. \A m, q \in DOMAIN tt : m # q => tt[m].subs \cap tt[q].subs = {}
  BY <1>1 DEF Tree
<1>6. Tree(cs, tt)
  BY <1>3, <1>4, <1>5 DEF Tree
<1> QED
  BY <1>6 DEF tt

\* The innermost call ends: ds is the cells cs, the list of its subkeys if there
\* are any, and its own nk at q.
Closes(cs, top, ds, q) ==
    /\ q \in DOMAIN ds
    /\ \A i \in DOMAIN cs : i \in DOMAIN ds /\ ds[i] = cs[i]
    /\ \A i \in DOMAIN ds : i \in DOMAIN cs \/ i = q \/ ds[i].kind # "nk"
    /\ ds[q].off = top.off /\ <<"parent", top.parent>> \in ds[q].to
    /\ \A o : o \notin top.subs => Names(ds, o) = Names(cs, o)
    /\ \A o \in top.subs : \E j \in DOMAIN ds :
           Names(ds, o) = {j} /\ <<"lf", ds[j].off>> \in ds[q].to

\* Its caller collects it, and the tree is in order.
LEMMA TreeClose ==
    ASSUME NEW cs, NEW st \in Seq(KeyType), st # <<>>, Tree(cs, st),
           \A k, m \in DOMAIN st : st[k].off \notin st[m].subs,
           NEW ds, NEW q, Closes(cs, st[Len(st)], ds, q)
    PROVE  Tree(ds, Returned(SubSeq(st, 1, Len(st) - 1), st[Len(st)].off))
<1> DEFINE N == Len(st)
           rest == SubSeq(st, 1, N - 1)
           top == st[N]
           tt == Returned(rest, top.off)
<1>0. N \in Nat /\ 1 <= N /\ DOMAIN st = 1..N /\ \A i \in 1..N : st[i] \in KeyType
  OBVIOUS
<1>1. rest \in Seq(KeyType) /\ Len(rest) = N - 1 /\ \A i \in 1..(N - 1) : rest[i] = st[i]
  <2>1. rest \in Seq(KeyType) /\ \A i \in 1..(N - 1) : rest[i] = st[i]
    BY <1>0
  <2>2. N - 1 \in Int /\ \A i \in 1..(N - 1) : st[i] \in KeyType
    BY <1>0
  <2> HIDE DEF N
  <2>3. Len(rest) = IF 1 <= N - 1 THEN N - 1 - 1 + 1 ELSE 0
    BY <1>0, <2>2, SubSeqProperties
  <2> QED
    BY <1>0, <2>1, <2>3
<1>2. /\ q \in DOMAIN ds
      /\ \A i \in DOMAIN cs : i \in DOMAIN ds /\ ds[i] = cs[i]
      /\ ds[q].off = top.off /\ <<"parent", top.parent>> \in ds[q].to
      /\ \A o : o \notin top.subs => Names(ds, o) = Names(cs, o)
      /\ \A o \in top.subs : \E j \in DOMAIN ds :
             Names(ds, o) = {j} /\ <<"lf", ds[j].off>> \in ds[q].to
  BY DEF Closes
<1>3. N \in DOMAIN st /\ Pending(cs, st, N) /\ top \in KeyType
  BY <1>0 DEF Tree
<1> HIDE DEF N, rest, tt
<1>d. DOMAIN tt = 1..(N - 1)
  <2>1. CASE N = 1
    <3>1. rest = <<>>
      BY <1>1, <2>1
    <3>2. tt = <<>>
      BY <3>1 DEF Returned, tt
    <3> QED
      BY <2>1, <3>2
  <2>2. CASE N # 1
    BY <1>0, <1>1, <2>2 DEF Returned, tt
  <2> QED
    BY <2>1, <2>2
<1>4. /\ DOMAIN tt = 1..(N - 1)
      /\ \A m \in 1..(N - 1) :
            /\ tt[m].off = st[m].off /\ tt[m].parent = st[m].parent
            /\ tt[m].subs = IF m = N - 1 THEN st[m].subs \cup {top.off} ELSE st[m].subs
            /\ m = N - 1 => tt[m].nsubs # 0
            /\ m # N - 1 => tt[m].nsubs = st[m].nsubs
  <2> SUFFICES ASSUME NEW m \in 1..(N - 1)
               PROVE  /\ tt[m].off = st[m].off /\ tt[m].parent = st[m].parent
                      /\ tt[m].subs = IF m = N - 1 THEN st[m].subs \cup {top.off}
                                      ELSE st[m].subs
                      /\ m = N - 1 => tt[m].nsubs # 0
                      /\ m # N - 1 => tt[m].nsubs = st[m].nsubs
    BY <1>d
  <2>2. N # 1
    BY <1>0
  <2> QED
    <3> DEFINE k == WithSubkey(st[N - 1], top.off)
    <3>1. rest # <<>> /\ rest[Len(rest)] = st[N - 1] /\ N - 1 \in DOMAIN rest
          /\ DOMAIN rest = 1..(N - 1) /\ st[N - 1] \in KeyType
      BY <1>0, <1>1, <2>2
    <3>2. tt = [rest EXCEPT ![N - 1] = k]
      BY <1>1, <3>1 DEF Returned, tt
    <3>3. /\ k.off = st[N - 1].off /\ k.parent = st[N - 1].parent
          /\ k.subs = st[N - 1].subs \cup {top.off} /\ k.nsubs = st[N - 1].nsubs + 1
          /\ st[N - 1].nsubs \in Nat
      BY <3>1 DEF WithSubkey, KeyType
    <3> HIDE DEF k
    <3>4. DOMAIN tt = 1..(N - 1) /\ \A mm \in 1..(N - 1) :
             tt[mm] = IF mm = N - 1 THEN k ELSE st[mm]
      BY <1>1, <3>1, <3>2
    <3>5. k.nsubs # 0
      BY <3>3
    <3>6. CASE m = N - 1
      BY <3>3, <3>4, <3>5, <3>6
    <3>7. CASE m # N - 1
      BY <3>4, <3>7
    <3> QED
      BY <3>6, <3>7
<1>5. \A m \in 1..(N - 1) : m \in DOMAIN st /\ m # N
  BY <1>0
<1>6. \A m \in DOMAIN st : st[m].off \notin top.subs /\ top.off \notin st[m].subs
  BY <1>3
<1>7. \A m \in 1..(N - 1) : st[m].subs \cap top.subs = {}
  BY <1>3, <1>5 DEF Tree
<1>8. Names(ds, top.off) = {}
  BY <1>2, <1>3, <1>6 DEF Pending
<1>9. FIRST_CELL_REL \notin top.subs
  BY <1>0, <1>6 DEF Tree, Pending
<1>10. ASSUME NEW i \in DOMAIN cs PROVE Placed(ds, tt, cs[i])
  <2> SUFFICES ASSUME cs[i].kind = "nk", cs[i].free = FALSE PROVE Placed(ds, tt, cs[i])
    BY DEF Placed
  <2>0. Placed(cs, st, cs[i])
    BY DEF Tree
  <2>1. CASE cs[i].off = FIRST_CELL_REL
    BY <1>2, <1>9, <2>0, <2>1 DEF Placed
  <2>2. CASE Owned(cs, cs[i]) /\ cs[i].off # FIRST_CELL_REL
    <3>1. PICK j \in DOMAIN cs, p \in DOMAIN cs :
             /\ Names(cs, cs[i].off) = {j}
             /\ <<"lf", cs[j].off>> \in cs[p].to /\ <<"parent", cs[p].off>> \in cs[i].to
      BY <2>2 DEF Owned
    <3>2. cs[i].off \notin top.subs
      BY <1>3, <3>1 DEF Pending
    <3>3. Names(ds, cs[i].off) = {j}
      BY <1>2, <3>1, <3>2
    <3>4. j \in DOMAIN ds /\ p \in DOMAIN ds /\ ds[j] = cs[j] /\ ds[p] = cs[p]
      BY <1>2
    <3> QED
      BY <2>2, <3>1, <3>3, <3>4 DEF Placed, Owned
  <2>3. CASE Waiting(cs, st, cs[i]) /\ cs[i].off # FIRST_CELL_REL
    <3>1. PICK k \in DOMAIN st :
             cs[i].off \in st[k].subs /\ <<"parent", st[k].off>> \in cs[i].to
      BY <2>3 DEF Waiting
    <3>2. CASE k = N
      <4>1. PICK j \in DOMAIN ds :
               Names(ds, cs[i].off) = {j} /\ <<"lf", ds[j].off>> \in ds[q].to
        BY <1>2, <3>1, <3>2
      <4>2. <<"parent", ds[q].off>> \in cs[i].to
        BY <1>2, <3>1, <3>2
      <4> QED
        BY <1>2, <2>3, <4>1, <4>2 DEF Placed, Owned
    <3>3. CASE k # N
      <4>1. k \in 1..(N - 1)
        BY <1>0, <3>3
      <4>2. Names(ds, cs[i].off) = {}
        BY <1>2, <1>7, <2>3, <3>1, <4>1 DEF Waiting
      <4>3. k \in DOMAIN tt /\ cs[i].off \in tt[k].subs /\ tt[k].off = st[k].off
        BY <1>4, <3>1, <4>1
      <4> QED
        BY <2>3, <3>1, <4>2, <4>3 DEF Placed, Waiting
    <3> QED
      BY <3>2, <3>3
  <2> QED
    BY <2>0, <2>1, <2>2, <2>3 DEF Placed
<1>11. Placed(ds, tt, ds[q])
  <2>1. CASE N = 1
    <3>1. ds[q].off = FIRST_CELL_REL
      BY <1>2, <1>3, <2>1 DEF Pending
    <3> QED
      BY <1>2, <1>8, <3>1 DEF Placed
  <2>2. CASE N # 1
    <3>1. N - 1 \in DOMAIN tt /\ N - 1 \in 1..(N - 1)
      BY <1>0, <1>4, <2>2
    <3>2. /\ ds[q].off # FIRST_CELL_REL /\ top.parent = st[N - 1].off
      BY <1>2, <1>3, <2>2 DEF Pending
    <3>3. ds[q].off \in tt[N - 1].subs /\ <<"parent", tt[N - 1].off>> \in ds[q].to
      BY <1>2, <1>4, <3>1, <3>2
    <3> QED
      BY <1>2, <1>8, <3>1, <3>2, <3>3 DEF Placed, Waiting
  <2> QED
    BY <2>1, <2>2
<1>12. \A i \in DOMAIN ds : Placed(ds, tt, ds[i])
  <2> TAKE i \in DOMAIN ds
  <2>1. CASE i \in DOMAIN cs
    BY <1>2, <1>10, <2>1
  <2>2. CASE i = q
    BY <1>11, <2>2
  <2>3. CASE ds[i].kind # "nk"
    BY <2>3 DEF Placed
  <2> QED
    BY <2>1, <2>2, <2>3 DEF Closes
<1>13. \A k \in DOMAIN tt : Pending(ds, tt, k)
  <2> TAKE k \in DOMAIN tt
  <2>1. k \in 1..(N - 1) /\ Pending(cs, st, k)
    BY <1>4, <1>5 DEF Tree
  <2>2. Names(ds, tt[k].off) = {}
    BY <1>2, <1>4, <1>5, <1>6, <2>1 DEF Pending
  <2>3. \A o \in tt[k].subs : Names(ds, o) = {}
    <3>1. \A o \in st[k].subs : Names(cs, o) = {} /\ o \notin top.subs
      BY <1>7, <2>1 DEF Pending
    <3>2. \A o \in st[k].subs : Names(ds, o) = {}
      BY <1>2, <3>1
    <3>3. \A o \in tt[k].subs : o \in st[k].subs \/ o = top.off
      BY <1>4, <2>1
    <3> QED
      BY <1>8, <3>2, <3>3
  <2>4. tt[k].subs # {} => tt[k].nsubs # 0
    BY <1>4, <2>1 DEF Pending
  <2>5. k # 1 => tt[k - 1].off = st[k - 1].off
    <3>1. k # 1 => k - 1 \in 1..(N - 1)
      BY <1>0, <2>1
    <3> QED
      BY <1>4, <3>1
  <2> QED
    BY <1>4, <2>1, <2>2, <2>3, <2>4, <2>5 DEF Pending
<1>14. \A k, m \in DOMAIN tt : k # m => tt[k].subs \cap tt[m].subs = {}
  <2> TAKE k, m \in DOMAIN tt
  <2>1. k \in 1..(N - 1) /\ m \in 1..(N - 1) /\ k \in DOMAIN st /\ m \in DOMAIN st
    BY <1>4, <1>5
  <2>2. k # m => st[k].subs \cap st[m].subs = {}
    BY <2>1 DEF Tree
  <2> QED
    BY <1>4, <1>6, <2>1, <2>2
<1>15. Tree(ds, tt)
  BY <1>12, <1>13, <1>14 DEF Tree
<1> QED
  BY <1>15 DEF tt, rest, N

\* No list names the cursor, and no open key is among the subkeys collected.
LEMMA NothingAhead ==
    ASSUME NEW cs, NEW st, NEW n, LayoutOK(cs, st, n), NEW orph, Linked(cs, st, orph)
    PROVE  /\ Names(cs, n) = {}
           /\ \A k, m \in DOMAIN st : st[k].off \notin st[m].subs
<1>1. ASSUME NEW j \in DOMAIN cs, <<"nk", n>> \in cs[j].to PROVE FALSE
  <2>1. Leads(cs, st, <<"nk", n>>, cs[j].free)
    BY <1>1 DEF Linked
  <2>2. At(cs, n, Target["nk"], cs[j].free)
    BY <2>1 DEF Leads
  <2>3. PICK i \in DOMAIN cs : cs[i].off = n
    BY <2>2 DEF At
  <2>4. InBin(cs[i], n)
    BY DEF LayoutOK
  <2> QED
    BY <2>3, <2>4 DEF InBin
<1>2. ASSUME NEW k \in DOMAIN st, NEW m \in DOMAIN st, st[k].off \in st[m].subs PROVE FALSE
  <2>1. At(cs, st[k].off, "nk", FALSE)
    BY <1>2 DEF Linked, FrameOK
  <2>2. PICK i \in DOMAIN cs : cs[i].off = st[k].off
    BY <2>1 DEF At
  <2>3. InBin(cs[i], n) /\ InBin(Reserved(st[k]), n) /\ Apart(cs[i], Reserved(st[k]))
    BY DEF LayoutOK
  <2>4. Reserved(st[k]).off = cs[i].off
    BY <2>2 DEF Reserved
  <2> DEFINE r == Reserved(st[k])
  <2> HIDE DEF r
  <2>5. InBin(cs[i], n) /\ InBin(r, n) /\ Apart(cs[i], r) /\ r.off = cs[i].off
    BY <2>3, <2>4 DEF r
  <2> QED
    BY <2>5 DEF InBin, Apart
<1> QED
  BY <1>1, <1>2 DEF Names

\* The inductive invariant for the tree.
TInv ==
    /\ OneTree
    /\ phase = "root" => lay.next = FIRST_CELL_REL
    /\ phase # "built" => Tree(lay.cells, stack)

LEMMA TInvStep == LInv /\ RInv /\ TInv /\ [Next]_vars => TInv'
<1> SUFFICES ASSUME LInv, RInv, TInv, [Next]_vars PROVE TInv'
  OBVIOUS
<1>0. /\ lay \in LayoutType /\ stack \in Seq(KeyType) /\ orphan \in Seq(Nat)
      /\ lay.next \in Nat /\ lay.cells \in Seq(CellType)
      /\ phase # "built" => /\ LayoutOK(lay.cells, stack, lay.next)
                            /\ Linked(lay.cells, stack, orphan)
                            /\ Tree(lay.cells, stack)
  BY DEF LInv, TypeOK, LayoutType, GoodLayout, RInv, TInv
<1>t. stack # <<>> => Top \in KeyType /\ Len(stack) \in DOMAIN stack
  BY <1>0 DEF Top
<1>n. phase # "built" => /\ Names(lay.cells, lay.next) = {}
                         /\ \A k, m \in DOMAIN stack : stack[k].off \notin stack[m].subs
  BY <1>0, NothingAhead
<1>u. ASSUME phase' \in {"tree", "orphans"}, Tree(lay'.cells, stack') PROVE TInv'
  BY <1>u DEF TInv, OneTree
<1>1. ASSUME NEW name \in NameLen, LayoutRoot(name) PROVE TInv'
  <2> DEFINE k == OpenKey(lay.next, name, 0)
  <2>1. stack = <<>> /\ phase' = "tree" /\ stack' = <<k>> /\ phase = "root"
        /\ lay' = Reserve(lay, name)
    BY <1>1 DEF LayoutRoot, LInv, TypeOK
  <2>2. lay'.cells = lay.cells
    BY <1>0, <2>1 DEF Reserve, LayoutType
  <2>3. k \in KeyType /\ k.subs = {} /\ k.off = lay.next
    BY <1>0 DEF OpenKey, KeyType
  <2>4. lay.next = FIRST_CELL_REL
    BY <2>1 DEF TInv
  <2> HIDE DEF k
  <2>5. Tree(lay.cells, Append(stack, k))
    BY <1>0, <1>n, <2>1, <2>3, <2>4, TreeOpen
  <2>6. Append(stack, k) = <<k>>
    BY <2>1
  <2> QED
    BY <1>u, <2>1, <2>2, <2>5, <2>6
<1>2. ASSUME NEW name \in NameLen, NEW len \in DataLen, LayoutValue(name, len) PROVE TInv'
  <2> DEFINE k == WithValue(Top, LastOff(lay'))
  <2>1. stack # <<>> /\ phase = "tree" /\ lay' = EmitValue(lay, name, len, FALSE)
        /\ stack' = [stack EXCEPT ![Len(stack)] = k] /\ phase' = phase
    BY <1>2 DEF LayoutValue, Top
  <2>2. Tree(lay'.cells, stack)
    BY <1>0, <2>1, TreeValues, LengthAssumption
  <2>3. LastOff(lay') \in Nat
    BY <2>1, ValueKeeps, LengthAssumption DEF LInv
  <2>4. k \in KeyType /\ k.off = Top.off
    BY <1>t, <2>1, <2>3, KeyUpdates
  <2>5. k.parent = Top.parent /\ k.subs = Top.subs /\ k.nsubs = Top.nsubs
    BY <1>t, <2>1 DEF WithValue, KeyType
  <2> HIDE DEF k
  <2>6. Tree(lay'.cells, [stack EXCEPT ![Len(stack)] = k])
    BY <1>0, <2>1, <2>2, <2>4, <2>5, TreeSame DEF Top
  <2> QED
    BY <1>u, <2>1, <2>6
<1>3. ASSUME LayoutValueList PROVE TInv'
  <2> DEFINE k == WithList(Top, lay.next)
  <2>1. stack # <<>> /\ phase = "tree" /\ lay' = EmitList(lay, Top.vks, Top.nvals, FALSE)
        /\ stack' = [stack EXCEPT ![Len(stack)] = k] /\ phase' = phase
    BY <1>3 DEF LayoutValueList, Top
  <2>2. Top.vks \in SUBSET Nat /\ Top.nvals \in Nat
    BY <1>t, <2>1 DEF KeyType
  <2>3. Tree(lay'.cells, stack)
    BY <1>0, <2>1, <2>2, TreeValues
  <2>4. k \in KeyType /\ k.off = Top.off
    BY <1>0, <1>t, <2>1, KeyUpdates
  <2>5. k.parent = Top.parent /\ k.subs = Top.subs /\ k.nsubs = Top.nsubs
    BY <1>t, <2>1 DEF WithList, KeyType
  <2> HIDE DEF k
  <2>6. Tree(lay'.cells, [stack EXCEPT ![Len(stack)] = k])
    BY <1>0, <2>1, <2>3, <2>4, <2>5, TreeSame DEF Top
  <2> QED
    BY <1>u, <2>1, <2>6
<1>4. ASSUME NEW name \in NameLen, LayoutSubkey(name) PROVE TInv'
  <2> DEFINE k == OpenKey(lay.next, name, Top.off)
  <2>1. stack # <<>> /\ phase = "tree" /\ lay' = Reserve(lay, name)
        /\ stack' = Append(stack, k) /\ phase' = phase
    BY <1>4 DEF LayoutSubkey
  <2>2. lay'.cells = lay.cells
    BY <1>0, <2>1 DEF Reserve, LayoutType
  <2>3. Top.off \in Nat
    BY <1>t, <2>1 DEF KeyType
  <2>4. k \in KeyType /\ k.subs = {} /\ k.off = lay.next /\ k.parent = Top.off
    BY <1>0, <2>3 DEF OpenKey, KeyType
  <2>5. k.off # FIRST_CELL_REL
    <3>1. InBin(Reserved(Top), lay.next)
      BY <1>0, <1>t, <2>1 DEF LayoutOK, Top
    <3> QED
      BY <1>0, <2>4, <3>1 DEF InBin, FIRST_CELL_REL
  <2> HIDE DEF k
  <2>6. Tree(lay.cells, Append(stack, k))
    BY <1>0, <1>n, <2>1, <2>4, <2>5, TreeOpen DEF Top
  <2> QED
    BY <1>u, <2>1, <2>2, <2>6
<1>5. ASSUME LayoutKeyEnd PROVE TInv'
  <2> DEFINE lrefs == {<<"nk", o>> : o \in Top.subs}
             lf == Cell(lay.next, 4 + 8 * Top.nsubs, "lf", FALSE, lrefs)
             refs == NkRefs(Top, lay.next)
             c == Cell(Top.off, NK_FIXED + Top.name, "nk", FALSE, refs)
             cs == lay.cells
             ls == IF Top.nsubs = 0 THEN cs ELSE Append(cs, lf)
             ds == Append(ls, c)
             q == Len(ls) + 1
             j == Len(cs) + 1
  <2>1. stack # <<>> /\ phase = "tree" /\ Top.part = "subkeys"
        /\ lay' = Place(EmitLf(lay, Top.subs, Top.nsubs), c)
        /\ stack' = Returned(SubSeq(stack, 1, Len(stack) - 1), Top.off)
        /\ phase' \in {"tree", "orphans"}
    BY <1>5 DEF LayoutKeyEnd
  <2>2. /\ Top.subs \in SUBSET Nat /\ Top.nsubs \in Nat /\ Top.off \in Nat
        /\ Top.parent \in Nat /\ Top.list \in Nat /\ Top.name \in NameLen
    BY <1>t, <2>1 DEF KeyType
  <2>3. refs \in SUBSET (Role \X Nat) /\ lrefs \in SUBSET (Role \X Nat)
    BY <1>0, <2>2 DEF NkRefs, RefIf, Role
  <2>4. c \in CellType /\ c.off = Top.off /\ c.to = refs
    BY <2>2, <2>3, NkPayload, CellSizes DEF Cell, CellType, CellKind
  <2>5. lf \in CellType /\ lf.off = lay.next /\ lf.kind = "lf" /\ lf.to = lrefs
    <3>1. 4 + 8 * Top.nsubs \in Nat
      BY <2>2
    <3> QED
      BY <1>0, <2>3, <3>1, CellSizes DEF Cell, CellType, CellKind
  <2>6. EmitLf(lay, Top.subs, Top.nsubs).cells = ls
    BY DEF EmitLf, Emit
  <2>7. lay'.cells = ds
    <3> DEFINE l == EmitLf(lay, Top.subs, Top.nsubs)
    <3>1. l \in LayoutType
      <4>1. GoodLayout(lay, stack)
        BY <2>1 DEF LInv
      <4> QED
        BY <2>2, <4>1, ListsKeep DEF GoodLayout
    <3>2. lay' = [l EXCEPT !.cells = Append(l.cells, c)]
      BY <2>1 DEF Place
    <3> HIDE DEF l, ds, ls, c
    <3>3. lay'.cells = Append(l.cells, c)
      BY <3>1, <3>2 DEF LayoutType
    <3> QED
      BY <2>6, <3>3 DEF ds, l
  <2>8. \A o : <<"nk", o>> \notin refs
    BY DEF NkRefs, RefIf
  <2>9. \A o : <<"nk", o>> \in lrefs <=> o \in Top.subs
    OBVIOUS
  <2>10. <<"parent", Top.parent>> \in refs
         /\ (Top.nsubs # 0 => <<"lf", lay.next>> \in refs)
    BY DEF NkRefs, RefIf
  <2> HIDE DEF lf, c, refs, lrefs
  <2>11. /\ DOMAIN cs = 1..Len(cs) /\ Len(cs) \in Nat /\ ls \in Seq(CellType)
         /\ Top.nsubs = 0 => ls = cs
         /\ Top.nsubs # 0 => /\ Len(ls) = j /\ ls[j] = lf
                             /\ \A i \in 1..Len(cs) : ls[i] = cs[i]
    BY <1>0, <2>5
  <2> HIDE DEF ls, cs
  <2>12. /\ DOMAIN ds = 1..q /\ Len(ls) \in Nat /\ ds[q] = c
         /\ \A i \in 1..Len(ls) : ds[i] = ls[i]
    BY <2>4, <2>11
  <2> HIDE DEF ds
  <2>13. /\ \A i \in DOMAIN cs : i \in DOMAIN ds /\ ds[i] = cs[i] /\ i # q
         /\ q \in DOMAIN ds
         /\ Top.nsubs # 0 => j \in DOMAIN ds /\ ds[j] = lf /\ j \notin DOMAIN cs /\ j # q
         /\ \A i \in DOMAIN ds : i \in DOMAIN cs \/ i = q \/ (Top.nsubs # 0 /\ i = j)
    BY <2>11, <2>12
  <2> HIDE DEF q, j
  <2>14. Pending(cs, stack, Len(stack))
    BY <1>0, <1>t, <2>1 DEF Tree, cs
  <2>15. \A o \in Top.subs : Names(cs, o) = {} /\ Top.nsubs # 0
    BY <2>14 DEF Pending, Top
  <2>16. \A o : o \notin Top.subs => Names(ds, o) = Names(cs, o)
    <3> SUFFICES ASSUME NEW o, o \notin Top.subs, NEW i
                 PROVE  i \in Names(ds, o) <=> i \in Names(cs, o)
      BY DEF Names
    <3>1. CASE i \in DOMAIN cs
      BY <2>13, <3>1 DEF Names
    <3>2. CASE i = q
      BY <2>4, <2>8, <2>12, <2>13, <3>2 DEF Names
    <3>3. CASE Top.nsubs # 0 /\ i = j
      BY <2>5, <2>9, <2>13, <3>3 DEF Names
    <3> QED
      BY <2>13, <3>1, <3>2, <3>3 DEF Names
  <2>17. ASSUME NEW o \in Top.subs PROVE Names(ds, o) = {j}
    <3> SUFFICES ASSUME NEW i PROVE i \in Names(ds, o) <=> i = j
      OBVIOUS
    <3>1. CASE i \in DOMAIN cs
      BY <2>13, <2>15, <3>1 DEF Names
    <3>2. CASE i = q
      BY <2>4, <2>8, <2>12, <2>13, <2>15, <3>2 DEF Names
    <3>3. CASE Top.nsubs # 0 /\ i = j
      BY <2>5, <2>9, <2>13, <3>3 DEF Names
    <3> QED
      BY <2>13, <2>15, <3>1, <3>2, <3>3 DEF Names
  <2>18. \A o \in Top.subs : \E m \in DOMAIN ds :
            Names(ds, o) = {m} /\ <<"lf", ds[m].off>> \in ds[q].to
    BY <2>4, <2>5, <2>10, <2>12, <2>13, <2>15, <2>17
  <2>19. \A i \in DOMAIN ds : i \in DOMAIN cs \/ i = q \/ ds[i].kind # "nk"
    BY <2>5, <2>13
  <2>20. Tree(ds, Returned(SubSeq(stack, 1, Len(stack) - 1), Top.off))
    <3>1. Closes(cs, Top, ds, q)
      BY <2>4, <2>10, <2>12, <2>13, <2>16, <2>18, <2>19 DEF Closes
    <3> QED
      BY <1>0, <1>n, <2>1, <3>1, TreeClose DEF Top, cs
  <2> QED
    BY <1>u, <2>1, <2>7, <2>20
<1>6. ASSUME NEW name \in NameLen, NEW len \in DataLen, LayoutOrphanValue(name, len)
      PROVE  TInv'
  <2>1. phase = "orphans" /\ lay' = EmitValue(lay, name, len, TRUE)
        /\ stack' = stack /\ phase' = phase
    BY <1>6 DEF LayoutOrphanValue
  <2>2. Tree(lay'.cells, stack)
    BY <1>0, <2>1, TreeValues, LengthAssumption
  <2> QED
    BY <1>u, <2>1, <2>2
<1>7. ASSUME NEW name \in NameLen, LayoutOrphan(name) PROVE TInv'
  <2> DEFINE offs == {orphan[i] : i \in DOMAIN orphan}
             n == Len(orphan)
             l == EmitList(lay, offs, n, TRUE)
             refs == {<<"parent", 0>>} \cup RefIf(n, "list", lay.next)
             p == NK_FIXED + name
  <2>1. phase = "orphans" /\ lay' = Emit(l, p, "nk", TRUE, refs)
        /\ stack' = stack /\ phase' = phase
    BY <1>7 DEF LayoutOrphan
  <2>2. offs \in SUBSET Nat /\ n \in Nat /\ p \in Nat /\ "nk" \in CellKind
    BY <1>0, NkPayload DEF CellKind
  <2> HIDE DEF offs, n
  <2>3. l \in LayoutType /\ Tree(l.cells, stack)
    BY <1>0, <2>1, <2>2, TreeValues
  <2>4. refs \in SUBSET (Role \X Nat) /\ \A o : <<"nk", o>> \notin refs
    BY <1>0 DEF RefIf, Role
  <2> HIDE DEF l, p, refs
  <2>5. Tree(lay'.cells, stack)
    BY <2>1, <2>2, <2>3, <2>4, TreeEmit, ZenonT(30)
  <2> QED
    BY <1>u, <2>1, <2>5
<1>8. ASSUME NEW xor \in Word, Build(xor) PROVE TInv'
  <2> DEFINE cs == lay'.cells
  <2>1. phase = "orphans" /\ phase' = "built" /\ stack = <<>>
    BY <1>8 DEF Build, LInv, TypeOK
  <2>2. \/ lay' = lay
        \/ \E c \in CellType : c.kind = "free" /\ c.to = {} /\ c.off = lay.next
                               /\ lay'.cells = Append(lay.cells, c)
    BY <1>0, <1>8, <2>1, BuildCloses
  <2>3. Tree(cs, <<>>)
    <3>1. Tree(lay.cells, <<>>)
      BY <1>0, <2>1
    <3>2. CASE lay' = lay
      BY <3>1, <3>2
    <3>3. ASSUME NEW c \in CellType, c.kind = "free", c.to = {},
                 lay'.cells = Append(lay.cells, c)
          PROVE  Tree(cs, <<>>)
      BY <1>0, <3>1, <3>3, TreeCell
    <3> QED
      BY <2>2, <3>2, <3>3
  <2> HIDE DEF cs
  <2>4. DOMAIN << >> = {}
    OBVIOUS
  <2>5. ASSUME NEW i \in DOMAIN cs, cs[i].kind = "nk", ~cs[i].free
        PROVE  IF cs[i].off = FIRST_CELL_REL THEN Names(cs, cs[i].off) = {}
               ELSE \E m \in Names(cs, cs[i].off), p \in DOMAIN cs :
                       /\ Names(cs, cs[i].off) = {m}
                       /\ <<"lf", cs[m].off>> \in cs[p].to
                       /\ <<"parent", cs[p].off>> \in cs[i].to
    <3>1. cs \in Seq(CellType)
      BY <1>0, <1>8, <2>1, BuildCloses DEF LayoutOK, cs
    <3>2. cs[i].free \in BOOLEAN
      <4>1. cs[i] \in CellType
        BY <3>1
      <4> QED
        BY <4>1 DEF CellType
    <3>3. cs[i].free = FALSE
      BY <2>5, <3>2, Zenon
    <3>4. Placed(cs, <<>>, cs[i])
      BY <2>3 DEF Tree
    <3> QED
      BY <2>4, <2>5, <3>3, <3>4 DEF Placed, Owned, Waiting
  <2>6. OneTree'
    BY <2>5, Zenon DEF OneTree, Names, cs
  <2> QED
    BY <2>1, <2>6 DEF TInv
<1>9. CASE UNCHANGED vars
  <2>1. lay' = lay /\ stack' = stack /\ phase' = phase
    BY <1>9 DEF vars
  <2>2. ASSUME phase # "built" PROVE OneTree'
    BY <2>1, <2>2 DEF OneTree
  <2> DEFINE Good(cs) ==
        \A i \in DOMAIN cs :
            LET c == cs[i]
                lists == {j \in DOMAIN cs : <<"nk", c.off>> \in cs[j].to}
            IN  c.kind = "nk" /\ ~c.free =>
                IF c.off = FIRST_CELL_REL THEN lists = {}
                ELSE \E j \in lists, p \in DOMAIN cs :
                        /\ lists = {j}
                        /\ <<"lf", cs[j].off>> \in cs[p].to
                        /\ <<"parent", cs[p].off>> \in c.to
  <2>3. ASSUME phase = "built" PROVE OneTree'
    <3>1. Good(lay.cells)
      BY <2>3 DEF TInv, OneTree
    <3>2. Good(lay'.cells) => OneTree'
      BY DEF OneTree
    <3> HIDE DEF Good
    <3> QED
      BY <2>1, <3>1, <3>2
  <2>4. OneTree'
    BY <2>2, <2>3
  <2> QED
    BY <2>1, <2>4 DEF TInv
<1> QED
  BY <1>1, <1>2, <1>3, <1>4, <1>5, <1>6, <1>7, <1>8, <1>9 DEF Next

LEMMA TInvInit == Init => TInv
<1> SUFFICES ASSUME Init PROVE TInv
  OBVIOUS
<1>1. lay.cells = <<>> /\ stack = <<>> /\ phase = "root" /\ lay.next = FIRST_CELL_REL
  BY DEF Init
<1>2. DOMAIN << >> = {}
  OBVIOUS
<1> QED
  BY <1>1, <1>2 DEF TInv, Tree, OneTree

\* In every image the live keys form one tree: each but the root is named by one
\* list, and the key that owns that list is the parent the key itself names.
THEOREM KeysFormOneTree == Spec => []OneTree
<1>1. TInv => OneTree
  BY DEF TInv
<1> QED
  BY <1>1, LInvInit, LInvStep, RInvInit, RInvStep, TInvInit, TInvStep, PTL DEF Spec
=============================================================================
