-------------------------- MODULE LogsAppliedProofs --------------------------
(***************************************************************************)
(* logs_applied, for every layout, every log length below isize::MAX and   *)
(* every header.  The HvLE walk of logparse.rs: headers stay inside the    *)
(* log, entries adjoin, counters are exact or saturated.  The row: its     *)
(* report stands on the entries of both logs, in either order.             *)
(***************************************************************************)
EXTENDS LogsApplied, LeastNumber, SequenceTheorems

-----------------------------------------------------------------------------
(* Arithmetic. *)

\* A sum below the modulus does not wrap.
LEMMA ModSmall == \A a, m \in Nat : a < m => a % m = a
    OBVIOUS

\* A sum below twice the modulus wraps once.
LEMMA ModWrap == \A a, m \in Nat : m <= a /\ a < m + m => a % m = a - m
    OBVIOUS

LEMMA HalfBound == \A m \in Nat : (m \div 2) \in Nat /\ (m \div 2) + (m \div 2) <= m
    OBVIOUS

LEMMA OneMore == \A h, n \in Nat : h * (n + 1) = h * n + h
    OBVIOUS

\* A log is shorter than half the address space.
LEMMA LogLength ==
    ASSUME WalkTypeOK
    PROVE  /\ log.len \in Nat
           /\ log.len + log.len <= UsizeMod
<1>1. log.len \in 0..(UsizeMod \div 2)
    BY FieldAssumption DEF WalkTypeOK, Log
<1>2. (UsizeMod \div 2) \in Nat /\ (UsizeMod \div 2) + (UsizeMod \div 2) <= UsizeMod
    BY HalfBound, LayoutAssumption
<1> QED BY <1>1, <1>2, LayoutAssumption

\* The bound test may wrap, but then the signature cannot be read: a header
\* that passes both lies inside the log.
LEMMA HeaderInside ==
    ASSUME WalkTypeOK, HeaderFits(off), SignatureReadable(off)
    PROVE  off + HdrLen <= log.len
<1> USE LayoutAssumption
<1>1. off \in Nat /\ off < UsizeMod
    BY DEF WalkTypeOK
<1>2. SigLen \in Nat /\ HdrLen \in Nat /\ SigLen > 0 /\ SigLen < UsizeMod /\ HdrLen + HdrLen < UsizeMod
    OBVIOUS
<1>3. log.len \in Nat /\ log.len + log.len <= UsizeMod
    BY LogLength
<1>4. off + SigLen < UsizeMod
    <2> SUFFICES ASSUME ~(off + SigLen < UsizeMod) PROVE FALSE
        OBVIOUS
    <2>1. /\ off + SigLen \in Nat /\ UsizeMod \in Nat
          /\ UsizeMod <= off + SigLen /\ off + SigLen < UsizeMod + UsizeMod
        BY <1>1, <1>2
    <2>2. (off + SigLen) % UsizeMod = (off + SigLen) - UsizeMod
        BY <2>1, ModWrap, Zenon
    <2> QED BY <2>1, <2>2, <1>1, <1>2 DEF SignatureReadable
<1>5. off + SigLen <= log.len
    <2>1. (off + SigLen) % UsizeMod = off + SigLen
        BY <1>1, <1>2, <1>4, ModSmall
    <2> QED BY <2>1 DEF SignatureReadable
<1>6. off + HdrLen < UsizeMod
    BY <1>1, <1>2, <1>3, <1>5
<1>7. (off + HdrLen) % UsizeMod = off + HdrLen
    BY <1>1, <1>2, <1>6, ModSmall
<1> QED BY <1>7 DEF HeaderFits

LEMMA EntryFields ==
    ASSUME NEW e \in Entry
    PROVE  e.off \in Nat /\ e.size \in Nat /\ e.seq \in Nat /\ e.dpc \in Nat
<1>1. e.off \in Nat /\ e.size \in Size /\ e.seq \in Sequence /\ e.dpc \in PageCount
    BY DEF Entry
<1>2. \A v \in 0..U32Max : v \in Nat
    BY LayoutAssumption
<1>3. e.size \in 0..U32Max /\ e.seq \in 0..U32Max /\ e.dpc \in 0..U32Max
    BY <1>1, FieldAssumption
<1> QED BY <1>1, <1>2, <1>3

-----------------------------------------------------------------------------
(* The sum of a sequence. *)

\* The function of TotalOf over the first n members.
IsTotal(s, n, f) == f = [j \in 0..n |-> IF j = 0 THEN 0 ELSE f[j - 1] + s[j]]

OneByOne(s, n, f) == f[0] = 0 /\ \A j \in 1..n : f[j] = f[j - 1] + s[j]

LEMMA TotalAt ==
    ASSUME NEW s, NEW n \in Nat, NEW f, IsTotal(s, n, f)
    PROVE  OneByOne(s, n, f)
<1>1. \A j \in 0..n : f[j] = IF j = 0 THEN 0 ELSE f[j - 1] + s[j]
    BY DEF IsTotal
<1>2. f[0] = 0
    BY <1>1
<1>3. \A j \in 1..n : j \in 0..n /\ j # 0
    OBVIOUS
<1> QED BY <1>1, <1>2, <1>3 DEF OneByOne

LEMMA TotalFrom ==
    ASSUME NEW s, NEW n \in Nat, NEW f, f = [j \in 0..n |-> f[j]], OneByOne(s, n, f)
    PROVE  IsTotal(s, n, f)
<1> DEFINE g == [j \in 0..n |-> IF j = 0 THEN 0 ELSE f[j - 1] + s[j]]
<1>1. \A j \in 0..n : f[j] = IF j = 0 THEN 0 ELSE f[j - 1] + s[j]
    <2>1. \A j \in 0..n : j = 0 \/ j \in 1..n
        OBVIOUS
    <2> QED BY <2>1 DEF OneByOne
<1>2. [j \in 0..n |-> f[j]] = g
    BY <1>1
<1>3. f = g
    BY <1>2
<1> QED BY <1>3 DEF IsTotal

\* There is such a function for every sequence: no shortest one is without.
LEMMA TotalExists ==
    ASSUME NEW s, NEW n \in Nat
    PROVE  \E f : IsTotal(s, n, f)
<1> DEFINE T == {k \in Nat : ~\E f : IsTotal(s, k, f)}
<1> SUFFICES ASSUME T # {} PROVE FALSE
    OBVIOUS
<1>1. PICK x \in T : \A y \in T : x <= y
    <2>1. T \subseteq Nat
        OBVIOUS
    <2> HIDE DEF T
    <2> QED BY <2>1, LeastMember
<1>2. x \in Nat /\ ~\E f : IsTotal(s, x, f)
    OBVIOUS
<1>3. x # 0
    <2> DEFINE f == [j \in 0..0 |-> 0]
    <2>1. f = [j \in 0..0 |-> f[j]] /\ f[0] = 0
        OBVIOUS
    <2> HIDE DEF f
    <2>2. OneByOne(s, 0, f)
        BY <2>1 DEF OneByOne
    <2>3. IsTotal(s, 0, f)
        BY <2>1, <2>2, TotalFrom
    <2> QED BY <1>2, <2>3
<1>4. x - 1 \in Nat /\ ~(x <= x - 1)
    BY <1>2, <1>3
<1>5. PICK g : IsTotal(s, x - 1, g)
    BY <1>1, <1>4
<1>6. g[0] = 0 /\ \A j \in 1..(x - 1) : g[j] = g[j - 1] + s[j]
    BY <1>4, <1>5, TotalAt DEF OneByOne
<1> HIDE DEF T
<1> DEFINE f == [j \in 0..x |-> IF j = x THEN g[x - 1] + s[x] ELSE g[j]]
<1>7. /\ f = [j \in 0..x |-> f[j]] /\ f[x] = g[x - 1] + s[x]
      /\ \A j \in 0..(x - 1) : f[j] = g[j]
    BY <1>2, <1>4
<1> HIDE DEF f
<1>8. ASSUME NEW j \in 1..x PROVE f[j] = f[j - 1] + s[j]
    <2>1. CASE j = x
        <3>1. x - 1 \in 0..(x - 1)
            BY <1>4
        <3> QED BY <1>7, <2>1, <3>1
    <2>2. CASE j # x
        <3>1. j \in 1..(x - 1) /\ j \in 0..(x - 1) /\ j - 1 \in 0..(x - 1)
            BY <1>2, <2>2
        <3> QED BY <1>6, <1>7, <3>1
    <2> QED BY <2>1, <2>2
<1>9. f[0] = 0
    <2>1. 0 \in 0..(x - 1)
        BY <1>4
    <2> QED BY <1>6, <1>7, <2>1
<1>10. IsTotal(s, x, f)
    <2>1. OneByOne(s, x, f)
        BY <1>8, <1>9 DEF OneByOne
    <2> QED BY <1>2, <1>7, <2>1, TotalFrom
<1> QED BY <1>2, <1>10

\* What TotalOf is.
LEMMA TotalOfIs ==
    ASSUME NEW s, Len(s) \in Nat
    PROVE  \E f : OneByOne(s, Len(s), f) /\ TotalOf(s) = f[Len(s)]
<1> DEFINE f == CHOOSE g : IsTotal(s, Len(s), g)
<1>1. TotalOf(s) = f[Len(s)]
    BY DEF TotalOf, IsTotal
<1>2. IsTotal(s, Len(s), f)
    BY TotalExists
<1> HIDE DEF f
<1>3. OneByOne(s, Len(s), f)
    BY <1>2, TotalAt
<1> QED BY <1>1, <1>3

\* One member more.
LEMMA TotalMore ==
    ASSUME NEW s, NEW t, Len(s) \in Nat, Len(t) = Len(s) + 1,
           \A i \in 1..Len(s) : s[i] = t[i]
    PROVE  TotalOf(t) = TotalOf(s) + t[Len(t)]
<1> DEFINE n == Len(s)
<1>1. n \in Nat /\ Len(t) \in Nat /\ Len(t) = n + 1 /\ n <= n + 1
    OBVIOUS
<1>2. PICK f : OneByOne(s, n, f) /\ TotalOf(s) = f[n]
    BY <1>1, TotalOfIs
<1>3. PICK g : OneByOne(t, n + 1, g) /\ TotalOf(t) = g[n + 1]
    BY <1>1, TotalOfIs
<1>4. \A i \in 1..n : s[i] = t[i]
    OBVIOUS
<1> HIDE DEF n
<1>5. n + 1 \in Nat /\ n \in 0..n /\ n + 1 \in 1..(n + 1) /\ (n + 1) - 1 = n
    BY <1>1
<1>6. f[n] = g[n]
    <2> DEFINE T == {j \in 0..n : f[j] # g[j]}
    <2>1. ASSUME T # {} PROVE FALSE
        <3>1. PICK x \in T : \A y \in T : x <= y
            <4>1. T \subseteq Nat
                BY <1>1
            <4> HIDE DEF T
            <4> QED BY <2>1, <4>1, LeastMember
        <3>2. x \in 0..n /\ f[x] # g[x]
            OBVIOUS
        <3>3. x # 0
            BY <1>2, <1>3, <3>2 DEF OneByOne
        <3>4. x - 1 \in 0..n /\ ~(x <= x - 1) /\ x \in 1..n /\ x \in 1..(n + 1)
            BY <1>1, <3>2, <3>3
        <3>5. f[x - 1] = g[x - 1]
            BY <3>1, <3>4
        <3>6. f[x] = f[x - 1] + s[x] /\ g[x] = g[x - 1] + t[x] /\ s[x] = t[x]
            BY <1>2, <1>3, <1>4, <3>4 DEF OneByOne
        <3> QED BY <3>2, <3>5, <3>6
    <2> QED BY <1>5, <2>1
<1>7. g[n + 1] = g[n] + t[n + 1]
    BY <1>3, <1>5 DEF OneByOne
<1> QED BY <1>1, <1>2, <1>3, <1>6, <1>7

LEMMA TotalEmpty ==
    ASSUME NEW s, Len(s) = 0
    PROVE  TotalOf(s) = 0
    BY TotalOfIs DEF OneByOne

LEMMA TotalNat ==
    ASSUME NEW s, Len(s) \in Nat, \A i \in 1..Len(s) : s[i] \in Nat
    PROVE  TotalOf(s) \in Nat
<1>1. PICK f : OneByOne(s, Len(s), f) /\ TotalOf(s) = f[Len(s)]
    BY TotalOfIs
<1> DEFINE T == {j \in 0..Len(s) : f[j] \notin Nat}
<1>2. ASSUME T # {} PROVE FALSE
    <2>1. PICK x \in T : \A y \in T : x <= y
        <3>1. T \subseteq Nat
            OBVIOUS
        <3> HIDE DEF T
        <3> QED BY <1>2, <3>1, LeastMember
    <2>2. x \in 0..Len(s) /\ f[x] \notin Nat
        OBVIOUS
    <2>3. x # 0
        BY <1>1, <2>2 DEF OneByOne
    <2>4. x - 1 \in 0..Len(s) /\ ~(x <= x - 1) /\ x \in 1..Len(s)
        BY <2>2, <2>3
    <2>5. f[x - 1] \in Nat /\ f[x] = f[x - 1] + s[x]
        BY <1>1, <2>1, <2>4 DEF OneByOne
    <2> QED BY <2>2, <2>4, <2>5
<1>3. Len(s) \in 0..Len(s)
    OBVIOUS
<1> QED BY <1>1, <1>2, <1>3

\* No member, one, and two.
LEMMA TotalUpToTwo ==
    ASSUME NEW s, Len(s) \in 0..2, \A i \in 1..Len(s) : s[i] \in Nat
    PROVE  TotalOf(s) = IF Len(s) = 0 THEN 0 ELSE IF Len(s) = 1 THEN s[1] ELSE s[1] + s[2]
<1>1. PICK f : OneByOne(s, Len(s), f) /\ TotalOf(s) = f[Len(s)]
    BY TotalOfIs
<1>2. f[0] = 0
    BY <1>1 DEF OneByOne
<1>3. Len(s) >= 1 => f[1] = s[1]
    <2> SUFFICES ASSUME Len(s) >= 1 PROVE f[1] = s[1]
        OBVIOUS
    <2>1. 1 \in 1..Len(s) /\ s[1] \in Nat
        OBVIOUS
    <2>2. f[1] = f[1 - 1] + s[1]
        BY <1>1, <2>1 DEF OneByOne
    <2> QED BY <1>2, <2>1, <2>2
<1>4. Len(s) = 2 => f[2] = s[1] + s[2]
    <2> SUFFICES ASSUME Len(s) = 2 PROVE f[2] = s[1] + s[2]
        OBVIOUS
    <2>1. f[2] = f[2 - 1] + s[2]
        BY <1>1 DEF OneByOne
    <2> QED BY <1>3, <2>1
<1>5. Len(s) = 0 \/ Len(s) = 1 \/ Len(s) = 2
    OBVIOUS
<1> QED BY <1>1, <1>2, <1>3, <1>4, <1>5

\* One entry more, and the pages of a walk.
LEMMA PagesNat ==
    ASSUME NEW c \in Seq(Entry)
    PROVE  PagesOf(c) \in Nat
<1> DEFINE s == [i \in 1..Len(c) |-> c[i].dpc]
<1>1. Len(c) \in Nat /\ \A i \in 1..Len(c) : c[i] \in Entry
    BY LenProperties, ElementOfSeq
<1>2. Len(s) = Len(c) /\ \A i \in 1..Len(c) : s[i] \in Nat
    BY <1>1, EntryFields
<1> HIDE DEF s
<1>3. TotalOf(s) \in Nat
    BY <1>1, <1>2, TotalNat
<1> QED BY <1>3 DEF PagesOf, s

LEMMA NoPages == PagesOf(<<>>) = 0
    BY TotalEmpty DEF PagesOf

LEMMA PagesMore ==
    ASSUME NEW c \in Seq(Entry), NEW d, NEW e, Len(d) = Len(c) + 1, d[Len(c) + 1] = e,
           \A i \in 1..Len(c) : d[i] = c[i]
    PROVE  PagesOf(d) = PagesOf(c) + e.dpc
<1> DEFINE s == [i \in 1..Len(c) |-> c[i].dpc]
           t == [i \in 1..Len(d) |-> d[i].dpc]
<1>1. Len(c) \in Nat /\ Len(s) = Len(c) /\ Len(t) = Len(c) + 1 /\ Len(c) + 1 \in 1..Len(d)
    BY LenProperties
<1>2. \A i \in 1..Len(c) : s[i] = t[i]
    BY <1>1
<1>3. t[Len(c) + 1] = e.dpc
    BY <1>1
<1> HIDE DEF s, t
<1>4. TotalOf(t) = TotalOf(s) + t[Len(t)]
    BY <1>1, <1>2, TotalMore
<1> QED BY <1>1, <1>3, <1>4 DEF PagesOf, s, t

-----------------------------------------------------------------------------
(* The inductive invariant.  ChainTiles says how many entries fit, which     *)
(* needs the place of the last entry and where the walk goes from it.        *)

LastEntry == chain[Len(chain)]

ChainShape ==
    /\ \A i \in DOMAIN chain : chain[i].size >= HdrLen
    /\ chain = <<>> => off = BaseLen /\ max_sequence = 0
    /\ chain # <<>> => BaseLen + HdrLen * Len(chain) <= LastEntry.off + HdrLen
    /\ chain # <<>> /\ walking => off = LastEntry.off + LastEntry.size

WInv == WalkTypeOK /\ HeadersInside /\ ChainTiles /\ CountersExact /\ ChainShape

LEMMA WalkStart == WalkInit => WInv
<1> SUFFICES ASSUME WalkInit PROVE WInv
    OBVIOUS
<1> USE DEF WalkInit
<1>1. WalkTypeOK
    <2>1. chain \in Seq(Entry)
        OBVIOUS
    <2>2. walking \in BOOLEAN
        BY Zenon DEF IsStream, NotALog
    <2> QED BY <2>1, <2>2, LayoutAssumption DEF WalkTypeOK
<1>2. HeadersInside /\ ChainTiles /\ ChainShape
    BY DEF HeadersInside, ChainTiles, ChainShape
<1>3. CountersExact
    BY NoPages, LayoutAssumption DEF CountersExact, AtMost
<1> QED BY <1>1, <1>2, <1>3 DEF WInv

\* The facts about the chain that one more entry needs.
LEMMA Extend ==
    ASSUME WInv, NEW hvle \in BOOLEAN, NEW size \in Size, NEW seq \in Sequence,
           NEW dpc \in PageCount, CountEntry(hvle, size, seq, dpc)
    PROVE  WInv'
<1> DEFINE e == [off |-> off, size |-> size, seq |-> seq, dpc |-> dpc]
           n == Len(chain)
<1>1. /\ off \in Nat /\ off < UsizeMod /\ size \in Nat /\ seq \in 0..U32Max /\ dpc \in 0..U32Max
      /\ chain \in Seq(Entry) /\ e \in Entry /\ n \in Nat
    BY LayoutAssumption, FieldAssumption DEF WInv, WalkTypeOK, Entry
<1>2. /\ chain' = Append(chain, e) /\ Len(chain') = n + 1 /\ DOMAIN chain' = 1..(n + 1)
      /\ DOMAIN chain = 1..n
      /\ chain'[n + 1] = e
      /\ \A i \in 1..n : chain'[i] = chain[i]
      /\ chain' \in Seq(Entry)
    BY <1>1 DEF CountEntry
<1>3. log' = log /\ size >= HdrLen /\ off + HdrLen <= log.len /\ walking
    BY HeaderInside DEF CountEntry, WInv, InLoop, SignatureAt, SizeOk
<1>4. WalkTypeOK'
    <2>1. off' \in 0..(UsizeMod - 1) /\ walking' \in BOOLEAN
        <3>1. \/ off' = off + size /\ off + size < UsizeMod /\ walking' = TRUE
              \/ off' = off /\ walking' = FALSE
            BY Zenon DEF CountEntry
        <3>2. off' \in 0..(UsizeMod - 1)
            BY <3>1, <1>1, LayoutAssumption
        <3> QED BY <3>1, <3>2, Zenon
    <2>2. guard' \in 0..GuardMax
        BY LayoutAssumption DEF CountEntry, InLoop, WInv, WalkTypeOK
    <2>3. /\ entries' \in 0..U32Max /\ dirty_pages' \in 0..U32Max /\ max_sequence' \in 0..U32Max
        BY <1>1, LayoutAssumption DEF CountEntry, Saturating, MaxOf, WInv, WalkTypeOK
    <2> QED BY <1>2, <1>3, <2>1, <2>2, <2>3 DEF WalkTypeOK, WInv
<1>5. HeadersInside'
    BY <1>1, <1>2, <1>3 DEF WInv, HeadersInside
<1>6. BaseLen + HdrLen * n <= off /\ (n = 0 => off = BaseLen) /\ (n > 0 => off = chain[n].off + chain[n].size)
    <2>1. CASE n = 0
        BY <2>1, <1>1, <1>3, LayoutAssumption DEF WInv, ChainShape
    <2>2. CASE n > 0
        <3>1. chain # <<>> /\ n \in DOMAIN chain /\ chain[n] \in Entry
            BY <2>2, <1>1, <1>2
        <3>2. off = chain[n].off + chain[n].size
            BY <3>1, <1>3 DEF WInv, ChainShape, LastEntry
        <3>3. BaseLen + HdrLen * n <= chain[n].off + HdrLen
            BY <3>1 DEF WInv, ChainShape, LastEntry
        <3>4. chain[n].size >= HdrLen /\ chain[n].size \in Nat /\ chain[n].off \in Nat
            BY <3>1, EntryFields DEF WInv, ChainShape
        <3>5. HdrLen * n \in Nat
            BY <1>1, LayoutAssumption
        <3> DEFINE h == HdrLen * n
                   s == chain[n].size
                   o == chain[n].off
        <3>6. /\ BaseLen + h <= o + HdrLen /\ off = o + s /\ s >= HdrLen
              /\ h \in Nat /\ s \in Nat /\ o \in Nat
            BY <3>2, <3>3, <3>4, <3>5
        <3> HIDE DEF h, s, o
        <3>7. BaseLen + h <= off
            BY <3>6, LayoutAssumption
        <3> QED BY <2>2, <3>2, <3>7 DEF h
    <2> QED BY <2>1, <2>2, <1>1
<1>7. HdrLen * (n + 1) = HdrLen * n + HdrLen /\ HdrLen * n \in Nat
    BY <1>1, OneMore, LayoutAssumption
<1>8. ChainShape'
    <2>1. \A i \in DOMAIN chain' : chain'[i].size >= HdrLen
        BY <1>1, <1>2, <1>3 DEF WInv, ChainShape
    <2>2. BaseLen + HdrLen * Len(chain') <= chain'[n + 1].off + HdrLen
        BY <1>1, <1>2, <1>6, <1>7, LayoutAssumption
    <2>3. walking' => off' = chain'[n + 1].off + chain'[n + 1].size
        BY <1>1, <1>2 DEF CountEntry
    <2> QED BY <1>1, <1>2, <2>1, <2>2, <2>3 DEF ChainShape, LastEntry
<1>9. ChainTiles'
    <2>1. BaseLen + HdrLen * Len(chain') <= log.len
        BY <1>1, <1>2, <1>3, <1>6, <1>7, LogLength, LayoutAssumption DEF WInv
    <2>2. ASSUME NEW i \in DOMAIN chain'
          PROVE  /\ i = 1 => chain'[i].off = BaseLen
                 /\ i > 1 => chain'[i].off = chain'[i-1].off + chain'[i-1].size
        <3>1. CASE i \in 1..n
            <4>1. i - 1 \in 1..n \/ i = 1
                BY <3>1, <1>1
            <4> QED BY <3>1, <4>1, <1>1, <1>2 DEF WInv, ChainTiles
        <3>2. CASE i = n + 1
            <4>1. chain'[i].off = off
                BY <3>2, <1>2
            <4>2. i - 1 = n /\ (i > 1 => n > 0 /\ n \in 1..n)
                BY <3>2, <1>1
            <4>3. i > 1 => chain'[i - 1] = chain[n]
                BY <4>2, <1>2
            <4> QED BY <3>2, <4>1, <4>2, <4>3, <1>1, <1>6
        <3> QED BY <3>1, <3>2, <1>1, <1>2
    <2>3. guard' = n + 1
        BY <1>1, <1>3 DEF CountEntry, WInv, ChainTiles
    <2> QED BY <1>2, <1>3, <2>1, <2>2, <2>3 DEF ChainTiles
<1>10. CountersExact'
    <2>1. entries' = AtMost(n + 1)
        BY <1>1, LayoutAssumption DEF CountEntry, Saturating, AtMost, WInv, CountersExact
    <2>2. /\ max_sequence' >= max_sequence /\ max_sequence' >= seq
          /\ max_sequence' = seq \/ max_sequence' = max_sequence
          /\ n = 0 => max_sequence' = seq
        <3>1. max_sequence \in Nat
            BY LayoutAssumption DEF WInv, WalkTypeOK
        <3>2. n = 0 => max_sequence = 0
            BY <1>1 DEF WInv, ChainShape
        <3> QED BY <3>1, <3>2, <1>1, LayoutAssumption DEF CountEntry, MaxOf
    <2>3. ASSUME NEW i \in DOMAIN chain'
          PROVE  max_sequence' >= chain'[i].seq
        <3>1. CASE i \in 1..n
            <4>1. chain'[i] = chain[i] /\ chain[i] \in Entry
                BY <3>1, <1>1, <1>2
            <4>2. chain[i].seq \in Nat
                BY <4>1, EntryFields
            <4>3. max_sequence >= chain[i].seq
                BY <3>1, <1>2 DEF WInv, CountersExact
            <4>4. max_sequence \in Nat /\ max_sequence' \in Nat
                BY <1>4, LayoutAssumption DEF WInv, WalkTypeOK
            <4> QED BY <2>2, <4>1, <4>2, <4>3, <4>4
        <3>2. CASE i = n + 1
            BY <3>2, <1>1, <1>2, <2>2
        <3> QED BY <3>1, <3>2, <1>1, <1>2
    <2>4. \E i \in DOMAIN chain' : max_sequence' = chain'[i].seq
        <3>1. CASE max_sequence' = seq
            BY <3>1, <1>1, <1>2
        <3>2. CASE max_sequence' = max_sequence /\ n > 0
            BY <3>2, <1>1, <1>2 DEF WInv, CountersExact
        <3> QED BY <3>1, <3>2, <2>2, <1>1
    <2>5. dirty_pages' = AtMost(PagesOf(chain'))
        <3>1. PagesOf(chain') = PagesOf(chain) + dpc
            <4>1. e.dpc = dpc /\ chain \in Seq(Entry) /\ n \in Nat
                BY <1>1
            <4>2. /\ Len(chain') = n + 1 /\ chain'[n + 1] = e
                  /\ \A i \in 1..n : chain'[i] = chain[i]
                BY <1>2
            <4> HIDE DEF e
            <4>3. PagesOf(chain') = PagesOf(chain) + e.dpc
                BY <4>1, <4>2, PagesMore
            <4> QED BY <4>1, <4>3
        <3>2. PagesOf(chain) \in Nat /\ dpc \in Nat
            BY <1>1, PagesNat
        <3>3. dirty_pages = AtMost(PagesOf(chain)) /\ dirty_pages' = Saturating(dirty_pages, dpc)
            BY DEF WInv, CountersExact, CountEntry
        <3> QED BY <3>1, <3>2, <3>3, LayoutAssumption DEF Saturating, AtMost
    <2>6. chain' # <<>>
        BY <1>1, <1>2
    <2> QED BY <1>2, <2>1, <2>3, <2>4, <2>5, <2>6 DEF CountersExact
<1> QED BY <1>4, <1>5, <1>8, <1>9, <1>10 DEF WInv

LEMMA WalkInvStep == WInv /\ [WalkNext]_walkVars => WInv'
<1> SUFFICES ASSUME WInv, [WalkNext]_walkVars PROVE WInv'
    OBVIOUS
<1>1. ASSUME NEW hvle \in BOOLEAN, NEW size \in Size, StopWalk(hvle, size)
      PROVE  WInv'
    <2>1. UNCHANGED <<log, off, entries, dirty_pages, max_sequence, chain>> /\ walking' = FALSE
        BY <1>1 DEF StopWalk
    <2>2. guard' \in 0..GuardMax
        BY <1>1, LayoutAssumption DEF StopWalk, InLoop, WInv, WalkTypeOK
    <2> QED BY <2>1, <2>2
            DEF WInv, WalkTypeOK, HeadersInside, ChainTiles, CountersExact, ChainShape, LastEntry
<1>2. CASE UNCHANGED walkVars
    BY <1>2 DEF walkVars, WInv, WalkTypeOK, HeadersInside, ChainTiles, CountersExact,
                ChainShape, LastEntry
<1> QED BY <1>1, <1>2, Extend DEF WalkNext, WalkStep, WalkOver

\* Every log is walked inside its bounds, whatever its headers say and
\* although the bound test may wrap.
THEOREM HeadersStayInside == WalkSpec => []HeadersInside
<1>1. WInv => HeadersInside
    BY DEF WInv
<1> QED BY <1>1, WalkStart, WalkInvStep, PTL DEF WalkSpec

\* The entries counted adjoin, and no more are counted than fit in the log.
THEOREM EntriesAdjoin == WalkSpec => []ChainTiles
<1>1. WInv => ChainTiles
    BY DEF WInv
<1> QED BY <1>1, WalkStart, WalkInvStep, PTL DEF WalkSpec

\* The counters are those of the entries walked, saturated at u32::MAX.
THEOREM CountersAreExact == WalkSpec => []CountersExact
<1>1. WInv => CountersExact
    BY DEF WInv
<1> QED BY <1>1, WalkStart, WalkInvStep, PTL DEF WalkSpec

-----------------------------------------------------------------------------
(* combine, for as many logs as there are arguments. *)

NoSummary == Summary("none", 0, 0, 0)

OneLog(s) == CombineStep(NoSummary, s)
TwoLogs(s, t) == CombineStep(CombineStep(NoSummary, s), t)

Combined(ss) ==
    IF Len(ss) = 0 THEN NoSummary ELSE IF Len(ss) = 1 THEN OneLog(ss[1])
    ELSE TwoLogs(ss[1], ss[2])

LEMMA CombineUnfolds ==
    ASSUME NEW ss, Len(ss) \in 0..2
    PROVE  Combine(ss) = Combined(ss)
<1> DEFINE F(g) == g = [n \in 0..Len(ss) |-> IF n = 0 THEN Summary("none", 0, 0, 0)
                                             ELSE CombineStep(g[n - 1], ss[n])]
           c == CHOOSE g : F(g)
           w == [n \in 0..Len(ss) |-> IF n = 0 THEN NoSummary ELSE IF n = 1 THEN OneLog(ss[1])
                                      ELSE TwoLogs(ss[1], ss[2])]
<1>1. F(w)
    <2>1. ASSUME NEW n \in 0..Len(ss)
          PROVE  w[n] = IF n = 0 THEN Summary("none", 0, 0, 0)
                        ELSE CombineStep(w[n - 1], ss[n])
        <3>1. CASE n = 0
            BY <3>1 DEF NoSummary
        <3>2. CASE n = 1
            <4>1. w[0] = NoSummary /\ w[1] = OneLog(ss[1])
                BY <3>2
            <4> HIDE DEF w
            <4> QED BY <3>2, <4>1 DEF OneLog
        <3>3. CASE n = 2
            <4>1. w[1] = OneLog(ss[1]) /\ w[2] = TwoLogs(ss[1], ss[2])
                BY <3>3
            <4> HIDE DEF w
            <4> QED BY <3>3, <4>1 DEF OneLog, TwoLogs
        <3> QED BY <3>1, <3>2, <3>3
    <2>2. w = [n \in 0..Len(ss) |-> w[n]]
        OBVIOUS
    <2> HIDE DEF w
    <2>3. [n \in 0..Len(ss) |-> w[n]]
            = [n \in 0..Len(ss) |-> IF n = 0 THEN Summary("none", 0, 0, 0)
                                    ELSE CombineStep(w[n - 1], ss[n])]
        BY <2>1
    <2> QED BY <2>2, <2>3
<1>2. F(c)
    <2> HIDE DEF F
    <2> QED BY <1>1
<1>3. Combine(ss) = c[Len(ss)]
    BY DEF Combine
<1>4. \A n \in 0..Len(ss) : c[n] = IF n = 0 THEN NoSummary ELSE CombineStep(c[n - 1], ss[n])
    <2> HIDE DEF c
    <2> QED BY <1>2 DEF NoSummary
<1> HIDE DEF c, F
<1>5. c[0] = NoSummary
    BY <1>4
<1>6. Len(ss) >= 1 => c[1] = OneLog(ss[1])
    BY <1>4, <1>5 DEF OneLog
<1>7. Len(ss) = 2 => c[2] = TwoLogs(ss[1], ss[2])
    BY <1>4, <1>6 DEF OneLog, TwoLogs
<1>8. CASE Len(ss) = 0
    BY <1>3, <1>5, <1>8 DEF Combined
<1>9. CASE Len(ss) = 1
    BY <1>3, <1>6, <1>9 DEF Combined
<1>10. CASE Len(ss) = 2
    BY <1>3, <1>7, <1>10 DEF Combined
<1> QED BY <1>8, <1>9, <1>10

LEMMA EntriesUnfold ==
    ASSUME Len(counted) \in 0..2, \A i \in 1..Len(counted) : Len(counted[i]) \in Nat
    PROVE  CountedEntries = IF Len(counted) = 0 THEN 0
                            ELSE IF Len(counted) = 1 THEN Len(counted[1])
                            ELSE Len(counted[1]) + Len(counted[2])
<1> DEFINE s == [i \in 1..Len(counted) |-> Len(counted[i])]
<1>1. Len(s) = Len(counted) /\ \A i \in 1..Len(counted) : s[i] = Len(counted[i])
    OBVIOUS
<1> HIDE DEF s
<1>2. TotalOf(s) = IF Len(s) = 0 THEN 0 ELSE IF Len(s) = 1 THEN s[1] ELSE s[1] + s[2]
    BY <1>1, TotalUpToTwo
<1>3. CountedEntries = TotalOf(s)
    BY DEF CountedEntries, s
<1>4. CASE Len(counted) = 0
    BY <1>1, <1>2, <1>3, <1>4
<1>5. CASE Len(counted) = 1
    BY <1>1, <1>2, <1>3, <1>5
<1>6. CASE Len(counted) = 2
    BY <1>1, <1>2, <1>3, <1>6
<1>7. Len(counted) = 0 \/ Len(counted) = 1 \/ Len(counted) = 2
    OBVIOUS
<1> QED BY <1>4, <1>5, <1>6, <1>7

LEMMA PagesUnfold ==
    ASSUME Len(counted) \in 0..2, \A i \in 1..Len(counted) : PagesOf(counted[i]) \in Nat
    PROVE  CountedPages = IF Len(counted) = 0 THEN 0
                          ELSE IF Len(counted) = 1 THEN PagesOf(counted[1])
                          ELSE PagesOf(counted[1]) + PagesOf(counted[2])
<1> DEFINE s == [i \in 1..Len(counted) |-> PagesOf(counted[i])]
<1>1. Len(s) = Len(counted) /\ \A i \in 1..Len(counted) : s[i] = PagesOf(counted[i])
    OBVIOUS
<1> HIDE DEF s
<1>2. TotalOf(s) = IF Len(s) = 0 THEN 0 ELSE IF Len(s) = 1 THEN s[1] ELSE s[1] + s[2]
    BY <1>1, TotalUpToTwo
<1>3. CountedPages = TotalOf(s)
    BY DEF CountedPages, s
<1> QED BY <1>1, <1>2, <1>3

SummaryType == [format_label : Format, entries : 0..U32Max, dirty_pages : 0..U32Max,
                max_sequence : 0..U32Max]

\* The labels of two logs combine the same way in either order.
Label(p, q) == IF q = "new" THEN "new" ELSE IF q = "old" /\ p # "new" THEN "old" ELSE p

LEMMA Labels ==
    ASSUME NEW p \in Format, NEW q \in Format
    PROVE  /\ Label("none", p) = p
           /\ Label(p, q) = Label(q, p)
           /\ Label(p, q) \in Format
           /\ Label(p, q) = "new" <=> p = "new" \/ q = "new"
    BY DEF Label, Format

\* One log, and two.
LEMMA OneLogIs ==
    ASSUME NEW s \in SummaryType
    PROVE  OneLog(s) = s
<1>1. /\ s = Summary(s.format_label, s.entries, s.dirty_pages, s.max_sequence)
      /\ s.format_label \in Format /\ s.entries \in 0..U32Max
      /\ s.dirty_pages \in 0..U32Max /\ s.max_sequence \in 0..U32Max
    BY DEF SummaryType, Summary
<1>2. /\ NoSummary.format_label = "none" /\ NoSummary.entries = 0
      /\ NoSummary.dirty_pages = 0 /\ NoSummary.max_sequence = 0
    BY DEF NoSummary, Summary
<1>3. /\ Saturating(0, s.entries) = s.entries /\ Saturating(0, s.dirty_pages) = s.dirty_pages
      /\ MaxOf(0, s.max_sequence) = s.max_sequence
    BY <1>1, LayoutAssumption DEF Saturating, MaxOf
<1>4. OneLog(s) = Summary(Label("none", s.format_label), Saturating(0, s.entries),
                          Saturating(0, s.dirty_pages), MaxOf(0, s.max_sequence))
    BY <1>2 DEF OneLog, CombineStep, Label
<1> QED BY <1>1, <1>3, <1>4, Labels

Both(s, t) ==
    Summary(Label(s.format_label, t.format_label), Saturating(s.entries, t.entries),
            Saturating(s.dirty_pages, t.dirty_pages), MaxOf(s.max_sequence, t.max_sequence))

LEMMA TwoLogsAre ==
    ASSUME NEW s \in SummaryType, NEW t
    PROVE  TwoLogs(s, t) = Both(s, t)
<1>1. TwoLogs(s, t) = CombineStep(s, t)
    BY OneLogIs DEF TwoLogs, OneLog
<1> QED BY <1>1 DEF CombineStep, Both, Label

LEMMA BothCommute ==
    ASSUME NEW s \in SummaryType, NEW t \in SummaryType
    PROVE  Both(s, t) = Both(t, s)
<1>1. /\ s.entries \in Nat /\ t.entries \in Nat /\ s.dirty_pages \in Nat
      /\ t.dirty_pages \in Nat /\ s.max_sequence \in Nat /\ t.max_sequence \in Nat
      /\ s.format_label \in Format /\ t.format_label \in Format
    BY LayoutAssumption DEF SummaryType
<1>2. /\ Saturating(s.entries, t.entries) = Saturating(t.entries, s.entries)
      /\ Saturating(s.dirty_pages, t.dirty_pages) = Saturating(t.dirty_pages, s.dirty_pages)
      /\ MaxOf(s.max_sequence, t.max_sequence) = MaxOf(t.max_sequence, s.max_sequence)
    BY <1>1, LayoutAssumption DEF Saturating, MaxOf
<1>3. Label(s.format_label, t.format_label) = Label(t.format_label, s.format_label)
    BY <1>1, Labels
<1> QED BY <1>2, <1>3 DEF Both

-----------------------------------------------------------------------------
(* The row of logs_applied. *)

\* A summary and the entries it was made from.
Backed(s, es) ==
    /\ s \in SummaryType /\ es \in Seq(Entry)
    /\ s.entries = AtMost(Len(es)) /\ s.dirty_pages = AtMost(PagesOf(es))
    /\ s.format_label = "new" => \E k \in DOMAIN es : s.max_sequence = es[k].seq
    /\ s.format_label # "new" => s.max_sequence = 0

ArgsOK ==
    /\ base \in Nullable(Base) /\ logArgs \in [1..2 -> Nullable(Log)]
    /\ next \in 1..3 /\ pc \in {"args", "walk", "done"}
    /\ pc = "walk" => next \in 1..2

WalkOK ==
    /\ WalkTypeOK /\ HeadersInside /\ ChainTiles /\ CountersExact
    /\ pc = "walk" => ChainShape
    /\ walking => pc = "walk"
    /\ walking \/ chain # <<>> => IsStream(log)

Pushed ==
    /\ summaries \in Seq(SummaryType) /\ counted \in Seq(Seq(Entry))
    /\ Len(counted) = Len(summaries) /\ Len(summaries) <= next - 1
    /\ \A i \in 1..Len(summaries) : Backed(summaries[i], counted[i])

RowInv == ArgsOK /\ WalkOK /\ Pushed /\ CleanIsBacked

\* The summary of the log just walked is backed by its entries.
LEMMA SummaryBacked ==
    ASSUME WalkOK, pc = "walk", ~walking
    PROVE  Backed(SummaryOfLog, chain)
<1>1. /\ chain \in Seq(Entry) /\ Len(chain) \in Nat /\ DOMAIN chain = 1..Len(chain)
      /\ entries \in 0..U32Max /\ dirty_pages \in 0..U32Max /\ max_sequence \in 0..U32Max
    BY LenProperties DEF WalkOK, WalkTypeOK
<1>2. /\ entries = AtMost(Len(chain)) /\ dirty_pages = AtMost(PagesOf(chain))
      /\ chain # <<>> => \E k \in DOMAIN chain : max_sequence = chain[k].seq
      /\ chain = <<>> => max_sequence = 0
    BY DEF WalkOK, CountersExact
<1>3. chain = <<>> <=> Len(chain) = 0
    BY <1>1, EmptySeq
<1>4. CASE ~IsStream(log)
    <2>1. chain = <<>> /\ Len(chain) = 0
        BY <1>3, <1>4 DEF WalkOK
    <2>2. PICK f \in {"none", "old"} : SummaryOfLog = Summary(f, 0, 0, 0)
        BY <1>4 DEF SummaryOfLog, IsStream
    <2>3. /\ Summary(f, 0, 0, 0) \in SummaryType /\ Summary(f, 0, 0, 0).entries = 0
          /\ Summary(f, 0, 0, 0).dirty_pages = 0
          /\ Summary(f, 0, 0, 0).format_label # "new" /\ Summary(f, 0, 0, 0).max_sequence = 0
        BY <2>2, LayoutAssumption DEF Summary, SummaryType, Format
    <2>4. AtMost(0) = 0 /\ PagesOf(chain) = 0
        BY <2>1, NoPages, LayoutAssumption DEF AtMost
    <2> QED BY <1>1, <2>1, <2>2, <2>3, <2>4 DEF Backed
<1>5. CASE IsStream(log)
    <2> DEFINE f == IF entries > 0 THEN "new" ELSE "old"
               s == Summary(f, entries, dirty_pages, max_sequence)
    <2>1. SummaryOfLog = s
        BY <1>5 DEF SummaryOfLog, IsStream
    <2>2. f \in Format /\ (f = "new" <=> entries > 0)
        BY DEF Format
    <2> HIDE DEF f
    <2>3. /\ s.format_label = f /\ s.entries = entries /\ s.dirty_pages = dirty_pages
          /\ s.max_sequence = max_sequence /\ s \in SummaryType
        BY <1>1, <2>2 DEF Summary, SummaryType
    <2> HIDE DEF s
    <2>e. entries = AtMost(Len(chain)) /\ Len(chain) \in Nat
        BY <1>1, <1>2
    <2>m. max_sequence \in 0..U32Max
        BY <1>1
    <2>4. f = "new" => \E k \in DOMAIN chain : max_sequence = chain[k].seq
        <3>1. entries > 0 => Len(chain) # 0
            BY <2>e, LayoutAssumption DEF AtMost
        <3>2. f = "new" => chain # <<>>
            BY <1>3, <2>2, <3>1, Zenon
        <3> QED BY <1>2, <3>2, Zenon
    <2>5. f # "new" => max_sequence = 0
        <3>1. ~(entries > 0) => Len(chain) = 0 \/ U32Max = 0
            BY <2>e, LayoutAssumption DEF AtMost
        <3>2. U32Max = 0 => max_sequence = 0
            BY <2>m, LayoutAssumption
        <3> QED BY <1>2, <1>3, <2>2, <3>1, <3>2, Zenon
    <2>6. s.entries = AtMost(Len(chain)) /\ s.dirty_pages = AtMost(PagesOf(chain))
        BY <1>2, <2>3
    <2> QED BY <1>1, <2>1, <2>3, <2>4, <2>5, <2>6 DEF Backed
<1> QED BY <1>4, <1>5

\* What the combined summary stands on.
CombinedBacked(c) ==
    /\ c.entries = AtMost(CountedEntries) /\ c.dirty_pages = AtMost(CountedPages)
    /\ c.max_sequence \in Nat
    /\ c.format_label = "new" =>
          \E i \in 1..Len(counted) : \E k \in DOMAIN counted[i] :
              counted[i][k].seq = c.max_sequence

LEMMA ReportBacked ==
    ASSUME Pushed, Len(summaries) \in 0..2
    PROVE  CombinedBacked(Combine(summaries))
<1>1. Len(counted) = Len(summaries) /\ \A i \in 1..Len(counted) : Backed(summaries[i], counted[i])
    BY DEF Pushed
<1>2. \A i \in 1..Len(counted) : Len(counted[i]) \in Nat
    BY <1>1, LenProperties DEF Backed
<1>p. \A i \in 1..Len(counted) : PagesOf(counted[i]) \in Nat
    BY <1>1, PagesNat DEF Backed
<1>3. Combine(summaries) = Combined(summaries)
    BY CombineUnfolds
<1>4. CASE Len(summaries) = 0
    <2>1. Combine(summaries) = Summary("none", 0, 0, 0)
        BY <1>3, <1>4 DEF Combined, NoSummary
    <2>2. CountedEntries = 0 /\ CountedPages = 0
        BY <1>1, <1>2, <1>p, <1>4, EntriesUnfold, PagesUnfold
    <2> QED BY <2>1, <2>2, LayoutAssumption DEF CombinedBacked, Summary, AtMost
<1>5. CASE Len(summaries) = 1
    <2> DEFINE s == summaries[1]
    <2>1. Backed(s, counted[1]) /\ s \in SummaryType /\ 1 \in 1..Len(counted)
        BY <1>1, <1>5 DEF Backed
    <2>2. Combine(summaries) = s
        BY <1>3, <1>5, <2>1, OneLogIs DEF Combined
    <2>3. CountedEntries = Len(counted[1]) /\ CountedPages = PagesOf(counted[1])
        BY <1>1, <1>2, <1>p, <1>5, EntriesUnfold, PagesUnfold
    <2>4. s.max_sequence \in Nat
        BY <2>1, LayoutAssumption DEF SummaryType
    <2> HIDE DEF s
    <2> QED BY <2>1, <2>2, <2>3, <2>4 DEF CombinedBacked, Backed
<1>6. CASE Len(summaries) = 2
    <2> DEFINE s == summaries[1]
               t == summaries[2]
               c == Both(s, t)
    <2>1. /\ Backed(s, counted[1]) /\ s \in SummaryType /\ 1 \in 1..Len(counted)
          /\ Backed(t, counted[2]) /\ t \in SummaryType /\ 2 \in 1..Len(counted)
        BY <1>1, <1>6 DEF Backed
    <2>2. Combine(summaries) = c
        BY <1>3, <1>6, <2>1, TwoLogsAre DEF Combined
    <2>3. /\ CountedEntries = Len(counted[1]) + Len(counted[2])
          /\ CountedPages = PagesOf(counted[1]) + PagesOf(counted[2])
        BY <1>1, <1>2, <1>p, <1>6, EntriesUnfold, PagesUnfold
    <2> HIDE DEF s, t
    <2>4. /\ c.format_label = Label(s.format_label, t.format_label)
          /\ c.entries = Saturating(s.entries, t.entries)
          /\ c.dirty_pages = Saturating(s.dirty_pages, t.dirty_pages)
          /\ c.max_sequence = MaxOf(s.max_sequence, t.max_sequence)
        BY DEF Both, Summary
    <2> HIDE DEF c
    <2>5. /\ s.max_sequence \in Nat /\ t.max_sequence \in Nat
          /\ s.format_label \in Format /\ t.format_label \in Format
        BY <2>1, LayoutAssumption DEF SummaryType
    <2>a. ASSUME NEW m \in Nat, NEW n \in Nat
          PROVE  Saturating(AtMost(m), AtMost(n)) = AtMost(m + n)
        BY LayoutAssumption DEF Saturating, AtMost
    <2>6. c.entries = AtMost(CountedEntries) /\ c.dirty_pages = AtMost(CountedPages)
        <3>1. /\ s.entries = AtMost(Len(counted[1])) /\ s.dirty_pages = AtMost(PagesOf(counted[1]))
              /\ t.entries = AtMost(Len(counted[2])) /\ t.dirty_pages = AtMost(PagesOf(counted[2]))
            BY <2>1 DEF Backed
        <3>2. /\ Len(counted[1]) \in Nat /\ Len(counted[2]) \in Nat
              /\ PagesOf(counted[1]) \in Nat /\ PagesOf(counted[2]) \in Nat
            BY <1>2, <1>p, <2>1
        <3>3. /\ c.entries = AtMost(Len(counted[1]) + Len(counted[2]))
              /\ c.dirty_pages = AtMost(PagesOf(counted[1]) + PagesOf(counted[2]))
            BY <2>4, <2>a, <3>1, <3>2, Zenon
        <3> QED BY <2>3, <3>3
    <2>7. c.max_sequence \in Nat
        BY <2>4, <2>5 DEF MaxOf
    <2>8. ASSUME c.format_label = "new"
          PROVE  \E i \in 1..Len(counted) : \E k \in DOMAIN counted[i] :
                     counted[i][k].seq = c.max_sequence
        <3>1. s.format_label = "new" \/ t.format_label = "new"
            BY <2>4, <2>5, <2>8, Labels
        <3>2. /\ s.format_label # "new" => s.max_sequence = 0
              /\ t.format_label # "new" => t.max_sequence = 0
            BY <2>1 DEF Backed
        <3>3. \/ s.format_label = "new" /\ c.max_sequence = s.max_sequence
              \/ t.format_label = "new" /\ c.max_sequence = t.max_sequence
            BY <2>4, <2>5, <3>1, <3>2 DEF MaxOf
        <3>4. CASE s.format_label = "new" /\ c.max_sequence = s.max_sequence
            BY <2>1, <3>4 DEF Backed
        <3>5. CASE t.format_label = "new" /\ c.max_sequence = t.max_sequence
            BY <2>1, <3>5 DEF Backed
        <3> QED BY <3>3, <3>4, <3>5
    <2> QED BY <2>2, <2>6, <2>7, <2>8 DEF CombinedBacked
<1> QED BY <1>4, <1>5, <1>6

LEMMA RowStart == Init => RowInv
<1> SUFFICES ASSUME Init PROVE RowInv
    OBVIOUS
<1>1. ArgsOK
    BY DEF Init, ArgsOK
<1>2. WalkTypeOK
    <2>1. NoLog \in Log
        BY FieldAssumption DEF NoLog, Log, Body
    <2>2. chain \in Seq(Entry)
        BY DEF Init
    <2>3. walking \in BOOLEAN
        BY Zenon DEF Init
    <2> QED BY <2>1, <2>2, <2>3, LayoutAssumption DEF Init, WalkTypeOK
<1>3. HeadersInside /\ ChainTiles
    BY DEF Init, HeadersInside, ChainTiles
<1>4. CountersExact
    BY NoPages, LayoutAssumption DEF Init, CountersExact, AtMost
<1>5. WalkOK
    BY <1>2, <1>3, <1>4 DEF Init, WalkOK
<1>6. Pushed
    <2>1. summaries \in Seq(SummaryType) /\ counted \in Seq(Seq(Entry)) /\ Len(summaries) = 0
          /\ Len(counted) = 0
        BY DEF Init
    <2> QED BY <2>1 DEF Init, Pushed
<1>7. CleanIsBacked
    BY DEF Init, CleanIsBacked
<1> QED BY <1>1, <1>5, <1>6, <1>7 DEF RowInv

\* A walk at rest stays as it is.
LEMMA WalkRests ==
    ASSUME WalkOK, UNCHANGED walkVars, pc' # "walk", ~walking
    PROVE  WalkOK'
    BY DEF WalkOK, walkVars, WalkTypeOK, HeadersInside, ChainTiles, CountersExact, IsStream, NotALog

LEMMA RowStep == RowInv /\ [Next]_vars => RowInv'
<1> SUFFICES ASSUME RowInv, [Next]_vars PROVE RowInv'
    OBVIOUS
<1>0. ArgsOK /\ WalkOK /\ Pushed /\ CleanIsBacked
    BY DEF RowInv
<1>n. pc' # "done" \/ result' = <<>> => CleanIsBacked'
    BY DEF CleanIsBacked
<1>1. CASE NullRow
    <2>1. ArgsOK'
        BY <1>0, <1>1 DEF NullRow, ArgsOK
    <2>2. WalkOK'
        <3>1. UNCHANGED walkVars /\ pc' # "walk" /\ ~walking
            BY <1>0, <1>1 DEF NullRow, WalkOK
        <3> QED BY <1>0, <3>1, WalkRests
    <2>3. Pushed'
        BY <1>0, <1>1 DEF NullRow, Pushed
    <2>4. CleanIsBacked'
        BY <1>1, <1>n DEF NullRow
    <2> QED BY <2>1, <2>2, <2>3, <2>4 DEF RowInv
<1>2. CASE SkipNullLog
    <2>1. ArgsOK'
        BY <1>0, <1>2 DEF SkipNullLog, ArgsOK
    <2>2. WalkOK'
        <3>1. UNCHANGED walkVars /\ pc' # "walk" /\ ~walking
            BY <1>0, <1>2 DEF SkipNullLog, WalkOK
        <3> QED BY <1>0, <3>1, WalkRests
    <2>3. Pushed'
        <3>1. /\ summaries' = summaries /\ counted' = counted /\ next' - 1 = next
              /\ next \in Nat /\ Len(summaries) \in Nat
            BY <1>0, <1>2, LenProperties DEF SkipNullLog, Pushed, ArgsOK
        <3> QED BY <1>0, <3>1 DEF Pushed
    <2>4. CleanIsBacked'
        BY <1>2, <1>n DEF SkipNullLog
    <2> QED BY <2>1, <2>2, <2>3, <2>4 DEF RowInv
<1>3. CASE BeginLog
    <2>1. ArgsOK'
        BY <1>0, <1>3 DEF BeginLog, ArgsOK
    <2>2. WalkOK'
        <3>1. logArgs[next][1] \in Log
            BY <1>0, <1>3 DEF BeginLog, ArgsOK, Nullable
        <3>2. WalkInit'
            BY <1>3, <3>1 DEF BeginLog, StartWalk, WalkInit, IsStream, NotALog
        <3>3. WInv'
            BY <3>2, WalkStart, PTL
        <3>4. chain' = <<>> /\ (walking' => IsStream(log)') /\ pc' = "walk"
            BY <1>3, <3>2 DEF BeginLog, WalkInit
        <3> QED BY <3>3, <3>4 DEF WInv, WalkOK
    <2>3. Pushed'
        BY <1>0, <1>3 DEF BeginLog, Pushed
    <2>4. CleanIsBacked'
        BY <1>3, <1>n DEF BeginLog
    <2> QED BY <2>1, <2>2, <2>3, <2>4 DEF RowInv
<1>4. CASE Walk
    <2>1. pc = "walk" /\ WalkStep /\ UNCHANGED laVars
        BY <1>4 DEF Walk
    <2>2. ArgsOK' /\ Pushed' /\ pc' = "walk"
        BY <1>0, <2>1 DEF laVars, ArgsOK, Pushed
    <2>3. WInv
        BY <1>0, <2>1 DEF WInv, WalkOK
    <2>4. WInv'
        BY <2>1, <2>3, WalkInvStep DEF WalkNext
    <2>5. IsStream(log)'
        <3>1. walking /\ log' = log
            BY <2>1 DEF WalkStep, CountEntry, StopWalk, InLoop
        <3> QED BY <1>0, <3>1 DEF WalkOK, IsStream, NotALog
    <2>6. WalkOK'
        BY <2>2, <2>4, <2>5 DEF WInv, WalkOK
    <2>7. CleanIsBacked'
        BY <2>2, <1>n
    <2> QED BY <2>2, <2>6, <2>7 DEF RowInv
<1>5. CASE EndLog
    <2>1. ArgsOK'
        BY <1>0, <1>5 DEF EndLog, ArgsOK
    <2>2. WalkOK'
        <3>1. UNCHANGED walkVars /\ pc' # "walk" /\ ~walking
            BY <1>0, <1>5 DEF EndLog, WalkOK
        <3> QED BY <1>0, <3>1, WalkRests
    <2>3. Pushed'
        <3> DEFINE s == SummaryOfLog
                   n == Len(summaries)
        <3>1. Backed(s, chain)
            BY <1>0, <1>5, SummaryBacked DEF EndLog
        <3>2. s \in SummaryType /\ chain \in Seq(Entry)
            BY <3>1 DEF Backed
        <3>3. /\ summaries' = Append(summaries, s) /\ counted' = Append(counted, chain)
              /\ next' - 1 = next /\ next \in 1..2
            BY <1>0, <1>5 DEF EndLog, ArgsOK
        <3>4. /\ summaries \in Seq(SummaryType) /\ counted \in Seq(Seq(Entry))
              /\ Len(counted) = n /\ n <= next - 1 /\ n \in Nat
            BY <1>0, LenProperties DEF Pushed
        <3> HIDE DEF s
        <3>5. /\ summaries' \in Seq(SummaryType) /\ Len(summaries') = n + 1
              /\ summaries'[n + 1] = s /\ \A i \in 1..n : summaries'[i] = summaries[i]
            BY <3>2, <3>3, <3>4, AppendProperties
        <3>6. /\ counted' \in Seq(Seq(Entry)) /\ Len(counted') = n + 1
              /\ counted'[n + 1] = chain /\ \A i \in 1..n : counted'[i] = counted[i]
            BY <3>2, <3>3, <3>4, AppendProperties
        <3>7. ASSUME NEW i \in 1..(n + 1) PROVE Backed(summaries'[i], counted'[i])
            <4>1. CASE i \in 1..n
                BY <1>0, <3>5, <3>6, <4>1 DEF Pushed
            <4>2. CASE i = n + 1
                BY <3>1, <3>5, <3>6, <4>2
            <4> QED BY <3>4, <4>1, <4>2
        <3>8. n + 1 <= next' - 1
            BY <3>3, <3>4
        <3> QED BY <3>5, <3>6, <3>7, <3>8 DEF Pushed
    <2>4. CleanIsBacked'
        BY <1>5, <1>n DEF EndLog
    <2> QED BY <2>1, <2>2, <2>3, <2>4 DEF RowInv
<1>6. CASE Report
    <2>1. ArgsOK'
        BY <1>0, <1>6 DEF Report, ArgsOK
    <2>2. WalkOK'
        <3>1. UNCHANGED walkVars /\ pc' # "walk" /\ ~walking
            BY <1>0, <1>6 DEF Report, WalkOK
        <3> QED BY <1>0, <3>1, WalkRests
    <2>3. Pushed'
        BY <1>0, <1>6 DEF Report, Pushed
    <2>4. CleanIsBacked'
        <3> DEFINE c == Combine(summaries)
                   b == base[1]
        <3>1. Len(summaries) \in 0..2
            <4>1. summaries \in Seq(SummaryType) /\ Len(summaries) <= next - 1 /\ next = 3
                BY <1>0, <1>6 DEF Report, Pushed
            <4>2. Len(summaries) \in Nat
                BY <4>1, LenProperties
            <4>3. \A m \in Nat : m <= 3 - 1 => m \in 0..2
                OBVIOUS
            <4>4. Len(summaries) <= 3 - 1
                BY <4>1, Zenon
            <4> QED BY <4>2, <4>3, <4>4, Zenon
        <3>2. CombinedBacked(c)
            BY <1>0, <3>1, ReportBacked
        <3>3. b.primary_seq \in Nat /\ b.secondary_seq \in Nat
            <4>1. b \in Base
                BY <1>0, <1>6 DEF Report, ArgsOK, Nullable
            <4>2. b.primary_seq \in 0..U32Max /\ b.secondary_seq \in 0..U32Max
                BY <4>1, FieldAssumption DEF Base
            <4> QED BY <4>2, LayoutAssumption
        <3>4. /\ result'[1].entries_replayed = c.entries
              /\ result'[1].dirty_pages = c.dirty_pages
              /\ result'[1].became_clean => BecameClean(b, c)
              /\ result'[1].log_format = c.format_label
              /\ base' = base /\ counted' = counted
            BY <1>6 DEF Report
        <3> HIDE DEF c
        <3>5. DOMAIN counted = 1..Len(counted)
            BY <1>0, LenProperties DEF Pushed
        <3>6. ASSUME result'[1].became_clean, result'[1].log_format = "new"
              PROVE  \E i \in DOMAIN counted : \E k \in DOMAIN counted[i] :
                         /\ counted[i][k].seq >= b.primary_seq
                         /\ counted[i][k].seq >= b.secondary_seq
            <4>1. PICK i \in 1..Len(counted) : \E k \in DOMAIN counted[i] :
                     counted[i][k].seq = c.max_sequence
                BY <3>2, <3>4, <3>6 DEF CombinedBacked
            <4>2. PICK k \in DOMAIN counted[i] : counted[i][k].seq = c.max_sequence
                BY <4>1
            <4>3. c.max_sequence >= b.primary_seq /\ c.max_sequence >= b.secondary_seq
                <5>1. c.max_sequence >= MaxOf(b.primary_seq, b.secondary_seq)
                    BY <3>4, <3>6 DEF BecameClean
                <5>2. c.max_sequence \in Nat
                    BY <3>2 DEF CombinedBacked
                <5> QED BY <3>3, <5>1, <5>2 DEF MaxOf
            <4> QED BY <3>5, <4>2, <4>3
        <3>7. CountedEntries' = CountedEntries /\ CountedPages' = CountedPages
            BY <3>4 DEF CountedEntries, CountedPages
        <3>8. /\ result'[1].entries_replayed = AtMost(CountedEntries)'
              /\ result'[1].dirty_pages = AtMost(CountedPages)'
            BY <3>2, <3>4, <3>7 DEF CombinedBacked, AtMost
        <3> QED BY <3>4, <3>6, <3>8 DEF CleanIsBacked
    <2> QED BY <2>1, <2>2, <2>3, <2>4 DEF RowInv
<1>7. CASE UNCHANGED vars
    <2>1. UNCHANGED walkVars /\ UNCHANGED laVars
        BY <1>7 DEF vars
    <2>2. ArgsOK' /\ Pushed'
        BY <1>0, <2>1 DEF laVars, ArgsOK, Pushed
    <2>3. WalkOK'
        BY <1>0, <2>1 DEF laVars, walkVars, WalkOK, WalkTypeOK, HeadersInside, ChainTiles,
                          CountersExact, ChainShape, LastEntry, IsStream, NotALog
    <2>4. CleanIsBacked'
        BY <1>0, <2>1 DEF laVars, CleanIsBacked, CountedEntries, CountedPages
    <2> QED BY <2>2, <2>3, <2>4 DEF RowInv
<1> QED BY <1>1, <1>2, <1>3, <1>4, <1>5, <1>6, <1>7 DEF Next, Process, Done

\* The combined summary is the same in either order.
LEMMA OrderFree == RowInv => OrderOfLogs
<1> SUFFICES ASSUME RowInv PROVE Combine(Reverse(summaries)) = Combine(summaries)
    BY DEF OrderOfLogs
<1> DEFINE ss == summaries
           rs == Reverse(summaries)
<1>1. ss \in Seq(SummaryType) /\ Len(ss) \in 0..2
    <2>1. ss \in Seq(SummaryType) /\ Len(ss) <= next - 1 /\ next \in 1..3
        BY DEF RowInv, Pushed, ArgsOK
    <2>2. Len(ss) \in Nat
        BY <2>1, LenProperties
    <2>3. \A m \in Nat, k \in 1..3 : m <= k - 1 => m \in 0..2
        OBVIOUS
    <2> QED BY <2>1, <2>2, <2>3, Zenon
<1>2. rs = [i \in 1..Len(ss) |-> ss[(Len(ss) - i) + 1]]
    BY DEF Reverse
<1>3. \A i \in 1..Len(ss) : ss[i] \in SummaryType /\ (Len(ss) - i) + 1 \in 1..Len(ss)
    BY <1>1, ElementOfSeq
<1> HIDE DEF rs
<1>4. rs \in Seq(SummaryType) /\ Len(rs) = Len(ss)
    <2>1. rs \in [1..Len(ss) -> SummaryType] /\ Len(ss) \in Nat
        BY <1>1, <1>2, <1>3
    <2>2. rs \in Seq(SummaryType)
        BY <2>1, SeqDef
    <2> QED BY <2>1, <2>2, LenProperties
<1>5. Combine(rs) = Combined(rs) /\ Combine(ss) = Combined(ss)
    BY <1>1, <1>4, CombineUnfolds
<1>6. CASE Len(ss) = 0
    BY <1>4, <1>5, <1>6 DEF Combined, rs
<1>7. CASE Len(ss) = 1
    <2>1. rs[1] = ss[1]
        BY <1>2, <1>7
    <2> QED BY <1>4, <1>5, <1>7, <2>1 DEF Combined, rs
<1>8. CASE Len(ss) = 2
    <2>1. rs[1] = ss[2] /\ rs[2] = ss[1]
        BY <1>2, <1>8
    <2>2. ss[1] \in SummaryType /\ ss[2] \in SummaryType
        BY <1>3, <1>8
    <2>3. Combined(ss) = TwoLogs(ss[1], ss[2]) /\ Combined(rs) = TwoLogs(ss[2], ss[1])
        BY <1>4, <1>8, <2>1 DEF Combined
    <2> QED BY <1>5, <2>2, <2>3, TwoLogsAre, BothCommute DEF rs
<1> QED BY <1>1, <1>6, <1>7, <1>8

\* The row's inductive invariant.
THEOREM RowInvariant == Spec => []RowInv
    BY RowStart, RowStep, PTL DEF Spec

\* The report does not depend on which log is called .LOG1.
THEOREM EitherOrder == Spec => []OrderOfLogs
    BY RowInvariant, OrderFree, PTL

\* became_clean on a stream log is backed by an entry of one of the logs, and
\* the report counts the entries of both.
THEOREM CleanBacked == Spec => []CleanIsBacked
<1>1. RowInv => CleanIsBacked
    BY DEF RowInv
<1> QED BY <1>1, RowInvariant, PTL

\* Both logs of a row are walked inside their bounds, entry after entry, and
\* counted exactly or saturated.
THEOREM RowWalks == Spec => [](HeadersInside /\ ChainTiles /\ CountersExact)
<1>1. RowInv => HeadersInside /\ ChainTiles /\ CountersExact
    BY DEF RowInv, WalkOK
<1> QED BY <1>1, RowInvariant, PTL
=============================================================================
