-------------------------- MODULE HiveWalkProofs ----------------------------
(***************************************************************************)
(* The walk of a hive, for every set of key paths, value lists, filters    *)
(* and images, and every order in which notatin yields the keys.           *)
(***************************************************************************)
EXTENDS HiveWalk, LeastNumber, SequenceTheorems

Row == [key_path    : Path,
        is_value    : BOOLEAN,
        is_deleted  : BOOLEAN,
        recovery    : Recovery \cup {"deleted-orphan", "deleted-reparented"},
        diagnostics : {"null", "bad-utf16", "truncated", "bad-checksum"}]

\* A row's origin: a key and 0, or a key and the number of one of its values.
Origin == [key : KeyCell, value : Nat]

-----------------------------------------------------------------------------
(* Paths. *)

\* A path has a first segment.
LEMMA PathFirst ==
    ASSUME NEW p \in Path
    PROVE  /\ p \in Seq(Segment) /\ Len(p) \in Nat \ {0}
           /\ DOMAIN p = 1..Len(p) /\ p[1] \in Segment
<1>1. p \in Seq(Segment) /\ p # <<>>
    BY DEF Path
<1>2. Len(p) \in Nat \ {0}
    BY <1>1, EmptySeq
<1> QED BY <1>1, <1>2, LenProperties, ElementOfSeq

LEMMA KeyPathType ==
    ASSUME NEW p \in KeyPaths
    PROVE  p \in Path /\ p[1] # EmptySegment
<1>1. p \in Path
    BY PathAssumption
<1>2. 1 \in DOMAIN p
    BY <1>1, PathFirst
<1> QED BY <1>1, <1>2, NamesAssumption

\* A path of one segment is that segment.
LEMMA OnePath ==
    ASSUME NEW p \in Path, Len(p) = 1
    PROVE  p = <<p[1]>>
<1>1. p \in Seq(Segment) /\ <<p[1]>> \in Seq(Segment) /\ Len(<<p[1]>>) = 1
    BY PathFirst
<1>2. \A i \in 1..1 : p[i] = <<p[1]>>[i]
    OBVIOUS
<1> QED BY <1>1, <1>2, SeqEqual

LEMMA ConstantSegments ==
    /\ EmptySegment \in Segment /\ DeletedPrefix \in Segment
    /\ DeletedPrefix # EmptySegment /\ EmptyPath \in Path
<1>1. EmptySegment \in Segment /\ DeletedPrefix \in Segment
    BY DEF EmptySegment, DeletedPrefix, Segment
<1>2. DeletedPrefix # EmptySegment
    BY DEF EmptySegment, DeletedPrefix
<1> QED BY <1>1, <1>2 DEF EmptyPath, Path

\* What is left of a live path without its root.
LEMMA BelowRoot ==
    ASSUME NEW p \in KeyPaths, NEW r \in Segment, UnderRoot(p, r), p # <<r>>
    PROVE  /\ Tail(p) \in Path /\ Tail(p)[1] # EmptySegment
           /\ p = <<r>> \o Tail(p)
<1>1. p \in Seq(Segment) /\ p # <<>> /\ Len(p) \in Nat \ {0} /\ p \in Path
    BY KeyPathType, PathFirst DEF Path
<1>2. Len(p) # 1
    BY <1>1, OnePath DEF UnderRoot
<1>3. /\ Tail(p) \in Seq(Segment) /\ Len(Tail(p)) = Len(p) - 1
      /\ \A i \in 1..Len(Tail(p)) : Tail(p)[i] = p[i+1]
    BY <1>1, HeadTailProperties
<1>4. Tail(p) \in Path
    <2>1. Len(Tail(p)) # 0
        BY <1>1, <1>2, <1>3
    <2>2. Tail(p) # <<>>
        BY <1>3, <2>1, EmptySeq
    <2> QED BY <1>3, <2>2 DEF Path
<1>5. Tail(p)[1] = p[2] /\ 2 \in DOMAIN p
    BY <1>1, <1>2, <1>3, PathFirst
<1>6. Tail(p)[1] # EmptySegment
    BY <1>5, NamesAssumption
<1>7. p = <<r>> \o Tail(p)
    <2> DEFINE q == <<r>> \o Tail(p)
    <2>1. <<r>> \in Seq(Segment) /\ Len(<<r>>) = 1 /\ <<r>>[1] = r
        OBVIOUS
    <2>2. /\ q \in Seq(Segment) /\ Len(q) = 1 + Len(Tail(p))
          /\ \A i \in 1..(1 + Len(Tail(p))) :
                q[i] = IF i <= 1 THEN <<r>>[i] ELSE Tail(p)[i - 1]
        BY <1>3, <2>1, ConcatProperties
    <2>3. Len(q) = Len(p)
        BY <1>1, <1>3, <2>2
    <2>4. \A i \in 1..Len(p) : p[i] = q[i]
        <3> SUFFICES ASSUME NEW i \in 1..Len(p) PROVE p[i] = q[i]
            OBVIOUS
        <3>1. CASE i = 1
            BY <1>1, <1>3, <2>1, <2>2, <3>1 DEF UnderRoot
        <3>2. CASE i # 1
            <4>1. i - 1 \in 1..Len(Tail(p)) /\ (i - 1) + 1 = i
                BY <1>1, <1>3, <3>2
            <4>2. Tail(p)[i - 1] = p[i]
                BY <1>3, <4>1
            <4> QED BY <1>1, <1>3, <2>2, <3>2, <4>2
        <3> QED BY <3>1, <3>2
    <2> QED BY <1>1, <2>2, <2>3, <2>4, SeqEqual
<1> QED BY <1>4, <1>6, <1>7

\* normalize gives a path: empty for the root and no other key, and one that
\* begins with a name for the rest.
LEMMA NormalizeType ==
    ASSUME NEW p \in KeyPaths, NEW r \in Segment
    PROVE  /\ Normalize(p, r) \in Path
           /\ Normalize(p, r) = EmptyPath \/ Normalize(p, r)[1] # EmptySegment
           /\ Normalize(p, r) = EmptyPath => p = <<r>>
<1>0. EmptyPath[1] = EmptySegment /\ EmptyPath \in Path
    BY ConstantSegments DEF EmptyPath
<1>1. CASE p = <<r>>
    BY <1>0, <1>1 DEF Normalize
<1>2. CASE p # <<r>> /\ UnderRoot(p, r)
    <2>1. Normalize(p, r) = Tail(p)
        BY <1>2 DEF Normalize
    <2> QED BY <1>0, <1>2, <2>1, BelowRoot
<1>3. CASE p # <<r>> /\ ~UnderRoot(p, r)
    <2>1. Normalize(p, r) = <<DeletedPrefix>> \o p
        BY <1>3 DEF Normalize
    <2>2. p \in Seq(Segment) /\ <<DeletedPrefix>> \in Seq(Segment) /\ Len(p) \in Nat
          /\ Len(<<DeletedPrefix>>) = 1 /\ <<DeletedPrefix>>[1] = DeletedPrefix
        BY KeyPathType, PathFirst, ConstantSegments
    <2>3. /\ Normalize(p, r) \in Seq(Segment) /\ Len(Normalize(p, r)) = 1 + Len(p)
          /\ \A i \in 1..(1 + Len(p)) :
               Normalize(p, r)[i] = IF i <= 1 THEN <<DeletedPrefix>>[i] ELSE p[i - 1]
        BY <2>1, <2>2, ConcatProperties
    <2>4. Normalize(p, r)[1] = DeletedPrefix
        BY <2>2, <2>3
    <2>5. Normalize(p, r) # <<>>
        BY <2>2, <2>3, EmptySeq
    <2> QED BY <1>0, <2>3, <2>4, <2>5, ConstantSegments DEF Path
<1> QED BY <1>1, <1>2, <1>3

\* Two paths of the same side of the root with the same normal form are equal.
LEMMA NormalizeInjective ==
    ASSUME NEW p \in KeyPaths, NEW q \in KeyPaths, NEW r \in Segment,
           Normalize(p, r) = Normalize(q, r), UnderRoot(p, r) = UnderRoot(q, r)
    PROVE  p = q
<1>0. p \in Seq(Segment) /\ q \in Seq(Segment) /\ <<DeletedPrefix>> \in Seq(Segment)
    BY KeyPathType, PathFirst, ConstantSegments
<1>1. CASE p = <<r>> \/ q = <<r>>
    BY <1>1, NormalizeType DEF Normalize
<1>2. CASE p # <<r>> /\ q # <<r>> /\ UnderRoot(p, r)
    BY <1>2, BelowRoot DEF Normalize
<1>3. CASE p # <<r>> /\ q # <<r>> /\ ~UnderRoot(p, r)
    <2>1. <<DeletedPrefix>> \o p = <<DeletedPrefix>> \o q
        BY <1>3 DEF Normalize
    <2> QED BY <1>0, <2>1, ConcatSimplifications
<1> QED BY <1>1, <1>2, <1>3

-----------------------------------------------------------------------------
(* Filters. *)

\* A segment in lower case stays as it is.
LEMMA LowerIsFixed ==
    ASSUME NEW s \in Segment, s.upper = FALSE
    PROVE  [s EXCEPT !.upper = FALSE] = s
    BY DEF Segment

\* Lower case keeps the length, the texts and the letters beyond ASCII.
LEMMA LowercaseType ==
    ASSUME NEW p \in Seq(Segment)
    PROVE  /\ Lowercase(p) \in Seq(Segment) /\ Len(Lowercase(p)) = Len(p)
           /\ \A i \in 1..Len(p) :
                 Lowercase(p)[i] = [p[i] EXCEPT !.upper = FALSE]
<1>1. Len(p) \in Nat /\ DOMAIN p = 1..Len(p) /\ \A i \in 1..Len(p) : p[i] \in Segment
    BY LenProperties, ElementOfSeq
<1>2. \A i \in 1..Len(p) : [p[i] EXCEPT !.upper = FALSE] \in Segment
    BY <1>1 DEF Segment
<1>3. Lowercase(p) = [i \in 1..Len(p) |-> [p[i] EXCEPT !.upper = FALSE]]
    BY <1>1 DEF Lowercase
<1>4. Lowercase(p) \in [1..Len(p) -> Segment]
    BY <1>2, <1>3
<1>5. Lowercase(p) \in Seq(Segment)
    BY <1>1, <1>4, SeqDef
<1>6. Len(Lowercase(p)) = Len(p)
    BY <1>1, <1>3, <1>5, LenProperties
<1> QED BY <1>2, <1>3, <1>5, <1>6

LEMMA PrefixMeans ==
    ASSUME NEW s \in Seq(Segment), NEW t \in Seq(Segment)
    PROVE  IsPrefix(s, t) <=> Len(s) <= Len(t) /\ \A i \in 1..Len(s) : s[i] = t[i]
<1>0. /\ Len(s) \in Nat /\ Len(t) \in Nat
      /\ \A i \in 1..Len(s) : s[i] \in Segment
      /\ \A i \in 1..Len(t) : t[i] \in Segment
    BY LenProperties, ElementOfSeq
<1>1. SubSeq(s, 1, Len(s)) = s
    BY SubSeqFull
<1> SUFFICES ASSUME Len(s) <= Len(t)
             PROVE  SubSeq(s, 1, Len(s)) = SubSeq(t, 1, Len(s)) <=>
                        \A i \in 1..Len(s) : s[i] = t[i]
    BY DEF IsPrefix
<1> DEFINE u == SubSeq(t, 1, Len(s))
<1>2. \A i \in 1..Len(s) : t[i] \in Segment
    BY <1>0
<1>3. /\ u \in Seq(Segment)
      /\ Len(u) = Len(s)
      /\ \A i \in 1..Len(s) : u[i] = t[i]
    BY <1>0, <1>2, SubSeqProperties
<1> HIDE DEF u
<1>4. (\A i \in 1..Len(s) : s[i] = t[i]) => s = u
    BY <1>3, SeqEqual
<1>5. s = u <=> \A i \in 1..Len(s) : s[i] = t[i]
    BY <1>3, <1>4
<1> QED BY <1>1, <1>5 DEF u

\* The segments normalize_filter keeps: from the first one with a name on, or
\* the last.
LEMMA FilterStart ==
    ASSUME NEW f \in Path, NEW k \in 1..Len(f),
           \A i \in 1..(k-1) : f[i] = EmptySegment,
           f[k] # EmptySegment \/ k = Len(f)
    PROVE  NormalizeFilter(f) = Lowercase(SubSeq(f, k, Len(f)))
<1> DEFINE keep == {i \in DOMAIN f : f[i] # EmptySegment \/ i = Len(f)}
           first == CHOOSE i \in keep : \A j \in keep : i <= j
<1>1. DOMAIN f = 1..Len(f) /\ Len(f) \in Nat \ {0}
    BY PathFirst
<1>2. \A i : i \in keep <=> i \in 1..Len(f) /\ (f[i] # EmptySegment \/ i = Len(f))
    BY <1>1, Zenon
<1>3. (\E i \in keep : \A j \in keep : i <= j)
        => first \in keep /\ \A j \in keep : first <= j
    BY Zenon
<1> HIDE DEF keep, first
<1>4. k \in keep /\ \A j \in keep : k <= j /\ j \in Nat
    <2>1. k \in keep
        BY <1>2
    <2>2. ASSUME NEW j \in keep PROVE k <= j /\ j \in Nat
        <3>1. j \in 1..Len(f) /\ (f[j] # EmptySegment \/ j = Len(f))
            BY <1>2
        <3>2. j \in Nat /\ k \in Nat /\ Len(f) \in Nat /\ j >= 1 /\ k <= Len(f)
            <4>1. \A n \in Nat : \A a, b \in 1..n : a \in Nat /\ b \in Nat /\ a >= 1 /\ b <= n
                OBVIOUS
            <4> QED BY <1>1, <3>1, <4>1, Zenon
        <3>3. CASE j < k
            <4>1. j \in 1..(k-1) /\ j # Len(f)
                BY <3>2, <3>3
            <4> QED BY <3>1, <4>1
        <3> QED BY <3>2, <3>3
    <2> QED BY <2>1, <2>2
<1>5. first \in keep /\ \A j \in keep : first <= j
    BY <1>3, <1>4
<1>6. first = k
    <2>1. first <= k /\ k <= first /\ first \in Nat /\ k \in Nat
        BY <1>4, <1>5
    <2> QED BY <2>1
<1> QED BY <1>6 DEF NormalizeFilter, keep, first

\* Every filter has a start.
LEMMA FilterHasStart ==
    ASSUME NEW f \in Path
    PROVE  \E k \in 1..Len(f) : /\ \A i \in 1..(k-1) : f[i] = EmptySegment
                                /\ f[k] # EmptySegment \/ k = Len(f)
<1> DEFINE keep == {i \in 1..Len(f) : f[i] # EmptySegment \/ i = Len(f)}
<1>1. Len(f) \in Nat \ {0}
    BY PathFirst
<1>2. keep \subseteq Nat /\ keep # {}
    BY <1>1
<1>3. PICK k \in keep : \A j \in keep : k <= j
    BY <1>2, LeastMember
<1>4. ASSUME NEW i \in 1..(k-1) PROVE f[i] = EmptySegment
    <2>1. i \in 1..Len(f) /\ ~(k <= i)
        BY <1>1
    <2> QED BY <1>3, <2>1
<1> QED BY <1>3, <1>4

\* normalize_filter gives a path.
LEMMA FilterType ==
    ASSUME NEW f \in Path
    PROVE  NormalizeFilter(f) \in Path
<1>1. PICK k \in 1..Len(f) : /\ \A i \in 1..(k-1) : f[i] = EmptySegment
                             /\ f[k] # EmptySegment \/ k = Len(f)
    BY FilterHasStart
<1>2. f \in Seq(Segment) /\ Len(f) \in Nat \ {0} /\ \A i \in 1..Len(f) : f[i] \in Segment
    BY PathFirst, ElementOfSeq
<1>3. /\ SubSeq(f, k, Len(f)) \in Seq(Segment)
      /\ Len(SubSeq(f, k, Len(f))) = Len(f) - k + 1
    <2>1. \A i \in k..Len(f) : f[i] \in Segment
        BY <1>2
    <2> QED BY <1>2, <2>1, SubSeqProperties
<1>4. /\ NormalizeFilter(f) \in Seq(Segment)
      /\ Len(NormalizeFilter(f)) = Len(f) - k + 1
    BY <1>1, <1>3, FilterStart, LowercaseType
<1>5. NormalizeFilter(f) # <<>>
    BY <1>2, <1>4, EmptySeq
<1> QED BY <1>4, <1>5 DEF Path

-----------------------------------------------------------------------------
(* Rows. *)

LEMMA CellTypes ==
    ASSUME NEW key \in KeyCell
    PROVE  /\ key.path \in KeyPaths /\ key.state \in {"allocated", "deleted", "modified"}
           /\ key.values \in Seq(ValueCell) /\ Len(key.values) \in Nat
           /\ \A v \in 1..Len(key.values) : key.values[v] \in ValueCell
<1>1. key.values \in Seq(ValueCell)
    BY CellAssumption DEF KeyCell
<1> QED BY <1>1, LenProperties, ElementOfSeq DEF KeyCell

LEMMA LabelTypes ==
    /\ BaseRecovery \in Recovery
    /\ HiveDiag \in {"null", "bad-checksum"}
<1>1. BaseRecovery \in Recovery
    BY Zenon DEF BaseRecovery, BaseRecoveryLabel, Recovery
<1> QED BY <1>1 DEF HiveDiag

\* The key or the value was recovered.
Gone(key, v) ==
    \/ key.state = "deleted"
    \/ v # 0 /\ key.values[v].state = "deleted"

\* What the row says of the cell it was made from.
Describes(row, key, v, r, base, diag) ==
    /\ row.key_path = Normalize(key.path, r)
    /\ row.is_value = (v # 0)
    /\ row.is_deleted = Gone(key, v)
    /\ row.recovery = IF Gone(key, v) THEN DeletedLabel(IsOrphan(key.path, r)) ELSE base
    /\ row.diagnostics = IF v # 0 /\ key.values[v].diagnostics # "null"
                         THEN key.values[v].diagnostics ELSE diag

LEMMA RowMeans ==
    ASSUME NEW key \in KeyCell, NEW v \in 0..Len(key.values), NEW r \in Segment,
           NEW base \in Recovery, NEW diag \in {"null", "bad-checksum"}
    PROVE  /\ RowOf(key, v, r, base, diag) \in Row
           /\ Describes(RowOf(key, v, r, base, diag), key, v, r, base, diag)
<1> DEFINE row == RowOf(key, v, r, base, diag)
<1>1. Normalize(key.path, r) \in Path
    BY CellTypes, NormalizeType
<1>2. /\ row.key_path = Normalize(key.path, r)
      /\ row.is_value = (v # 0)
      /\ row.is_deleted = Gone(key, v)
    BY DEF RowOf, ValueDeleted, Gone
<1>3. row.recovery = IF Gone(key, v) THEN DeletedLabel(IsOrphan(key.path, r)) ELSE base
    BY DEF RowOf, ValueDeleted, Gone
<1>4. row.diagnostics = IF v # 0 /\ key.values[v].diagnostics # "null"
                        THEN key.values[v].diagnostics ELSE diag
    BY DEF RowOf
<1>5. v # 0 => key.values[v] \in ValueCell
    BY CellTypes
<1>6. row.diagnostics \in {"null", "bad-utf16", "truncated", "bad-checksum"}
    BY <1>4, <1>5 DEF ValueCell
<1>7. row.recovery \in Recovery \cup {"deleted-orphan", "deleted-reparented"}
    BY <1>3 DEF DeletedLabel
<1>8. row = [key_path |-> row.key_path, is_value |-> row.is_value,
             is_deleted |-> row.is_deleted, recovery |-> row.recovery,
             diagnostics |-> row.diagnostics]
    BY DEF RowOf
<1>9. row \in Row
    BY <1>1, <1>2, <1>6, <1>7, <1>8 DEF Row, Gone
<1> QED BY <1>2, <1>3, <1>4, <1>9, Zenon DEF Describes

\* v is one of the rows a key gives: 0 its own, else one of its values.
Wanted(mode, key, v) ==
    \/ v = 0 /\ WantKeyRow(mode, key)
    \/ v \in 1..Len(key.values) /\ mode # "keys"

\* The rows of a key are the wanted ones, and there is always one.
LEMMA KeyEntriesAre ==
    ASSUME NEW key \in KeyCell, NEW mode
    PROVE  /\ KeyEntries(mode, key) \in Seq(Nat)
           /\ \A k \in 1..Len(KeyEntries(mode, key)) :
                 Wanted(mode, key, KeyEntries(mode, key)[k])
           /\ \A v \in Nat : Wanted(mode, key, v) =>
                 \E k \in 1..Len(KeyEntries(mode, key)) : KeyEntries(mode, key)[k] = v
<1> DEFINE own == IF WantKeyRow(mode, key) THEN <<0>> ELSE <<>>
           vals == IF mode = "keys" THEN <<>> ELSE [v \in 1..Len(key.values) |-> v]
           all == own \o vals
<1>1. Len(key.values) \in Nat
    BY CellTypes
<1>2. /\ own \in Seq(Nat) /\ Len(own) \in Nat
      /\ \A k \in 1..Len(own) : own[k] = 0 /\ WantKeyRow(mode, key)
      /\ WantKeyRow(mode, key) => Len(own) = 1 /\ own[1] = 0
    OBVIOUS
<1>3. /\ vals \in Seq(Nat) /\ Len(vals) \in Nat
      /\ \A k \in 1..Len(vals) : vals[k] = k /\ k \in 1..Len(key.values) /\ mode # "keys"
      /\ mode # "keys" => Len(vals) = Len(key.values)
    <2>1. CASE mode = "keys"
        BY <2>1
    <2>2. CASE mode # "keys"
        <3>1. vals = [v \in 1..Len(key.values) |-> v]
            BY <2>2
        <3>2. vals \in [1..Len(key.values) -> Nat]
            BY <1>1, <3>1
        <3>3. vals \in Seq(Nat)
            BY <1>1, <3>2, SeqDef
        <3>4. Len(vals) = Len(key.values)
            BY <1>1, <3>1, <3>3, LenProperties
        <3> QED BY <1>1, <2>2, <3>1, <3>3, <3>4
    <2> QED BY <2>1, <2>2
<1> HIDE DEF own, vals
<1>4. /\ all \in Seq(Nat) /\ Len(all) = Len(own) + Len(vals)
      /\ \A i \in 1..(Len(own) + Len(vals)) :
            all[i] = IF i <= Len(own) THEN own[i] ELSE vals[i - Len(own)]
    BY <1>2, <1>3, ConcatProperties
<1>5. KeyEntries(mode, key) = all
    BY DEF KeyEntries, own, vals
<1> HIDE DEF all
<1>6. ASSUME NEW k \in 1..Len(all) PROVE Wanted(mode, key, all[k])
    <2>1. CASE k <= Len(own)
        <3>1. k \in 1..Len(own) /\ all[k] = own[k]
            BY <1>2, <1>3, <1>4, <2>1
        <3>2. all[k] = 0 /\ WantKeyRow(mode, key)
            BY <1>2, <3>1
        <3> QED BY <3>2, Zenon DEF Wanted
    <2>2. CASE ~(k <= Len(own))
        <3>1. k - Len(own) \in 1..Len(vals)
            BY <1>2, <1>3, <1>4, <2>2
        <3>2. all[k] = vals[k - Len(own)]
            BY <1>4, <2>2
        <3> QED BY <1>3, <3>1, <3>2 DEF Wanted
    <2> QED BY <2>1, <2>2
<1>7. ASSUME NEW v \in Nat, Wanted(mode, key, v)
      PROVE  \E k \in 1..Len(all) : all[k] = v
    <2>1. CASE v = 0 /\ WantKeyRow(mode, key)
        <3>1. Len(own) = 1 /\ own[1] = v
            BY <1>2, <2>1, Zenon
        <3>2. 1 \in 1..Len(all) /\ all[1] = v
            BY <1>3, <1>4, <3>1
        <3> QED BY <3>2
    <2>2. CASE v \in 1..Len(key.values) /\ mode # "keys"
        <3>1. v + Len(own) \in 1..Len(all) /\ ~(v + Len(own) <= Len(own))
              /\ (v + Len(own)) - Len(own) = v
            <4>1. Len(own) \in Nat /\ Len(vals) = Len(key.values) /\ Len(key.values) \in Nat
                  /\ Len(all) = Len(own) + Len(vals)
                BY <1>1, <1>2, <1>3, <1>4, <2>2
            <4> QED BY <2>2, <4>1
        <3>2. vals[v] = v
            BY <1>3, <2>2
        <3>3. all[v + Len(own)] = v
            BY <1>4, <3>1, <3>2
        <3> QED BY <3>1, <3>3
    <2> QED BY <1>7, <2>1, <2>2 DEF Wanted
<1> QED BY <1>4, <1>5, <1>6, <1>7

\* A key always gives a row, whatever the mode.
LEMMA SomeWanted ==
    ASSUME NEW key \in KeyCell, NEW mode
    PROVE  \E v \in Nat : Wanted(mode, key, v)
<1>1. CASE WantKeyRow(mode, key)
    BY <1>1 DEF Wanted
<1>2. CASE ~WantKeyRow(mode, key)
    <2>1. key.values # <<>> /\ mode # "keys" /\ key.values \in Seq(ValueCell)
        BY <1>2, CellTypes DEF WantKeyRow
    <2>2. Len(key.values) \in Nat \ {0}
        BY <2>1, EmptySeq
    <2>3. 1 \in 1..Len(key.values)
        BY <2>2
    <2> QED BY <2>1, <2>3 DEF Wanted
<1> QED BY <1>1, <1>2

-----------------------------------------------------------------------------
(* The invariant. *)

TypeOK ==
    /\ hive \in HiveImage /\ req \in Request /\ root \in {RootName, EmptySegment}
    /\ pc \in {"next_batch", "walk", "returned", "end"} /\ done \in BOOLEAN
    /\ seen \in Seq(KeyCell)
    /\ from \in Seq(Origin)
    /\ rows \in Seq(Row) /\ Len(rows) = Len(from)

\* Each row was made from a cell of a hive that opened, which was yielded and
\* which the filter selects.
RowsMade ==
    \A i \in 1..Len(from) :
        /\ from[i].key \in Yielded
        /\ from[i].value \in 0..Len(from[i].key.values)
        /\ Selected(req.filter, Normalize(from[i].key.path, root))
        /\ Openable(hive)
        /\ rows[i] = RowOf(from[i].key, from[i].value, root, BaseRecovery, HiveDiag)

\* Each selected key has given all of its rows.
KeysTaken ==
    \A n \in 1..Len(seen) : Selected(req.filter, Normalize(seen[n].path, root)) =>
        \A v \in Nat : Wanted(Mode, seen[n], v) =>
            \E i \in 1..Len(from) : from[i].key = seen[n] /\ from[i].value = v

\* The done flag and the batches.
BatchShape ==
    /\ ~done => pc = "next_batch" /\ rows = <<>> /\ seen = <<>>
    /\ pc = "walk" => done /\ Openable(hive)
    /\ ~done \/ pc = "walk" => batches = <<>>
    /\ done /\ pc # "walk" => batches = <<BatchOf(rows)>>

WInv == TypeOK /\ RowsMade /\ KeysTaken /\ BatchShape

LEMMA WalkInit == Init => WInv
<1> SUFFICES ASSUME Init PROVE WInv
    OBVIOUS
<1>1. /\ seen = <<>> /\ rows = <<>> /\ from = <<>> /\ batches = <<>>
      /\ root = EmptySegment
      /\ pc = "next_batch" /\ done = FALSE /\ hive \in HiveImage /\ req \in Request
    BY HiveAssumption DEF Init
<1>2. Len(from) = 0 /\ Len(seen) = 0 /\ Len(rows) = 0
    BY <1>1
<1>3. TypeOK
    BY <1>1, <1>2, EmptySeq DEF TypeOK
<1>4. RowsMade /\ KeysTaken
    BY <1>2 DEF RowsMade, KeysTaken
<1>5. BatchShape
    BY <1>1 DEF BatchShape
<1> QED BY <1>3, <1>4, <1>5 DEF WInv

\* Whatever name the root was given is a segment.
LEMMA RootType ==
    ASSUME TypeOK
    PROVE  root \in Segment
    BY RootAssumption, ConstantSegments DEF TypeOK

\* The walk's parameters do not change.
LEMMA SameLabels ==
    ASSUME UNCHANGED <<hive, req>>
    PROVE  BaseRecovery' = BaseRecovery /\ HiveDiag' = HiveDiag /\ Mode' = Mode
           /\ Yielded' = Yielded
    BY DEF BaseRecovery, HiveDiag, Mode, Yielded

\* One round of the loop: its rows come after those there are.
LEMMA WalkKeyStep ==
    ASSUME WInv, NEW key \in Yielded, WalkKey(key)
    PROVE  TypeOK' /\ RowsMade' /\ KeysTaken'
<1> DEFINE picked == Selected(req.filter, Normalize(key.path, root))
           entries == IF picked THEN KeyEntries(Mode, key) ELSE <<>>
           newRows == [i \in DOMAIN entries |->
                          RowOf(key, entries[i], root, BaseRecovery, HiveDiag)]
           newFrom == [i \in DOMAIN entries |-> [key |-> key, value |-> entries[i]]]
<1>0. TypeOK /\ RowsMade /\ KeysTaken
    BY DEF WInv
<1>1. key \in KeyCell
    BY DEF Yielded
<1>2. /\ seen' = Append(seen, key) /\ rows' = rows \o newRows /\ from' = from \o newFrom
      /\ UNCHANGED <<hive, req, root, pc, done, batches>>
    BY Zenon DEF WalkKey
<1>3. BaseRecovery' = BaseRecovery /\ HiveDiag' = HiveDiag /\ Mode' = Mode
      /\ Yielded' = Yielded
    BY <1>2, SameLabels
<1>4. /\ entries \in Seq(Nat) /\ Len(entries) \in Nat /\ DOMAIN entries = 1..Len(entries)
      /\ \A k \in 1..Len(entries) : picked /\ Wanted(Mode, key, entries[k])
      /\ picked => \A v \in Nat : Wanted(Mode, key, v) =>
                        \E k \in 1..Len(entries) : entries[k] = v
    <2>1. CASE picked
        <3>1. entries = KeyEntries(Mode, key)
            BY <2>1
        <3> QED BY <1>1, <2>1, <3>1, KeyEntriesAre, LenProperties
    <2>2. CASE ~picked
        <3>1. entries = <<>>
            BY <2>2
        <3>2. entries \in Seq(Nat) /\ Len(entries) = 0
            BY <3>1, EmptySeq
        <3> QED BY <2>2, <3>2, LenProperties
    <2> QED BY <2>1, <2>2
<1> HIDE DEF entries
<1>5. \A k \in 1..Len(entries) : entries[k] \in 0..Len(key.values) /\ entries[k] \in Nat
    <2> SUFFICES ASSUME NEW k \in 1..Len(entries)
                 PROVE  entries[k] \in 0..Len(key.values) /\ entries[k] \in Nat
        OBVIOUS
    <2>1. Wanted(Mode, key, entries[k])
        BY <1>4
    <2>2. entries[k] = 0 \/ entries[k] \in 1..Len(key.values)
        BY <2>1, Zenon DEF Wanted
    <2>3. Len(key.values) \in Nat
        BY <1>1, CellTypes
    <2> QED BY <2>2, <2>3
<1>6. /\ newRows \in Seq(Row) /\ Len(newRows) = Len(entries)
      /\ \A k \in 1..Len(entries) :
            newRows[k] = RowOf(key, entries[k], root, BaseRecovery, HiveDiag)
    <2>1. newRows = [k \in 1..Len(entries) |-> RowOf(key, entries[k], root, BaseRecovery, HiveDiag)]
        BY <1>4
    <2>2. \A k \in 1..Len(entries) : RowOf(key, entries[k], root, BaseRecovery, HiveDiag) \in Row
        BY <1>0, <1>1, <1>5, RootType, LabelTypes, RowMeans
    <2>3. newRows \in [1..Len(entries) -> Row]
        BY <2>1, <2>2
    <2>4. newRows \in Seq(Row)
        BY <1>4, <2>3, SeqDef
    <2> QED BY <1>4, <2>1, <2>4, LenProperties
<1>7. /\ newFrom \in Seq(Origin) /\ Len(newFrom) = Len(entries)
      /\ \A k \in 1..Len(entries) : newFrom[k].key = key /\ newFrom[k].value = entries[k]
    <2>1. newFrom = [k \in 1..Len(entries) |-> [key |-> key, value |-> entries[k]]]
        BY <1>4
    <2>2. \A k \in 1..Len(entries) : [key |-> key, value |-> entries[k]] \in Origin
        BY <1>1, <1>5 DEF Origin
    <2>3. newFrom \in [1..Len(entries) -> Origin]
        BY <2>1, <2>2
    <2>4. newFrom \in Seq(Origin)
        BY <1>4, <2>3, SeqDef
    <2> QED BY <1>4, <2>1, <2>4, LenProperties
<1> HIDE DEF newRows, newFrom, picked
<1>8. rows \in Seq(Row) /\ from \in Seq(Origin) /\ seen \in Seq(KeyCell)
      /\ Len(rows) = Len(from) /\ Len(from) \in Nat /\ Len(seen) \in Nat
    BY <1>0, LenProperties DEF TypeOK
<1>9. /\ rows' \in Seq(Row) /\ Len(rows') = Len(from) + Len(entries)
      /\ \A i \in 1..(Len(from) + Len(entries)) :
            rows'[i] = IF i <= Len(from) THEN rows[i] ELSE newRows[i - Len(from)]
    <2>1. newRows \in Seq(Row) /\ Len(newRows) = Len(entries) /\ rows \in Seq(Row)
          /\ Len(rows) = Len(from)
        BY <1>6, <1>8
    <2>2. /\ rows \o newRows \in Seq(Row)
          /\ Len(rows \o newRows) = Len(rows) + Len(newRows)
          /\ \A i \in 1..(Len(rows) + Len(newRows)) : (rows \o newRows)[i] =
                IF i <= Len(rows) THEN rows[i] ELSE newRows[i - Len(rows)]
        BY <2>1, ConcatProperties, Zenon
    <2>3. rows' = rows \o newRows
        BY <1>2
    <2> QED BY <2>1, <2>2, <2>3, Zenon
<1>10. /\ from' \in Seq(Origin) /\ Len(from') = Len(from) + Len(entries)
       /\ \A i \in 1..(Len(from) + Len(entries)) :
            from'[i] = IF i <= Len(from) THEN from[i] ELSE newFrom[i - Len(from)]
    <2>1. newFrom \in Seq(Origin) /\ Len(newFrom) = Len(entries) /\ from \in Seq(Origin)
        BY <1>7, <1>8
    <2>2. from' = from \o newFrom
        BY <1>2
    <2>3. /\ from \o newFrom \in Seq(Origin)
          /\ Len(from \o newFrom) = Len(from) + Len(entries)
          /\ \A i \in 1..(Len(from) + Len(entries)) : (from \o newFrom)[i] =
                IF i <= Len(from) THEN from[i] ELSE newFrom[i - Len(from)]
        <3>1. /\ from \o newFrom \in Seq(Origin)
              /\ Len(from \o newFrom) = Len(from) + Len(newFrom)
              /\ \A i \in 1..(Len(from) + Len(newFrom)) : (from \o newFrom)[i] =
                    IF i <= Len(from) THEN from[i] ELSE newFrom[i - Len(from)]
            BY <2>1, ConcatProperties, Zenon
        <3> QED BY <2>1, <3>1, Zenon
    <2> QED BY <2>2, <2>3, Zenon
<1>11. /\ seen' \in Seq(KeyCell) /\ Len(seen') = Len(seen) + 1
       /\ \A n \in 1..Len(seen) : seen'[n] = seen[n]
       /\ seen'[Len(seen) + 1] = key
    BY <1>1, <1>2, <1>8, AppendProperties
<1>12. TypeOK'
    BY <1>0, <1>2, <1>9, <1>10, <1>11 DEF TypeOK
<1>13. RowsMade'
    <2> SUFFICES ASSUME NEW i \in 1..Len(from')
                 PROVE  /\ from'[i].key \in Yielded
                        /\ from'[i].value \in 0..Len(from'[i].key.values)
                        /\ Selected(req.filter, Normalize(from'[i].key.path, root))
                        /\ Openable(hive)
                        /\ rows'[i] = RowOf(from'[i].key, from'[i].value, root,
                                            BaseRecovery, HiveDiag)
        BY <1>2, <1>3 DEF RowsMade
    <2>1. CASE i <= Len(from)
        <3>1. i \in 1..Len(from) /\ from'[i] = from[i] /\ rows'[i] = rows[i]
            <4>1. i \in 1..Len(from) /\ i \in 1..(Len(from) + Len(entries))
                BY <1>4, <1>8, <1>10, <2>1
            <4> QED BY <1>9, <1>10, <2>1, <4>1
        <3> QED BY <1>0, <3>1 DEF RowsMade
    <2>2. CASE ~(i <= Len(from))
        <3> DEFINE k == i - Len(from)
        <3>1. k \in 1..Len(entries) /\ from'[i] = newFrom[k] /\ rows'[i] = newRows[k]
            <4>1. i \in 1..(Len(from) + Len(entries))
                BY <1>10
            <4>2. k \in 1..Len(entries)
                BY <1>4, <1>8, <2>2, <4>1
            <4>3. from'[i] = newFrom[k]
                BY <1>10, <2>2, <4>1
            <4>4. rows'[i] = newRows[k]
                BY <1>9, <2>2, <4>1
            <4> QED BY <4>2, <4>3, <4>4
        <3> HIDE DEF k
        <3>2. from'[i].key = key /\ from'[i].value = entries[k]
            BY <1>7, <3>1
        <3>3. picked /\ Openable(hive)
            BY <1>4, <3>1 DEF WInv, BatchShape, WalkKey
        <3> QED BY <1>5, <1>6, <3>1, <3>2, <3>3 DEF picked
    <2> QED BY <2>1, <2>2
<1>14. KeysTaken'
    <2> SUFFICES ASSUME NEW n \in 1..Len(seen'),
                        Selected(req.filter, Normalize(seen'[n].path, root)),
                        NEW v \in Nat, Wanted(Mode, seen'[n], v)
                 PROVE  \E i \in 1..Len(from') : from'[i].key = seen'[n] /\ from'[i].value = v
        BY <1>2, <1>3 DEF KeysTaken
    <2>1. CASE n \in 1..Len(seen)
        <3>1. seen'[n] = seen[n]
            BY <1>11, <2>1
        <3>2. PICK i \in 1..Len(from) : from[i].key = seen[n] /\ from[i].value = v
            BY <1>0, <2>1, <3>1 DEF KeysTaken
        <3>3. i \in 1..Len(from') /\ from'[i] = from[i]
            BY <1>4, <1>8, <1>10
        <3> QED BY <3>1, <3>2, <3>3
    <2>2. CASE n = Len(seen) + 1
        <3>1. seen'[n] = key /\ picked
            BY <1>11, <2>2 DEF picked
        <3>2. PICK k \in 1..Len(entries) : entries[k] = v
            BY <1>4, <3>1
        <3> DEFINE i == Len(from) + k
        <3>3. i \in 1..(Len(from) + Len(entries)) /\ ~(i <= Len(from)) /\ i - Len(from) = k
            BY <1>4, <1>8
        <3>4. from'[i] = newFrom[k]
            BY <1>10, <3>3
        <3>5. from'[i].key = key /\ from'[i].value = v
            BY <1>7, <3>2, <3>4
        <3> QED BY <1>10, <3>1, <3>3, <3>5
    <2>3. n \in 1..Len(seen) \/ n = Len(seen) + 1
        BY <1>8, <1>11
    <2> QED BY <2>1, <2>2, <2>3
<1> QED BY <1>12, <1>13, <1>14

\* Every step of the walk keeps the invariant.
LEMMA WalkStep == WInv /\ [Next]_vars => WInv'
<1> SUFFICES ASSUME WInv, [Next]_vars PROVE WInv'
    OBVIOUS
<1>0. TypeOK /\ RowsMade /\ KeysTaken /\ BatchShape
    BY DEF WInv
<1>1. ASSUME UNCHANGED <<hive, req, root, seen, rows, from>>,
             pc' \in {"next_batch", "walk", "returned", "end"}, done' \in BOOLEAN
      PROVE  TypeOK' /\ RowsMade' /\ KeysTaken'
    <2>1. BaseRecovery' = BaseRecovery /\ HiveDiag' = HiveDiag /\ Mode' = Mode
          /\ Yielded' = Yielded
        BY <1>1, SameLabels
    <2>2. TypeOK'
        BY <1>0, <1>1 DEF TypeOK
    <2>3. RowsMade'
        BY <1>0, <1>1, <2>1 DEF RowsMade
    <2>4. KeysTaken'
        BY <1>0, <1>1, <2>1 DEF KeysTaken
    <2> QED BY <2>2, <2>3, <2>4
<1>2. CASE NextBatchNone
    <2>1. BatchShape'
        BY <1>0, <1>2 DEF NextBatchNone, BatchShape
    <2> QED BY <1>0, <1>1, <1>2, <2>1 DEF NextBatchNone, WInv, TypeOK
<1>3. CASE OpenFails
    <2>1. batches' = Append(<<>>, BatchOf(<<>>)) /\ rows' = <<>> /\ rows = <<>>
        BY <1>0, <1>3 DEF OpenFails, BatchShape
    <2>2. batches' = <<BatchOf(rows')>>
        BY <2>1
    <2>3. BatchShape'
        BY <1>3, <2>2 DEF OpenFails, BatchShape
    <2> QED BY <1>0, <1>1, <1>3, <2>3 DEF OpenFails, WInv, TypeOK
<1>4. CASE OpenHive
    <2>1. BatchShape'
        BY <1>0, <1>4 DEF OpenHive, BatchShape
    <2>2. /\ rows = <<>> /\ seen = <<>> /\ root' \in {RootName, EmptySegment}
          /\ pc' = "walk" /\ done' = TRUE /\ UNCHANGED <<hive, req, seen, rows, from>>
        BY <1>0, <1>4, Zenon DEF OpenHive, BatchShape
    <2>3. TypeOK'
        BY <1>0, <2>2 DEF TypeOK
    <2>4. Len(from') = 0 /\ Len(seen') = 0
        BY <1>0, <2>2, EmptySeq DEF TypeOK
    <2>5. RowsMade' /\ KeysTaken'
        BY <2>4 DEF RowsMade, KeysTaken
    <2> QED BY <2>1, <2>3, <2>5 DEF WInv
<1>5. ASSUME NEW key \in Yielded, WalkKey(key) PROVE WInv'
    <2>1. TypeOK' /\ RowsMade' /\ KeysTaken'
        BY <1>5, WalkKeyStep
    <2>2. pc = "walk" /\ UNCHANGED <<hive, pc, done, batches>>
        BY <1>5, Zenon DEF WalkKey
    <2>3. BatchShape'
        BY <1>0, <2>2 DEF BatchShape
    <2> QED BY <2>1, <2>3 DEF WInv
<1>6. CASE FinishWalk
    <2>1. batches' = Append(<<>>, BatchOf(rows)) /\ rows' = rows
        BY <1>0, <1>6 DEF FinishWalk, BatchShape
    <2>2. batches' = <<BatchOf(rows')>>
        BY <2>1
    <2>3. BatchShape'
        BY <1>0, <1>6, <2>2 DEF FinishWalk, BatchShape
    <2> QED BY <1>0, <1>1, <1>6, <2>3 DEF FinishWalk, WInv, TypeOK
<1>7. CASE CallAgain
    <2>1. BatchShape'
        BY <1>0, <1>7 DEF CallAgain, BatchShape
    <2> QED BY <1>0, <1>1, <1>7, <2>1 DEF CallAgain, WInv, TypeOK
<1>8. CASE UNCHANGED vars
    <2>1. BatchShape'
        BY <1>0, <1>8 DEF vars, BatchShape
    <2> QED BY <1>0, <1>1, <1>8, <2>1 DEF vars, WInv, TypeOK
<1> QED BY <1>2, <1>3, <1>4, <1>5, <1>6, <1>7, <1>8 DEF Next

\* Every row of a reachable walk was made from a selected cell that notatin
\* yielded, every selected cell has given its rows, and the batch is the rows.
THEOREM WalkInvariant == Spec => []WInv
    BY WalkInit, WalkStep, PTL DEF Spec

-----------------------------------------------------------------------------
(* The safety properties. *)

\* What the invariant says of one row.
LEMMA RowFacts ==
    ASSUME WInv, NEW i \in DOMAIN rows
    PROVE  /\ from[i].key \in KeyCell /\ from[i].key \in Yielded
           /\ from[i].key.path \in KeyPaths
           /\ from[i].value \in 0..Len(from[i].key.values) /\ from[i].value \in Nat
           /\ from[i].value # 0 => from[i].key.values[from[i].value] \in ValueCell
           /\ Selected(req.filter, Normalize(from[i].key.path, root))
           /\ Openable(hive)
           /\ Describes(rows[i], from[i].key, from[i].value, root, BaseRecovery, HiveDiag)
<1>1. DOMAIN rows = 1..Len(from) /\ Len(from) \in Nat
    BY LenProperties DEF WInv, TypeOK
<1>2. /\ from[i].key \in Yielded
      /\ from[i].value \in 0..Len(from[i].key.values)
      /\ Selected(req.filter, Normalize(from[i].key.path, root))
      /\ Openable(hive)
      /\ rows[i] = RowOf(from[i].key, from[i].value, root, BaseRecovery, HiveDiag)
    BY <1>1 DEF WInv, RowsMade
<1>3. from[i].key \in KeyCell
    BY <1>2 DEF Yielded
<1>4. /\ from[i].key.path \in KeyPaths /\ from[i].value \in Nat
      /\ from[i].value # 0 => from[i].key.values[from[i].value] \in ValueCell
    BY <1>2, <1>3, CellTypes
<1>5. Describes(rows[i], from[i].key, from[i].value, root, BaseRecovery, HiveDiag)
    <2>1. root \in Segment
        BY RootType DEF WInv
    <2> QED BY <1>2, <1>3, <2>1, LabelTypes, RowMeans, Zenon
<1> QED BY <1>2, <1>3, <1>4, <1>5

\* A row with neither label nor diagnostic comes from a well-formed, clean hive
\* and from cells that were neither recovered nor badly decoded, and from a
\* replaced version of a key only where logs were applied (walk).
THEOREM CleanRows == Spec => []CleanRowsAreClean
<1>1. WInv => CleanRowsAreClean
    <2> SUFFICES ASSUME WInv, NEW i \in DOMAIN rows,
                        rows[i].recovery = "null", rows[i].diagnostics = "null"
                 PROVE  /\ hive.kind = "ok" /\ ~hive.dirty
                        /\ from[i].key.state # "deleted"
                        /\ from[i].key.state = "modified" =>
                              req.apply_logs /\ req.logs_present
                        /\ from[i].value # 0 =>
                              from[i].key.values[from[i].value]
                                 = [state |-> "allocated", diagnostics |-> "null"]
        BY DEF CleanRowsAreClean
    <2> DEFINE key == from[i].key
               value == from[i].value
    <2>0. Describes(rows[i], key, value, root, BaseRecovery, HiveDiag) /\ Openable(hive)
        BY RowFacts
    <2>1. ~Gone(key, value) /\ BaseRecovery = "null"
        BY <2>0 DEF Describes, DeletedLabel
    <2>2. HiveDiag = "null" /\ (value # 0 => key.values[value].diagnostics = "null")
        BY <2>0 DEF Describes
    <2>3. ~hive.dirty
        BY <2>1, Zenon DEF BaseRecovery, BaseRecoveryLabel
    <2>4. hive.kind = "ok"
        BY <2>0, <2>2 DEF HiveDiag, Openable
    <2>5. value # 0 => key.values[value] = [state |-> "allocated", diagnostics |-> "null"]
        BY <2>1, <2>2, RowFacts DEF ValueCell, Gone
    <2>6. key.state # "deleted"
        BY <2>1 DEF Gone
    <2>7. key.state = "modified" => req.apply_logs /\ req.logs_present
        BY RowFacts DEF Yielded
    <2> QED BY <2>3, <2>4, <2>5, <2>6, <2>7
<1> QED BY <1>1, WalkInvariant, PTL

\* is_deleted and the recovery label say the same of every row, whether the
\* key or only its value was recovered (walk, deleted_label).
THEOREM DeletedRowsMarked == Spec => []DeletedMarked
<1>1. WInv => DeletedMarked
    <2> SUFFICES ASSUME WInv, NEW i \in DOMAIN rows
                 PROVE  /\ rows[i].is_deleted = Gone(from[i].key, from[i].value)
                        /\ Gone(from[i].key, from[i].value) =
                             (rows[i].recovery \in {"deleted-orphan", "deleted-reparented"})
        BY Zenon DEF DeletedMarked, Gone
    <2> DEFINE gone == Gone(from[i].key, from[i].value)
    <2>1. BaseRecovery \notin {"deleted-orphan", "deleted-reparented"}
        BY LabelTypes DEF Recovery
    <2>2. /\ rows[i].is_deleted = gone
          /\ rows[i].recovery =
                IF gone THEN DeletedLabel(IsOrphan(from[i].key.path, root)) ELSE BaseRecovery
        BY RowFacts, Zenon DEF Describes
    <2>3. gone \in BOOLEAN
        BY DEF Gone
    <2>4. gone <=> rows[i].recovery \in {"deleted-orphan", "deleted-reparented"}
        BY <2>1, <2>2 DEF DeletedLabel
    <2> QED BY <2>2, <2>3, <2>4
<1> QED BY <1>1, WalkInvariant, PTL

\* Rows with the same path and the same side of the root come from cells of
\* the same path: the prefix of orphans hides no key (normalize).
THEOREM RowsIdentifyKeys == Spec => []RowIdentifiesKey
<1>1. WInv => RowIdentifiesKey
    <2> SUFFICES ASSUME WInv, NEW i \in DOMAIN rows, NEW j \in DOMAIN rows,
                        rows[i].key_path = rows[j].key_path,
                        (rows[i].recovery = "deleted-orphan")
                            = (rows[j].recovery = "deleted-orphan")
                 PROVE  from[i].key.path = from[j].key.path
        BY DEF RowIdentifiesKey
    <2>1. ASSUME NEW k \in DOMAIN rows, root # EmptySegment
          PROVE  UnderRoot(from[k].key.path, root) <=> rows[k].recovery # "deleted-orphan"
        <3>1. BaseRecovery # "deleted-orphan"
            BY LabelTypes DEF Recovery
        <3>2. root = RootName
            BY <2>1 DEF WInv, TypeOK
        <3>3. from[k].key.state # "deleted" => UnderRoot(from[k].key.path, root)
            BY <2>1, <3>2, RowFacts DEF Yielded, UnderRoot
        <3>4. Describes(rows[k], from[k].key, from[k].value, root, BaseRecovery, HiveDiag)
            BY RowFacts
        <3>5. CASE UnderRoot(from[k].key.path, root)
            BY <3>1, <3>4, <3>5 DEF Describes, DeletedLabel, IsOrphan
        <3>6. CASE ~UnderRoot(from[k].key.path, root)
            <4>1. from[k].key.path # <<root>>
                BY <2>1, <3>6 DEF UnderRoot
            <4> QED BY <3>3, <3>4, <3>6, <4>1 DEF Describes, Gone, DeletedLabel, IsOrphan
        <3> QED BY <3>5, <3>6
    <2>2. UnderRoot(from[i].key.path, root) = UnderRoot(from[j].key.path, root)
        BY <2>1 DEF UnderRoot
    <2>3. /\ Normalize(from[i].key.path, root) = Normalize(from[j].key.path, root)
          /\ from[i].key.path \in KeyPaths /\ from[j].key.path \in KeyPaths
        BY RowFacts DEF Describes
    <2>4. root \in Segment
        BY RootType DEF WInv
    <2> QED BY <2>2, <2>3, <2>4, NormalizeInjective
<1> QED BY <1>1, WalkInvariant, PTL

\* A selected key that was yielded has given its rows.
LEMMA Surfaces ==
    ASSUME WInv, NEW n \in DOMAIN seen, Selected(req.filter, Normalize(seen[n].path, root)),
           NEW v \in Nat, Wanted(Mode, seen[n], v)
    PROVE  \E i \in DOMAIN rows : from[i].key = seen[n] /\ from[i].value = v
<1>1. DOMAIN seen = 1..Len(seen) /\ DOMAIN rows = 1..Len(from)
    BY LenProperties DEF WInv, TypeOK
<1> QED BY <1>1 DEF WInv, KeysTaken

LEMMA SeenType ==
    ASSUME WInv, NEW n \in DOMAIN seen
    PROVE  seen[n] \in KeyCell
    BY LenProperties, ElementOfSeq DEF WInv, TypeOK

\* Every selected key is in the batch whatever the mode, with its key row in
\* the modes keys and all and with all its values in values and all (walk).
THEOREM KeysSurface == Spec => []EveryKeySurfaces
<1>1. WInv => EveryKeySurfaces
    <2> SUFFICES ASSUME WInv, NEW n \in DOMAIN seen,
                        Selected(req.filter, Normalize(seen[n].path, root))
                 PROVE  LET mine == {i \in DOMAIN rows : from[i].key = seen[n]}
                        IN  /\ mine # {}
                            /\ Mode # "values" => \E i \in mine : ~rows[i].is_value
                            /\ Mode # "keys" => \A v \in 1..Len(seen[n].values) :
                                                   \E i \in mine : from[i].value = v
        BY DEF EveryKeySurfaces
    <2>0. seen[n] \in KeyCell
        BY SeenType
    <2>1. \E i \in DOMAIN rows : from[i].key = seen[n]
        BY <2>0, SomeWanted, Surfaces
    <2>2. Mode # "values" => \E i \in DOMAIN rows : from[i].key = seen[n] /\ ~rows[i].is_value
        <3>1. Mode # "values" => WantKeyRow(Mode, seen[n])
            BY DEF Mode, ModeParse, WantKeyRow
        <3>2. Mode # "values" =>
                \E i \in DOMAIN rows : from[i].key = seen[n] /\ from[i].value = 0
            BY <3>1, Surfaces DEF Wanted
        <3> QED BY <3>2, RowFacts DEF Describes
    <2>3. ASSUME Mode # "keys", NEW v \in 1..Len(seen[n].values)
          PROVE  \E i \in DOMAIN rows : from[i].key = seen[n] /\ from[i].value = v
        <3>1. v \in Nat
            BY <2>0, CellTypes
        <3> QED BY <2>3, <3>1, Surfaces DEF Wanted
    <2> QED BY <2>1, <2>2, <2>3
<1> QED BY <1>1, WalkInvariant, PTL

\* The walk returns one batch, with the rows of the walk, however often
\* next_batch is called and also when the hive does not open.
THEOREM BatchOnce == Spec => []OneBatch
<1>1. WInv => OneBatch
    BY DEF WInv, BatchShape, OneBatch
<1> QED BY <1>1, WalkInvariant, PTL

\* subtree_match takes all that lies below what it takes, in any case of the
\* ASCII letters.
LEMMA MatchBelow ==
    ASSUME NEW f \in Path, NEW p \in Path, NEW q \in Path,
           SubtreeMatch(p, f), AtOrBelow(q, p)
    PROVE  SubtreeMatch(q, f)
<1>1. /\ f \in Seq(Segment) /\ p \in Seq(Segment) /\ q \in Seq(Segment)
      /\ Len(f) \in Nat \ {0} /\ Len(p) \in Nat \ {0} /\ Len(q) \in Nat \ {0}
      /\ DOMAIN p = 1..Len(p)
    BY PathFirst
<1>2. CASE f = EmptyPath
    BY <1>2 DEF SubtreeMatch
<1>3. CASE f # EmptyPath
    <2>1. /\ Lowercase(p) \in Seq(Segment) /\ Len(Lowercase(p)) = Len(p)
          /\ Lowercase(q) \in Seq(Segment) /\ Len(Lowercase(q)) = Len(q)
          /\ \A i \in 1..Len(p) : Lowercase(p)[i] = [p[i] EXCEPT !.upper = FALSE]
          /\ \A i \in 1..Len(q) : Lowercase(q)[i] = [q[i] EXCEPT !.upper = FALSE]
        BY <1>1, LowercaseType
    <2>2. Len(f) <= Len(p) /\ \A i \in 1..Len(f) : f[i] = Lowercase(p)[i]
        BY <1>1, <1>3, <2>1, PrefixMeans DEF SubtreeMatch
    <2>3. p # EmptyPath
        <3> SUFFICES ASSUME p = EmptyPath PROVE FALSE
            OBVIOUS
        <3>1. Len(p) = 1 /\ p[1] = EmptySegment
            BY DEF EmptyPath
        <3>2. Len(f) = 1 /\ f[1] = EmptySegment
            <4>1. Len(f) = 1
                BY <1>1, <2>2, <3>1
            <4>2. f[1] = Lowercase(p)[1] /\ Lowercase(p)[1] = [p[1] EXCEPT !.upper = FALSE]
                BY <2>1, <2>2, <3>1, <4>1
            <4>3. [EmptySegment EXCEPT !.upper = FALSE] = EmptySegment
                <5>1. EmptySegment \in Segment /\ EmptySegment.upper = FALSE
                    BY ConstantSegments DEF EmptySegment
                <5> QED BY <5>1, LowerIsFixed
            <4> QED BY <3>1, <4>1, <4>2, <4>3
        <3> QED BY <1>3, <3>2, OnePath DEF EmptyPath
    <2>4. Len(p) <= Len(q) /\ \A i \in 1..Len(p) : p[i].text = q[i].text /\ p[i].high = q[i].high
        BY <1>1, <2>3 DEF AtOrBelow
    <2>5. \A i \in 1..Len(f) : f[i] = Lowercase(q)[i]
        <3> SUFFICES ASSUME NEW i \in 1..Len(f) PROVE f[i] = Lowercase(q)[i]
            OBVIOUS
        <3>1. i \in 1..Len(p) /\ i \in 1..Len(q)
            BY <1>1, <2>2, <2>4
        <3>2. p[i] \in Segment /\ q[i] \in Segment
            BY <1>1, <3>1, ElementOfSeq
        <3>3. [p[i] EXCEPT !.upper = FALSE] = [q[i] EXCEPT !.upper = FALSE]
            BY <2>4, <3>1, <3>2 DEF Segment
        <3> QED BY <2>1, <2>2, <3>1, <3>3
    <2>6. Len(f) <= Len(Lowercase(q))
        BY <1>1, <2>1, <2>2, <2>4
    <2> QED BY <1>1, <2>1, <2>5, <2>6, PrefixMeans DEF SubtreeMatch
<1> QED BY <1>2, <1>3

\* The filter of a request.
LEMMA FilterIsPath ==
    ASSUME req \in Request
    PROVE  req.filter = NoFilter \/ req.filter \in Path
    BY PathAssumption DEF Request

\* With the row of a key, hive_subtree returns every key below it, in any case
\* of the ASCII letters (normalize_filter, subtree_match).
THEOREM SubtreesClosed == Spec => []SubtreeClosed
<1>1. WInv => SubtreeClosed
    <2> SUFFICES ASSUME WInv, NEW i \in DOMAIN rows, NEW n \in DOMAIN seen,
                        AtOrBelow(Normalize(seen[n].path, root), rows[i].key_path)
                 PROVE  \E j \in DOMAIN rows : from[j].key = seen[n]
        BY DEF SubtreeClosed
    <2>0. root \in Segment
        BY RootType DEF WInv
    <2>1. seen[n] \in KeyCell /\ Normalize(seen[n].path, root) \in Path
        BY <2>0, SeenType, CellTypes, NormalizeType
    <2>2. /\ rows[i].key_path = Normalize(from[i].key.path, root)
          /\ from[i].key.path \in KeyPaths
          /\ Selected(req.filter, rows[i].key_path)
        BY RowFacts DEF Describes
    <2>3. rows[i].key_path \in Path
        BY <2>0, <2>2, NormalizeType
    <2>4. Selected(req.filter, Normalize(seen[n].path, root))
        <3>1. CASE req.filter = NoFilter
            BY <3>1 DEF Selected
        <3>2. CASE req.filter # NoFilter
            <4>1. NormalizeFilter(req.filter) \in Path
                BY <3>2, FilterIsPath, FilterType DEF WInv, TypeOK
            <4>2. SubtreeMatch(rows[i].key_path, NormalizeFilter(req.filter))
                BY <2>2, <3>2 DEF Selected
            <4>3. SubtreeMatch(Normalize(seen[n].path, root), NormalizeFilter(req.filter))
                BY <2>1, <2>3, <4>1, <4>2, MatchBelow
            <4> QED BY <4>3 DEF Selected
        <3> QED BY <3>1, <3>2
    <2>5. PICK v \in Nat : Wanted(Mode, seen[n], v)
        BY <2>1, SomeWanted
    <2> QED BY <2>4, <2>5, Surfaces
<1> QED BY <1>1, WalkInvariant, PTL

\* A path that is the root's or begins with a name selects itself, with or
\* without a backslash before it.
LEMMA PathSelectsItself ==
    ASSUME NEW p \in Path, p = EmptyPath \/ p[1] # EmptySegment
    PROVE  Selected(p, p) /\ Selected(<<EmptySegment>> \o p, p)
<1>1. /\ p \in Seq(Segment) /\ Len(p) \in Nat \ {0} /\ p[1] \in Segment
      /\ \A i \in 1..Len(p) : p[i] \in Segment
    BY PathFirst, ElementOfSeq
<1>2. p = EmptyPath => Len(p) = 1
    BY DEF EmptyPath
<1>3. SubtreeMatch(p, Lowercase(p))
    <2>1. Lowercase(p) \in Seq(Segment) /\ Len(Lowercase(p)) \in Nat
        BY <1>1, LowercaseType, LenProperties
    <2>2. IsPrefix(Lowercase(p), Lowercase(p))
        BY <2>1, PrefixMeans
    <2> QED BY <2>2 DEF SubtreeMatch
<1>4. NormalizeFilter(p) = Lowercase(p)
    <2>1. 1 \in 1..Len(p) /\ (p[1] # EmptySegment \/ 1 = Len(p))
        BY <1>1, <1>2
    <2>2. \A i \in 1..(1-1) : p[i] = EmptySegment
        OBVIOUS
    <2>3. NormalizeFilter(p) = Lowercase(SubSeq(p, 1, Len(p)))
        BY <2>1, <2>2, FilterStart
    <2> QED BY <1>1, <2>3, SubSeqFull
<1> DEFINE g == <<EmptySegment>> \o p
<1>5. /\ g \in Seq(Segment) /\ Len(g) = 1 + Len(p)
      /\ g[1] = EmptySegment /\ \A i \in 1..Len(p) : g[1 + i] = p[i]
    <2>1. /\ <<EmptySegment>> \in Seq(Segment) /\ Len(<<EmptySegment>>) = 1
          /\ <<EmptySegment>>[1] = EmptySegment
        BY ConstantSegments
    <2>2. /\ g \in Seq(Segment) /\ Len(g) = 1 + Len(p)
          /\ \A i \in 1..(1 + Len(p)) : g[i] =
                IF i <= 1 THEN <<EmptySegment>>[i] ELSE p[i - 1]
        BY <1>1, <2>1, ConcatProperties
    <2>3. g[1] = EmptySegment
        BY <1>1, <2>1, <2>2
    <2>4. ASSUME NEW i \in 1..Len(p) PROVE g[1 + i] = p[i]
        <3>1. 1 + i \in 1..(1 + Len(p)) /\ ~(1 + i <= 1) /\ (1 + i) - 1 = i
            BY <1>1
        <3> QED BY <2>2, <3>1
    <2> QED BY <2>2, <2>3, <2>4
<1> HIDE DEF g
<1>6. g \in Path
    BY <1>1, <1>5, EmptySeq DEF Path
<1>7. NormalizeFilter(g) = Lowercase(SubSeq(g, 2, Len(g)))
    <2>1. 2 \in 1..Len(g) /\ (g[2] # EmptySegment \/ 2 = Len(g))
        <3>1. g[1 + 1] = p[1]
            BY <1>1, <1>5
        <3> QED BY <1>1, <1>2, <1>5, <3>1
    <2>2. \A i \in 1..(2-1) : g[i] = EmptySegment
        BY <1>5
    <2> QED BY <1>6, <2>1, <2>2, FilterStart
<1>8. SubSeq(g, 2, Len(g)) = p
    <2>1. \A i \in 2..Len(g) : g[i] \in Segment
        BY <1>1, <1>5, ElementOfSeq
    <2>2. /\ SubSeq(g, 2, Len(g)) \in Seq(Segment)
          /\ Len(SubSeq(g, 2, Len(g))) = Len(p)
          /\ \A i \in 1..Len(p) : SubSeq(g, 2, Len(g))[i] = g[2 + i - 1]
        BY <1>1, <1>5, <2>1, SubSeqProperties
    <2>3. \A i \in 1..Len(p) : SubSeq(g, 2, Len(g))[i] = p[i]
        <3> SUFFICES ASSUME NEW i \in 1..Len(p) PROVE SubSeq(g, 2, Len(g))[i] = p[i]
            OBVIOUS
        <3>1. 2 + i - 1 = 1 + i
            BY <1>1
        <3> QED BY <1>5, <2>2, <3>1
    <2> QED BY <1>1, <2>2, <2>3, SeqEqual
<1> QED BY <1>3, <1>4, <1>7, <1>8 DEF Selected, g

\* A key_path read off a row selects that row again when hive_subtree is given
\* it, with a backslash before it or without (normalize, normalize_filter).
THEOREM PathsComeBack == Spec => []PathsSelectThemselves
<1>1. WInv => PathsSelectThemselves
    <2> SUFFICES ASSUME WInv, NEW i \in DOMAIN rows
                 PROVE  /\ Selected(rows[i].key_path, rows[i].key_path)
                        /\ Selected(<<EmptySegment>> \o rows[i].key_path, rows[i].key_path)
        BY DEF PathsSelectThemselves
    <2>1. rows[i].key_path = Normalize(from[i].key.path, root) /\ from[i].key.path \in KeyPaths
        BY RowFacts DEF Describes
    <2>2. /\ rows[i].key_path \in Path
          /\ rows[i].key_path = EmptyPath \/ rows[i].key_path[1] # EmptySegment
        <3>1. root \in Segment
            BY RootType DEF WInv
        <3> QED BY <2>1, <3>1, NormalizeType
    <2> QED BY <2>2, PathSelectsItself
<1> QED BY <1>1, WalkInvariant, PTL
=============================================================================
