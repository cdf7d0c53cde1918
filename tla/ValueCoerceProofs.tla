------------------------- MODULE ValueCoerceProofs --------------------------
(***************************************************************************)
(* The columns of a registry value, for every code, every byte string and  *)
(* every base of the digits: the rendering is the one the type's name      *)
(* promises, text keeps its units, components are neither lost nor joined, *)
(* and bad units are flagged.                                              *)
(***************************************************************************)
EXTENDS ValueCoerce, LeastNumber, SequenceTheorems

-----------------------------------------------------------------------------
(* Sequences. *)

IsSeq(s) == s \in Seq(Range(s))

LEMMA SeqIsSeq ==
    ASSUME NEW S, NEW s \in Seq(S)
    PROVE  IsSeq(s)
<1>1. Len(s) \in Nat /\ s \in [1..Len(s) -> S]
    BY LenProperties
<1>2. s \in [1..Len(s) -> Range(s)]
    BY <1>1 DEF Range
<1> QED BY <1>1, <1>2, SeqDef DEF IsSeq

\* A list given by its entries.
LEMMA MapSeq ==
    ASSUME NEW n \in Nat, NEW g, g = [i \in 1..n |-> g[i]]
    PROVE  IsSeq(g) /\ Len(g) = n
<1>1. g \in [1..n -> Range(g)]
    BY DEF Range
<1>2. g \in Seq(Range(g))
    BY <1>1, SeqDef
<1> QED BY <1>1, <1>2, LenProperties DEF IsSeq

LEMMA SeqFacts ==
    ASSUME NEW s, IsSeq(s)
    PROVE  Len(s) \in Nat /\ DOMAIN s = 1..Len(s) /\ s = [i \in 1..Len(s) |-> s[i]]
<1>1. Len(s) \in Nat /\ s \in [1..Len(s) -> Range(s)]
    BY LenProperties DEF IsSeq
<1> QED BY <1>1

\* Two lists with the same entries.
LEMMA SeqSame ==
    ASSUME NEW s, IsSeq(s), NEW t, IsSeq(t), Len(s) = Len(t),
           \A i \in 1..Len(s) : s[i] = t[i]
    PROVE  s = t
<1>1. s = [i \in 1..Len(s) |-> s[i]] /\ t = [i \in 1..Len(s) |-> t[i]]
    BY SeqFacts
<1>2. [i \in 1..Len(s) |-> s[i]] = [i \in 1..Len(s) |-> t[i]]
    OBVIOUS
<1> QED BY <1>1, <1>2

LEMMA EmptyIsSeq == IsSeq(<<>>) /\ Len(<<>>) = 0
    BY EmptySeq, SeqIsSeq

LEMMA EmptyOrNot ==
    ASSUME NEW s, IsSeq(s)
    PROVE  s = <<>> <=> Len(s) = 0
    BY EmptySeq DEF IsSeq

\* The first n entries of a list.
Prefix(t, s, n) ==
    IsSeq(t) /\ Len(t) = n /\ \A i \in 1..n : t[i] = s[i]

LEMMA SubSeqPrefix ==
    ASSUME NEW s, IsSeq(s), NEW n \in 0..Len(s)
    PROVE  Prefix(SubSeq(s, 1, n), s, n)
<1>1. Len(s) \in Nat /\ n \in Nat /\ s \in Seq(Range(s))
    BY SeqFacts DEF IsSeq
<1>2. /\ SubSeq(s, 1, n) \in Seq(Range(s))
      /\ Len(SubSeq(s, 1, n)) = IF 1 <= n THEN n - 1 + 1 ELSE 0
      /\ \A i \in 1..(n - 1 + 1) : SubSeq(s, 1, n)[i] = s[1 + i - 1]
    BY <1>1, SubSeqProperties
<1> DEFINE t == SubSeq(s, 1, n)
<1> HIDE DEF t
<1>3. Len(t) = n
    BY <1>1, <1>2 DEF t
<1>4. \A i \in 1..n : t[i] = s[i]
    <2> SUFFICES ASSUME NEW i \in 1..n PROVE t[i] = s[i]
        OBVIOUS
    <2>1. i \in 1..(n - 1 + 1) /\ 1 + i - 1 = i
        BY <1>1
    <2> QED BY <1>2, <2>1 DEF t
<1>5. IsSeq(t)
    BY <1>2, SeqIsSeq DEF t
<1> QED BY <1>3, <1>4, <1>5 DEF Prefix, t

-----------------------------------------------------------------------------
(* Units and their decoding. *)

LEMMA RawSeq ==
    ASSUME cell \in ValueCell
    PROVE  Raw \in Seq(Byte) /\ IsSeq(Raw) /\ Len(Raw) \in Nat /\ DOMAIN Raw = 1..Len(Raw)
<1>1. Raw \in Seq(Byte)
    <2>1. <<>> \in Seq(Byte)
        BY EmptySeq
    <2> QED BY <2>1, CellAssumption DEF Raw
<1> QED BY <1>1, SeqIsSeq, LenProperties

LEMMA HalfOf == \A n \in Nat : n \div 2 \in Nat /\ (n % 2 = 0 \/ n % 2 = 1)
                               /\ n = 2 * (n \div 2) + (n % 2)
    OBVIOUS

LEMMA UnitsSeq ==
    ASSUME NEW bytes, Len(bytes) \in Nat
    PROVE  IsSeq(Units(bytes)) /\ Len(Units(bytes)) = Len(bytes) \div 2
<1> DEFINE n == Len(bytes) \div 2
           us == Units(bytes)
<1>1. n \in Nat
    BY HalfOf
<1>2. us = [i \in 1..n |-> us[i]]
    BY DEF Units
<1> HIDE DEF us, n
<1>3. IsSeq(us) /\ Len(us) = n
    BY <1>1, <1>2, MapSeq
<1> QED BY <1>3 DEF us, n

LEMMA Decoding ==
    ASSUME NEW us, IsSeq(us)
    PROVE  /\ IsSeq(DecodeUtf16(us)) /\ Len(DecodeUtf16(us)) = Len(us)
           /\ \A i \in 1..Len(us) :
                 DecodeUtf16(us)[i] = IF Paired(us, i) THEN us[i] ELSE Replacement
<1> DEFINE t == DecodeUtf16(us)
           n == Len(us)
<1>1. n \in Nat /\ DOMAIN us = 1..n
    BY SeqFacts
<1>2. /\ t = [i \in 1..n |-> t[i]]
      /\ \A i \in 1..n : t[i] = IF Paired(us, i) THEN us[i] ELSE Replacement
    BY <1>1 DEF DecodeUtf16
<1> HIDE DEF t, n
<1>3. IsSeq(t) /\ Len(t) = n
    BY <1>1, <1>2, MapSeq
<1> QED BY <1>2, <1>3 DEF t, n

\* A NUL is no surrogate.
LEMMA NulFacts ==
    /\ NUL \notin High /\ NUL \notin Low /\ Replacement # NUL /\ Newline # NUL
    /\ \A us, i : us[i] = NUL => Paired(us, i)
    BY UnitAssumption DEF Paired

\* The list cs is the n units of us after the first b, between the ends of us
\* or NULs.
Slice(cs, us, b) ==
    /\ IsSeq(cs) /\ IsSeq(us) /\ b \in Nat /\ b + Len(cs) <= Len(us)
    /\ \A i \in 1..Len(cs) : cs[i] = us[b + i]
    /\ b > 0 => us[b] = NUL
    /\ b + Len(cs) < Len(us) => us[b + Len(cs) + 1] = NUL

\* It pairs its surrogates as us does.
LEMMA SlicePairs ==
    ASSUME NEW cs, NEW us, NEW b, Slice(cs, us, b), NEW i \in 1..Len(cs)
    PROVE  Paired(cs, i) <=> Paired(us, b + i)
<1> DEFINE n == Len(cs)
           m == Len(us)
<1>1. n \in Nat /\ m \in Nat /\ b \in Nat /\ b + n <= m /\ i \in 1..n
    BY SeqFacts DEF Slice
<1>2. cs[i] = us[b + i]
    BY DEF Slice
<1>3. i < n => cs[i + 1] = us[(b + i) + 1] /\ b + i < m
    <2> SUFFICES ASSUME i < n PROVE cs[i + 1] = us[(b + i) + 1] /\ b + i < m
        OBVIOUS
    <2>1. i + 1 \in 1..n /\ b + (i + 1) = (b + i) + 1 /\ b + i < m
        BY <1>1
    <2> QED BY <2>1 DEF Slice
<1>4. i > 1 => cs[i - 1] = us[(b + i) - 1] /\ b + i > 1
    <2> SUFFICES ASSUME i > 1 PROVE cs[i - 1] = us[(b + i) - 1] /\ b + i > 1
        OBVIOUS
    <2>1. i - 1 \in 1..n /\ b + (i - 1) = (b + i) - 1 /\ b + i > 1
        BY <1>1
    <2> QED BY <2>1 DEF Slice
<1>5. ~(i < n) /\ b + i < m => us[(b + i) + 1] = NUL
    <2> SUFFICES ASSUME ~(i < n), b + i < m PROVE us[(b + i) + 1] = NUL
        OBVIOUS
    <2>1. i = n
        BY <1>1
    <2> QED BY <2>1 DEF Slice
<1>6. ~(i > 1) /\ b + i > 1 => us[(b + i) - 1] = NUL
    <2> SUFFICES ASSUME ~(i > 1), b + i > 1 PROVE us[(b + i) - 1] = NUL
        OBVIOUS
    <2>1. (b + i) - 1 = b /\ b > 0
        BY <1>1
    <2> QED BY <2>1 DEF Slice
<1> HIDE DEF n, m
<1> QED BY <1>2, <1>3, <1>4, <1>5, <1>6, NulFacts DEF Paired, n, m

LEMMA SlicePairs0 ==
    ASSUME NEW cs, NEW us, Slice(cs, us, 0), NEW i \in 1..Len(cs)
    PROVE  Paired(cs, i) <=> Paired(us, i)
<1>1. 0 + i = i
    BY SeqFacts DEF Slice
<1> QED BY <1>1, SlicePairs

\* Without its terminator.
Trimmed(us) == IF Len(us) > 0 /\ us[Len(us)] = NUL THEN Len(us) - 1 ELSE Len(us)

LEMMA Trims ==
    ASSUME NEW us, IsSeq(us)
    PROVE  /\ Trimmed(us) \in 0..Len(us)
           /\ Prefix(TrimNul(us), us, Trimmed(us))
           /\ Slice(TrimNul(us), us, 0)
           /\ Trimmed(us) < Len(us) => Trimmed(us) + 1 = Len(us) /\ us[Trimmed(us) + 1] = NUL
<1> DEFINE n == Len(us)
           m == Trimmed(us)
           ts == TrimNul(us)
<1>1. n \in Nat
    BY SeqFacts
<1>2. m \in 0..n /\ (m < n => m + 1 = n /\ us[m + 1] = NUL)
    BY <1>1 DEF Trimmed
<1>3. us # <<>> <=> n > 0
    BY <1>1, EmptyOrNot
<1>4. Prefix(ts, us, m)
    <2>1. CASE n > 0 /\ us[n] = NUL
        <3>1. ts = SubSeq(us, 1, n - 1) /\ m = n - 1
            BY <1>3, <2>1 DEF TrimNul, Front, Last, Trimmed
        <3>2. n - 1 \in 0..n
            BY <1>1, <2>1
        <3> QED BY <3>1, <3>2, SubSeqPrefix
    <2>2. CASE ~(n > 0 /\ us[n] = NUL)
        <3>1. ts = us /\ m = n
            BY <1>3, <2>2 DEF TrimNul, Last, Trimmed
        <3> QED BY <3>1 DEF Prefix
    <2> QED BY <2>1, <2>2
<1> HIDE DEF ts, m
<1>5. Slice(ts, us, 0)
    <2>1. IsSeq(ts) /\ Len(ts) = m /\ \A i \in 1..m : ts[i] = us[i]
        BY <1>4 DEF Prefix
    <2>2. \A i \in 1..m : 0 + i = i
        BY <1>2
    <2>3. 0 + m = m /\ 0 + m + 1 = m + 1
        BY <1>2
    <2> QED BY <1>1, <1>2, <2>1, <2>2, <2>3 DEF Slice
<1> QED BY <1>2, <1>4, <1>5 DEF m, ts

\* The text of a string.
LEMMA TextOf ==
    ASSUME NEW us, IsSeq(us)
    PROVE  LET text == DecodeUtf16(TrimNul(us))
           IN  /\ IsSeq(text) /\ Len(text) = Trimmed(us)
               /\ \A i \in 1..Trimmed(us) :
                     text[i] = IF Paired(us, i) THEN us[i] ELSE Replacement
<1> DEFINE ts == TrimNul(us)
           m == Trimmed(us)
           text == DecodeUtf16(ts)
<1>1. Prefix(ts, us, m) /\ Slice(ts, us, 0)
    BY Trims
<1>2. IsSeq(ts) /\ Len(ts) = m /\ \A i \in 1..m : ts[i] = us[i]
    BY <1>1 DEF Prefix
<1> HIDE DEF ts, m
<1>3. /\ IsSeq(text) /\ Len(text) = m
      /\ \A i \in 1..m : text[i] = IF Paired(ts, i) THEN ts[i] ELSE Replacement
    BY <1>2, Decoding
<1>4. \A i \in 1..m : Paired(ts, i) <=> Paired(us, i)
    BY <1>1, <1>2, SlicePairs0
<1> HIDE DEF text
<1>5. \A i \in 1..m : text[i] = IF Paired(us, i) THEN us[i] ELSE Replacement
    BY <1>2, <1>3, <1>4
<1> QED BY <1>3, <1>5 DEF text, m, ts

\* The terminator hides no bad unit.
LEMMA ErrorsOf ==
    ASSUME NEW us, IsSeq(us)
    PROVE  HasErrors(TrimNul(us)) <=> \E i \in 1..Len(us) : ~Paired(us, i)
<1> DEFINE ts == TrimNul(us)
           m == Trimmed(us)
           n == Len(us)
<1>1. /\ Prefix(ts, us, m) /\ Slice(ts, us, 0) /\ m \in 0..n
      /\ m < n => m + 1 = n /\ us[m + 1] = NUL
    BY Trims
<1>2. IsSeq(ts) /\ Len(ts) = m /\ DOMAIN ts = 1..m /\ n \in Nat
    BY <1>1, SeqFacts DEF Prefix
<1> HIDE DEF ts, m, n
<1>3. \A i \in 1..m : Paired(ts, i) <=> Paired(us, i)
    BY <1>1, <1>2, SlicePairs0
<1>4. \A i \in 1..n : i \in 1..m \/ Paired(us, i)
    <2> SUFFICES ASSUME NEW i \in 1..n, ~(i \in 1..m) PROVE Paired(us, i)
        OBVIOUS
    <2>1. i = m + 1 /\ m < n
        BY <1>1, <1>2
    <2> QED BY <1>1, <2>1, NulFacts
<1>5. \A i \in 1..m : i \in 1..n
    BY <1>1, <1>2
<1> QED BY <1>2, <1>3, <1>4, <1>5 DEF HasErrors, ts, n

-----------------------------------------------------------------------------
(* The reader of the file name. *)

\* Where the first NUL cuts a list.
CutAt(us, c) ==
    /\ c \in 0..Len(us)
    /\ c < Len(us) => us[c + 1] = NUL
    /\ \A i \in 1..c : us[i] # NUL

Cuts(us) == {Len(us)} \cup {i - 1 : i \in {j \in DOMAIN us : us[j] = NUL}}

LEMMA FirstNul ==
    ASSUME NEW us, IsSeq(us)
    PROVE  CutAt(us, Min(Cuts(us)))
<1> DEFINE n == Len(us)
           T == Cuts(us)
           c == Min(T)
<1>1. n \in Nat /\ DOMAIN us = 1..n
    BY SeqFacts
<1>2. \A x : x \in T <=> x = n \/ \E i \in 1..n : us[i] = NUL /\ x = i - 1
    BY <1>1 DEF Cuts
<1>3. T \subseteq Nat /\ T # {} /\ n \in T
    BY <1>1, <1>2
<1>4. c \in T /\ \A y \in T : c <= y
    <2> HIDE DEF T
    <2>1. \E x \in T : \A y \in T : x <= y
        BY <1>3, LeastMember
    <2> QED BY <2>1 DEF Min
<1> HIDE DEF T, c
<1>5. c \in 0..n
    BY <1>1, <1>3, <1>4
<1>6. c < n => us[c + 1] = NUL
    <2> SUFFICES ASSUME c < n PROVE us[c + 1] = NUL
        OBVIOUS
    <2>1. PICK i \in 1..n : us[i] = NUL /\ c = i - 1
        BY <1>1, <1>2, <1>4
    <2>2. c + 1 = i
        BY <1>1, <2>1
    <2> QED BY <2>1, <2>2
<1>7. ASSUME NEW i \in 1..c, us[i] = NUL PROVE FALSE
    <2>1. i \in 1..n /\ i - 1 < c
        BY <1>1, <1>5
    <2>2. i - 1 \in T
        BY <1>2, <1>7, <2>1
    <2> QED BY <1>4, <1>5, <2>1, <2>2
<1> QED BY <1>5, <1>6, <1>7 DEF CutAt, c, T

LEMMA OneCut ==
    ASSUME NEW us, IsSeq(us), NEW c, CutAt(us, c), NEW d, CutAt(us, d)
    PROVE  c = d
<1>1. Len(us) \in Nat /\ c \in 0..Len(us) /\ d \in 0..Len(us)
    BY SeqFacts DEF CutAt
<1>2. ~(c < d)
    <2> SUFFICES ASSUME c < d PROVE FALSE
        OBVIOUS
    <2>1. c + 1 \in 1..d /\ c < Len(us)
        BY <1>1
    <2> QED BY <2>1 DEF CutAt
<1>3. ~(d < c)
    <2> SUFFICES ASSUME d < c PROVE FALSE
        OBVIOUS
    <2>1. d + 1 \in 1..c /\ d < Len(us)
        BY <1>1
    <2> QED BY <2>1 DEF CutAt
<1> QED BY <1>1, <1>2, <1>3

\* The base block's reader gives the text of the string up to its first NUL.
LEMMA FilenameIs ==
    ASSUME NEW bytes, Len(bytes) \in Nat
    PROVE  LET text == DecodeUtf16(TrimNul(Units(bytes)))
           IN  DecodeFilename(bytes) = SubSeq(text, 1, Min(Cuts(text)))
<1> DEFINE us == Units(bytes)
           text == DecodeUtf16(TrimNul(us))
           m == Trimmed(us)
           n == Len(us)
           c == Min(Cuts(text))
           d == Min(Cuts(us))
<1>1. IsSeq(us)
    BY UnitsSeq
<1>2. DecodeFilename(bytes) = DecodeUtf16(SubSeq(us, 1, d))
    BY DEF DecodeFilename, Cuts
<1> HIDE DEF us
<1>3. /\ IsSeq(text) /\ Len(text) = m
      /\ \A i \in 1..m : text[i] = IF Paired(us, i) THEN us[i] ELSE Replacement
    BY <1>1, TextOf
<1>4. n \in Nat /\ m \in 0..n /\ (m < n => m + 1 = n /\ us[m + 1] = NUL)
    BY <1>1, Trims, SeqFacts
<1> HIDE DEF text, m, n
<1>5. \A i \in 1..m : text[i] = NUL <=> us[i] = NUL
    BY <1>3, NulFacts
<1>6. CutAt(text, c)
    BY <1>3, FirstNul
<1>7. CutAt(us, d)
    BY <1>1, FirstNul
<1> HIDE DEF c, d
<1>8. c \in 0..m /\ (c < m => text[c + 1] = NUL) /\ \A i \in 1..c : text[i] # NUL
    BY <1>3, <1>6 DEF CutAt
<1>9. CutAt(us, c)
    <2>1. c \in 0..n
        BY <1>4, <1>8
    <2>2. \A i \in 1..c : us[i] # NUL
        <3>1. \A i \in 1..c : i \in 1..m
            BY <1>4, <1>8
        <3> QED BY <1>5, <1>8, <3>1
    <2>3. c < n => us[c + 1] = NUL
        <3>1. CASE c < m
            <4>1. c + 1 \in 1..m
                BY <1>4, <1>8, <3>1
            <4> QED BY <1>5, <1>8, <3>1, <4>1
        <3>2. CASE c = m
            BY <1>4, <3>2
        <3> QED BY <1>4, <1>8, <3>1, <3>2
    <2> QED BY <2>1, <2>2, <2>3 DEF CutAt, n
<1>10. c = d
    BY <1>1, <1>7, <1>9, OneCut
<1> DEFINE cs == SubSeq(us, 1, c)
           r == SubSeq(text, 1, c)
<1>11. Prefix(cs, us, c)
    <2>1. c \in 0..Len(us)
        BY <1>9 DEF CutAt
    <2> QED BY <1>1, <2>1, SubSeqPrefix
<1>12. Prefix(r, text, c)
    BY <1>3, <1>8, SubSeqPrefix
<1> HIDE DEF cs, r
<1>13. Slice(cs, us, 0)
    <2>1. IsSeq(cs) /\ Len(cs) = c /\ \A i \in 1..c : cs[i] = us[i]
        BY <1>11 DEF Prefix
    <2>2. /\ \A i \in 1..c : 0 + i = i
          /\ 0 + c = c /\ 0 + c + 1 = c + 1 /\ 0 \in Nat /\ ~(0 > 0)
        BY <1>4, <1>8
    <2>3. c <= Len(us) /\ (c < Len(us) => us[c + 1] = NUL)
        BY <1>4, <1>9 DEF CutAt, n
    <2> QED BY <1>1, <2>1, <2>2, <2>3 DEF Slice
<1>14. /\ IsSeq(DecodeUtf16(cs)) /\ Len(DecodeUtf16(cs)) = c
       /\ \A i \in 1..c : DecodeUtf16(cs)[i] = IF Paired(us, i) THEN us[i] ELSE Replacement
    <2>1. IsSeq(cs) /\ Len(cs) = c /\ \A i \in 1..c : cs[i] = us[i]
        BY <1>11 DEF Prefix
    <2>2. /\ IsSeq(DecodeUtf16(cs)) /\ Len(DecodeUtf16(cs)) = c
          /\ \A i \in 1..c : DecodeUtf16(cs)[i] = IF Paired(cs, i) THEN cs[i] ELSE Replacement
        BY <2>1, Decoding
    <2>3. \A i \in 1..c : Paired(cs, i) <=> Paired(us, i)
        BY <1>13, <2>1, SlicePairs0
    <2> DEFINE ds == DecodeUtf16(cs)
    <2> HIDE DEF ds
    <2>4. \A i \in 1..c : ds[i] = IF Paired(us, i) THEN us[i] ELSE Replacement
        BY <2>1, <2>2, <2>3 DEF ds
    <2> QED BY <2>2, <2>4 DEF ds
<1>15. /\ IsSeq(r) /\ Len(r) = c
       /\ \A i \in 1..c : r[i] = IF Paired(us, i) THEN us[i] ELSE Replacement
    <2>1. IsSeq(r) /\ Len(r) = c /\ \A i \in 1..c : r[i] = text[i]
        BY <1>12 DEF Prefix
    <2>2. \A i \in 1..c : i \in 1..m
        BY <1>4, <1>8
    <2> QED BY <1>3, <2>1, <2>2
<1>16. DecodeUtf16(cs) = r
    <2> DEFINE ds == DecodeUtf16(cs)
    <2> HIDE DEF ds
    <2>1. \A i \in 1..c : ds[i] = r[i]
        BY <1>14, <1>15 DEF ds
    <2>2. IsSeq(ds) /\ Len(ds) = c
        BY <1>14 DEF ds
    <2>3. ds = r
        BY <1>15, <2>1, <2>2, SeqSame
    <2> QED BY <2>3 DEF ds
<1> QED BY <1>2, <1>10, <1>16 DEF cs, r, c, d, text, us

-----------------------------------------------------------------------------
(* Types: the name and the rendering go by the same code. *)

Code == TypeOf(cell.type_raw)

LEMMA CodeRange ==
    ASSUME cell \in ValueCell
    PROVE  Code \in Nat
    BY CellAssumption DEF Code, TypeOf, DEVPROP_MASK_TYPE

LEMMA RegNames ==
    /\ RegName[1] = "REG_NONE" /\ RegName[2] = "REG_SZ" /\ RegName[3] = "REG_EXPAND_SZ"
    /\ RegName[4] = "REG_BINARY" /\ RegName[5] = "REG_DWORD"
    /\ RegName[6] = "REG_DWORD_BIG_ENDIAN" /\ RegName[7] = "REG_LINK"
    /\ RegName[8] = "REG_MULTI_SZ" /\ RegName[9] = "REG_RESOURCE_LIST"
    /\ RegName[10] = "REG_FULL_RESOURCE_DESCRIPTOR"
    /\ RegName[11] = "REG_RESOURCE_REQUIREMENTS_LIST" /\ RegName[12] = "REG_QWORD"
    BY DEF RegName

LEMMA Tuples ==
    /\ \A a, b : <<a>> = <<b>> <=> a = b
    /\ \A a, b, c : <<a>> # <<b, c>>
    OBVIOUS

\* The name of a code among the named ones is that code's alone.
LEMMA NameIs ==
    ASSUME cell \in ValueCell
    PROVE  \/ /\ Code \in 0..11 /\ TypeName(cell.type_raw) = <<RegName[Code + 1]>>
           \/ Code = 16 /\ TypeName(cell.type_raw) = <<"REG_FILETIME">>
           \/ Code \notin 0..11 \cup {16} /\ TypeName(cell.type_raw) = <<"REG_", Code>>
    BY DEF TypeName, Code, TypeOf

Known(a) == TypeName(cell.type_raw) = <<a>>

LEMMA KnownCodes ==
    ASSUME cell \in ValueCell
    PROVE  /\ Known("REG_SZ") <=> Code = 1
           /\ Known("REG_EXPAND_SZ") <=> Code = 2
           /\ Known("REG_LINK") <=> Code = 6
           /\ Known("REG_MULTI_SZ") <=> Code = 7
           /\ Known("REG_DWORD") <=> Code = 4
           /\ Known("REG_DWORD_BIG_ENDIAN") <=> Code = 5
           /\ Known("REG_QWORD") <=> Code = 11
           /\ Known("REG_FILETIME") <=> Code = 16
<1>1. CASE Code \in 0..11 /\ TypeName(cell.type_raw) = <<RegName[Code + 1]>>
    <2>1. \A a : Known(a) <=> RegName[Code + 1] = a
        BY <1>1, Tuples DEF Known
    <2>2. Code \in {0, 1, 2, 3, 4, 5, 6, 7, 8, 9, 10, 11}
        BY <1>1
    <2> HIDE DEF Known
    <2>3. CASE Code \in {0, 1, 2, 3}
        BY <2>1, <2>3, RegNames
    <2>4. CASE Code \in {4, 5, 6, 7}
        BY <2>1, <2>4, RegNames
    <2>5. CASE Code \in {8, 9, 10, 11}
        BY <2>1, <2>5, RegNames
    <2> QED BY <2>2, <2>3, <2>4, <2>5
<1>2. CASE Code = 16 /\ TypeName(cell.type_raw) = <<"REG_FILETIME">>
    <2>1. \A a : Known(a) <=> "REG_FILETIME" = a
        BY <1>2, Tuples DEF Known
    <2> QED BY <1>2, <2>1
<1>3. CASE Code \notin 0..11 \cup {16} /\ TypeName(cell.type_raw) = <<"REG_", Code>>
    <2>1. \A a : ~Known(a)
        BY <1>3, Tuples DEF Known
    <2>2. /\ Code # 1 /\ Code # 2 /\ Code # 4 /\ Code # 5 /\ Code # 6 /\ Code # 7
          /\ Code # 11 /\ Code # 16
        BY <1>3
    <2> QED BY <2>1, <2>2
<1> QED BY <1>1, <1>2, <1>3, NameIs

\* What a reader takes a row's type for.
LEMMA TypesAre ==
    ASSUME cell \in ValueCell
    PROVE  /\ IsString <=> Code \in {1, 2, 6}
           /\ IsMulti <=> Code = 7
           /\ Width = IF Code \in {4, 5} THEN 4 ELSE IF Code \in {11, 16} THEN 8 ELSE 0
<1>1. DecodedValue.value_type = TypeName(cell.type_raw)
    BY DEF DecodedValue
<1>2. /\ IsString <=> Known("REG_SZ") \/ Known("REG_EXPAND_SZ") \/ Known("REG_LINK")
      /\ IsMulti <=> Known("REG_MULTI_SZ")
    BY <1>1 DEF IsString, IsMulti, Known
<1>3. Width = IF Known("REG_DWORD") \/ Known("REG_DWORD_BIG_ENDIAN") THEN 4
              ELSE IF Known("REG_QWORD") \/ Known("REG_FILETIME") THEN 8 ELSE 0
    <2>1. ~(  (Known("REG_DWORD") \/ Known("REG_DWORD_BIG_ENDIAN"))
            /\ (Known("REG_QWORD") \/ Known("REG_FILETIME")))
        BY Tuples DEF Known
    <2>2. Width = CASE Known("REG_DWORD") \/ Known("REG_DWORD_BIG_ENDIAN") -> 4
                    [] Known("REG_QWORD") \/ Known("REG_FILETIME") -> 8
                    [] OTHER -> 0
        BY <1>1 DEF Width, Known
    <2> QED BY <2>1, <2>2
<1> QED BY <1>2, <1>3, KnownCodes

-----------------------------------------------------------------------------
(* Hexadecimal text. *)

LEMMA DivMod ==
    ASSUME NEW h \in Nat \ {0}, NEW b \in Nat
    PROVE  /\ b \div h \in Nat /\ b % h \in Nat
           /\ (b \div h) * h + (b % h) = b
    OBVIOUS

LEMMA HexGivesBack ==
    ASSUME NEW bytes \in Seq(Byte)
    PROVE  Len(ToHexLower(bytes)) = 2 * Len(bytes) /\ Unhex(ToHexLower(bytes)) = bytes
<1> DEFINE n == Len(bytes)
           t == ToHexLower(bytes)
           u == Unhex(t)
<1>1. n \in Nat /\ IsSeq(bytes) /\ \A i \in 1..n : bytes[i] \in Nat
    <2>1. \A i \in 1..n : bytes[i] \in Byte
        BY ElementOfSeq
    <2>2. Byte \subseteq Nat
        BY DEF Byte
    <2> QED BY <2>1, <2>2, LenProperties, SeqIsSeq
<1>2. t = [i \in 1..(2 * n) |-> t[i]]
    BY DEF ToHexLower
<1>3. ASSUME NEW i \in 1..n
      PROVE  t[2 * i - 1] = bytes[i] \div HexBase /\ t[2 * i] = bytes[i] % HexBase
    <2>1. /\ 2 * i - 1 \in 1..(2 * n) /\ 2 * i \in 1..(2 * n)
          /\ ((2 * i - 1) + 1) \div 2 = i /\ (2 * i + 1) \div 2 = i
          /\ 2 - ((2 * i - 1) % 2) = 1 /\ 2 - ((2 * i) % 2) = 2
        BY <1>1
    <2>2. \A k \in 1..(2 * n) : t[k] = HexByte(bytes[(k + 1) \div 2])[2 - (k % 2)]
        BY DEF ToHexLower
    <2> HIDE DEF t
    <2>3. t[2 * i - 1] = HexByte(bytes[i])[1] /\ t[2 * i] = HexByte(bytes[i])[2]
        BY <2>1, <2>2
    <2> QED BY <2>3 DEF HexByte
<1> HIDE DEF t
<1>4. Len(t) = 2 * n
    <2>1. 2 * n \in Nat
        BY <1>1
    <2> QED BY <1>2, <2>1, MapSeq
<1>5. u = [i \in 1..n |-> t[2 * i - 1] * HexBase + t[2 * i]]
    <2>1. (2 * n) \div 2 = n
        BY <1>1
    <2> QED BY <1>4, <2>1 DEF Unhex
<1>6. \A i \in 1..n : t[2 * i - 1] * HexBase + t[2 * i] = bytes[i]
    <2> SUFFICES ASSUME NEW i \in 1..n PROVE t[2 * i - 1] * HexBase + t[2 * i] = bytes[i]
        OBVIOUS
    <2>1. bytes[i] \in Nat /\ HexBase \in Nat \ {0}
        BY <1>1, HexAssumption
    <2>2. (bytes[i] \div HexBase) * HexBase + (bytes[i] % HexBase) = bytes[i]
        BY <2>1, DivMod
    <2> QED BY <1>3, <2>2
<1> HIDE DEF u
<1>7. u = [i \in 1..n |-> bytes[i]]
    BY <1>5, <1>6
<1>8. bytes = [i \in 1..n |-> bytes[i]]
    BY <1>1, SeqFacts
<1> QED BY <1>4, <1>7, <1>8 DEF u, t

-----------------------------------------------------------------------------
(* Integers.  Their recursive functions are unfolded one byte at a time, up  *)
(* to the eight of the widest field.                                         *)

\* Division by a byte's base, and by a product.
LEMMA LowDigit ==
    ASSUME NEW B \in Nat \ {0}, NEW a \in Nat, a < B, NEW q \in Nat
    PROVE  (a + B * q) % B = a /\ (a + B * q) \div B = q
    OBVIOUS

LEMMA DivTwice ==
    ASSUME NEW B \in Nat \ {0}, NEW C \in Nat \ {0}, NEW x \in Nat
    PROVE  (x \div B) \div C = x \div (B * C)
    OBVIOUS

LEMMA BaseFacts == ByteBase \in Nat /\ ByteBase >= 4 /\ ByteBase % 2 = 0
<1>1. HexBase \in Nat /\ HexBase >= 2 /\ HexBase % 2 = 0
    BY HexAssumption
<1>2. PICK h \in Nat : HexBase = 2 * h
    BY <1>1
<1>3. h >= 1 /\ ByteBase = 2 * (h * HexBase) /\ h * HexBase \in Nat
    BY <1>1, <1>2 DEF ByteBase
<1>4. h * HexBase >= 2
    BY <1>1, <1>2, <1>3
<1> QED BY <1>3, <1>4

\* The powers exist and are what their definition says.
LEMMA Powers ==
    BytePower[0] = 1 /\ \A n \in 0..7 : BytePower[n + 1] = ByteBase * BytePower[n]
<1> DEFINE p1 == ByteBase * 1
           p2 == ByteBase * p1
           p3 == ByteBase * p2
           p4 == ByteBase * p3
           p5 == ByteBase * p4
           p6 == ByteBase * p5
           p7 == ByteBase * p6
           p8 == ByteBase * p7
           f == [n \in 0..8 |-> CASE n = 0 -> 1 [] n = 1 -> p1 [] n = 2 -> p2
                                  [] n = 3 -> p3 [] n = 4 -> p4 [] n = 5 -> p5
                                  [] n = 6 -> p6 [] n = 7 -> p7 [] n = 8 -> p8]
           IsPower(g) == g = [n \in 0..8 |-> IF n = 0 THEN 1 ELSE ByteBase * g[n - 1]]
<1>1. /\ f = [n \in 0..8 |-> f[n]] /\ f[0] = 1 /\ f[1] = p1 /\ f[2] = p2 /\ f[3] = p3
      /\ f[4] = p4 /\ f[5] = p5 /\ f[6] = p6 /\ f[7] = p7 /\ f[8] = p8
    <2> HIDE DEF p1, p2, p3, p4, p5, p6, p7, p8
    <2> QED OBVIOUS
<1> HIDE DEF f
<1>2. ASSUME NEW n \in 0..8 PROVE f[n] = IF n = 0 THEN 1 ELSE ByteBase * f[n - 1]
    <2>1. n \in {0, 1, 2, 3, 4, 5, 6, 7, 8}
        OBVIOUS
    <2>2. /\ f[1] = ByteBase * f[0] /\ f[2] = ByteBase * f[1] /\ f[3] = ByteBase * f[2]
          /\ f[4] = ByteBase * f[3] /\ f[5] = ByteBase * f[4] /\ f[6] = ByteBase * f[5]
          /\ f[7] = ByteBase * f[6] /\ f[8] = ByteBase * f[7]
        BY <1>1
    <2> QED BY <1>1, <2>1, <2>2
<1>3. IsPower(f)
    <2>1. [n \in 0..8 |-> f[n]] = [n \in 0..8 |-> IF n = 0 THEN 1 ELSE ByteBase * f[n - 1]]
        BY <1>2
    <2> QED BY <1>1, <2>1
<1>4. BytePower = CHOOSE g : IsPower(g)
    BY DEF BytePower
<1>5. IsPower(BytePower)
    <2> HIDE DEF IsPower
    <2> QED BY <1>3, <1>4
<1>6. \A n \in 0..8 : BytePower[n] = IF n = 0 THEN 1 ELSE ByteBase * BytePower[n - 1]
    BY <1>5
<1>7. ASSUME NEW n \in 0..7 PROVE BytePower[n + 1] = ByteBase * BytePower[n]
    <2>1. n + 1 \in 0..8 /\ n + 1 # 0 /\ (n + 1) - 1 = n
        OBVIOUS
    <2> QED BY <1>6, <2>1
<1> QED BY <1>6, <1>7

LEMMA PowerGrows ==
    ASSUME NEW P \in Nat \ {0}
    PROVE  ByteBase * P \in Nat \ {0} /\ ByteBase * P >= 4 * P /\ (ByteBase * P) % 2 = 0
<1>1. PICK h \in Nat : ByteBase = 2 * h
    BY BaseFacts
<1>2. ByteBase * P = 2 * (h * P) /\ h * P \in Nat
    BY <1>1
<1>3. ByteBase * P >= 4 * P
    BY BaseFacts
<1> QED BY <1>2, <1>3

LEMMA PowerFacts ==
    /\ \A n \in 0..8 : BytePower[n] \in Nat \ {0}
    /\ BytePower[8] % 2 = 0 /\ BytePower[8] >= 4 * BytePower[4]
<1> DEFINE P(n) == BytePower[n] \in Nat \ {0}
<1>0. P(0)
    BY Powers
<1>1. ASSUME NEW n \in 0..7, P(n)
      PROVE  /\ P(n + 1) /\ BytePower[n + 1] >= 4 * BytePower[n]
             /\ BytePower[n + 1] % 2 = 0
    BY <1>1, Powers, PowerGrows
<1>2. P(1) /\ P(2) /\ P(3) /\ P(4)
    <2>1. P(1)
        BY <1>0, <1>1
    <2>2. P(2)
        BY <1>1, <2>1
    <2>3. P(3)
        BY <1>1, <2>2
    <2>4. P(4)
        BY <1>1, <2>3
    <2> QED BY <2>1, <2>2, <2>3, <2>4
<1>3. P(5) /\ BytePower[5] >= 4 * BytePower[4]
    BY <1>1, <1>2
<1>4. P(6) /\ BytePower[6] >= 4 * BytePower[5]
    BY <1>1, <1>3
<1>5. P(7) /\ BytePower[7] >= 4 * BytePower[6]
    BY <1>1, <1>4
<1>6. P(8) /\ BytePower[8] >= 4 * BytePower[7] /\ BytePower[8] % 2 = 0
    BY <1>1, <1>5
<1>7. BytePower[8] >= 4 * BytePower[4]
    BY <1>2, <1>3, <1>4, <1>5, <1>6
<1>8. ASSUME NEW n \in 0..8 PROVE P(n)
    <2>1. n \in {0, 1, 2, 3, 4, 5, 6, 7, 8}
        OBVIOUS
    <2> HIDE DEF P
    <2> QED BY <1>0, <1>2, <1>3, <1>4, <1>5, <1>6, <2>1
<1> QED BY <1>6, <1>7, <1>8

\* The function of FromLeBytes over the last k of n bytes.
IsValue(bytes, n, k, f) ==
    f = [j \in 0..k |-> IF j = 0 THEN 0 ELSE bytes[(n - j) + 1] + ByteBase * f[j - 1]]

Valued(bytes, n, k, x) ==
    /\ \E f : IsValue(bytes, n, k, f)
    /\ \A f : IsValue(bytes, n, k, f) => f[k] = x

\* The number x has the last k of n bytes as its digits.
Digits(bytes, n, k, x) ==
    /\ x \in Nat /\ x < BytePower[k]
    /\ \A i \in 1..k : (x \div BytePower[i - 1]) % ByteBase = bytes[(n - k) + i]

\* What that function gives, byte by byte.
ByteByByte(bytes, n, k, f) ==
    f[0] = 0 /\ \A j \in 1..k : f[j] = bytes[(n - j) + 1] + ByteBase * f[j - 1]

LEMMA ValueAt ==
    ASSUME NEW bytes, NEW n, NEW k \in Nat, NEW f, IsValue(bytes, n, k, f)
    PROVE  ByteByByte(bytes, n, k, f)
<1>1. \A j \in 0..k : f[j] = IF j = 0 THEN 0 ELSE bytes[(n - j) + 1] + ByteBase * f[j - 1]
    BY DEF IsValue
<1>2. f[0] = 0
    BY <1>1
<1>3. \A j \in 1..k : j \in 0..k /\ j # 0
    OBVIOUS
<1> QED BY <1>1, <1>2, <1>3 DEF ByteByByte

LEMMA ValueFrom ==
    ASSUME NEW bytes, NEW n, NEW k \in Nat, NEW f, f = [j \in 0..k |-> f[j]],
           ByteByByte(bytes, n, k, f)
    PROVE  IsValue(bytes, n, k, f)
<1> DEFINE g == [j \in 0..k |-> IF j = 0 THEN 0 ELSE bytes[(n - j) + 1] + ByteBase * f[j - 1]]
<1>1. \A j \in 0..k : f[j] = IF j = 0 THEN 0 ELSE bytes[(n - j) + 1] + ByteBase * f[j - 1]
    <2>1. \A j \in 0..k : j = 0 \/ j \in 1..k
        OBVIOUS
    <2> QED BY <2>1 DEF ByteByByte
<1>2. [j \in 0..k |-> f[j]] = g
    BY <1>1
<1>3. f = g
    BY <1>2
<1> QED BY <1>3 DEF IsValue

\* One more byte.
LEMMA ValueMore ==
    ASSUME NEW bytes, NEW n, NEW k \in Nat, NEW x, Valued(bytes, n, k, x)
    PROVE  Valued(bytes, n, k + 1, bytes[(n - (k + 1)) + 1] + ByteBase * x)
<1> DEFINE l == k + 1
           y == bytes[(n - l) + 1] + ByteBase * x
<1>1. l \in Nat /\ l \in 1..l /\ l - 1 = k /\ k \in 0..k
    OBVIOUS
<1>2. \A j \in 1..k : j \in 1..l /\ j # l /\ j - 1 \in 0..k /\ j \in 0..k
    OBVIOUS
<1>3. \A j \in 0..k : j \in 0..l /\ j # l
    OBVIOUS
<1>4. \A j \in 1..l : j \in 1..k \/ j = l
    OBVIOUS
<1>5. 0 \in 0..k /\ l \in 0..l
    OBVIOUS
<1> HIDE DEF l, y
<1>6. ASSUME NEW f, IsValue(bytes, n, l, f) PROVE f[l] = y
    <2>1. f[0] = 0 /\ \A j \in 1..l : f[j] = bytes[(n - j) + 1] + ByteBase * f[j - 1]
        <3>1. ByteByByte(bytes, n, l, f)
            BY <1>1, <1>6, ValueAt
        <3> QED BY <3>1 DEF ByteByByte
    <2> DEFINE g == [j \in 0..k |-> f[j]]
    <2>2. g = [j \in 0..k |-> g[j]] /\ \A j \in 0..k : g[j] = f[j]
        OBVIOUS
    <2> HIDE DEF g
    <2>3. \A j \in 1..k : g[j] = bytes[(n - j) + 1] + ByteBase * g[j - 1]
        BY <1>2, <2>1, <2>2
    <2>4. IsValue(bytes, n, k, g)
        <3>1. ByteByByte(bytes, n, k, g)
            BY <1>5, <2>1, <2>2, <2>3 DEF ByteByByte
        <3> QED BY <2>2, <3>1, ValueFrom
    <2>5. f[k] = x
        BY <1>1, <2>2, <2>4 DEF Valued
    <2> QED BY <1>1, <2>1, <2>5 DEF y
<1>7. \E f : IsValue(bytes, n, l, f)
    <2>1. PICK g : IsValue(bytes, n, k, g)
        BY DEF Valued
    <2>2. g[0] = 0 /\ \A j \in 1..k : g[j] = bytes[(n - j) + 1] + ByteBase * g[j - 1]
        <3>1. ByteByByte(bytes, n, k, g)
            BY <2>1, ValueAt
        <3> QED BY <3>1 DEF ByteByByte
    <2>3. g[k] = x
        BY <2>1 DEF Valued
    <2> DEFINE f == [j \in 0..l |-> IF j = l THEN y ELSE g[j]]
    <2>4. f = [j \in 0..l |-> f[j]] /\ f[l] = y /\ \A j \in 0..k : f[j] = g[j]
        BY <1>3, <1>5
    <2> HIDE DEF f
    <2>5. ASSUME NEW j \in 1..l PROVE f[j] = bytes[(n - j) + 1] + ByteBase * f[j - 1]
        <3>1. CASE j \in 1..k
            BY <1>2, <2>2, <2>4, <3>1
        <3>2. CASE j = l
            BY <1>1, <2>3, <2>4, <3>2 DEF y
        <3> QED BY <1>4, <3>1, <3>2
    <2>6. IsValue(bytes, n, l, f)
        <3>1. ByteByByte(bytes, n, l, f)
            BY <1>5, <2>2, <2>4, <2>5 DEF ByteByByte
        <3> QED BY <1>1, <2>4, <3>1, ValueFrom
    <2> QED BY <2>6
<1>8. Valued(bytes, n, l, y)
    BY <1>6, <1>7 DEF Valued
<1> QED BY <1>8 DEF l, y

LEMMA DigitsMore ==
    ASSUME NEW bytes, NEW n \in Nat, NEW k \in 0..7, NEW x, Digits(bytes, n, k, x),
           NEW a \in Byte, a = bytes[n - k]
    PROVE  Digits(bytes, n, k + 1, a + ByteBase * x)
<1> DEFINE B == ByteBase
           y == a + B * x
           P == BytePower[k]
<1>1. B \in Nat \ {0} /\ a \in Nat /\ a < B
    BY BaseFacts DEF Byte
<1>2. /\ x \in Nat /\ x < P
      /\ \A i \in 1..k : (x \div BytePower[i - 1]) % B = bytes[(n - k) + i]
    BY DEF Digits
<1>3. P \in Nat \ {0} /\ BytePower[k + 1] = B * P
    BY Powers, PowerFacts
<1> HIDE DEF B, P
<1>4. y \in Nat /\ y % B = a /\ y \div B = x
    <2>1. (a + B * x) % B = a /\ (a + B * x) \div B = x
        BY <1>1, <1>2, LowDigit
    <2>2. B * x \in Nat
        BY <1>1, <1>2
    <2>3. y \in Nat
        BY <1>1, <2>2
    <2> QED BY <2>1, <2>3
<1>5. y < B * P
    <2>1. x + 1 <= P
        BY <1>2, <1>3
    <2>2. B * (x + 1) <= B * P
        BY <1>1, <1>2, <1>3, <2>1
    <2>3. B * (x + 1) = B * x + B /\ B * x \in Nat
        BY <1>1, <1>2
    <2>4. B * P \in Nat
        BY <1>1, <1>3
    <2> QED BY <1>1, <2>2, <2>3, <2>4
<1>6. ASSUME NEW i \in 1..(k + 1)
      PROVE  (y \div BytePower[i - 1]) % B = bytes[(n - (k + 1)) + i]
    <2>1. CASE i = 1
        <3>1. i - 1 = 0 /\ (n - (k + 1)) + i = n - k
            BY <2>1
        <3>2. BytePower[i - 1] = 1
            BY <3>1, Powers
        <3>3. y \div 1 = y
            BY <1>4
        <3> HIDE DEF y
        <3> QED BY <1>4, <3>1, <3>2, <3>3
    <2>2. CASE i # 1
        <3> DEFINE j == i - 1
                   Q == BytePower[j - 1]
        <3>1. /\ j \in 1..k /\ j - 1 \in 0..7 /\ j - 1 \in 0..8 /\ (j - 1) + 1 = j
              /\ (n - (k + 1)) + i = (n - k) + j
            BY <2>2
        <3> HIDE DEF j
        <3>2. BytePower[j] = B * Q /\ Q \in Nat \ {0}
            BY <3>1, Powers, PowerFacts DEF B
        <3> HIDE DEF Q, y
        <3>3. y \div BytePower[j] = x \div Q
            BY <1>1, <1>4, <3>2, DivTwice
        <3>4. (x \div Q) % B = bytes[(n - k) + j]
            BY <1>2, <3>1 DEF Q
        <3> QED BY <3>1, <3>3, <3>4 DEF j
    <2> QED BY <2>1, <2>2
<1> QED BY <1>3, <1>4, <1>5, <1>6 DEF Digits, B

\* What FromLeBytes gives for a field of four or of eight bytes.
LEMMA FromLeIs ==
    ASSUME NEW n \in {4, 8}, NEW bytes, Len(bytes) = n, \A i \in 1..n : bytes[i] \in Byte
    PROVE  Digits(bytes, n, n, FromLeBytes(bytes))
<1> DEFINE H(k) == \E x : Valued(bytes, n, k, x) /\ Digits(bytes, n, k, x)
<1>1. H(0)
    <2> DEFINE f == [j \in 0..0 |-> 0]
    <2>1. IsValue(bytes, n, 0, f)
        BY DEF IsValue
    <2>2. \A g : IsValue(bytes, n, 0, g) => g[0] = 0
        BY ValueAt DEF ByteByByte
    <2>3. Valued(bytes, n, 0, 0)
        BY <2>1, <2>2 DEF Valued
    <2>4. Digits(bytes, n, 0, 0)
        BY Powers DEF Digits
    <2> QED BY <2>3, <2>4
<1>2. ASSUME NEW k \in 0..7, k < n, H(k) PROVE H(k + 1)
    <2>1. PICK x : Valued(bytes, n, k, x) /\ Digits(bytes, n, k, x)
        BY <1>2
    <2> DEFINE a == bytes[n - k]
               y == a + ByteBase * x
    <2>2. n - k \in 1..n /\ (n - (k + 1)) + 1 = n - k /\ n \in Nat /\ k \in Nat
        BY <1>2
    <2>3. a \in Byte
        BY <2>2
    <2>4. Digits(bytes, n, k + 1, y)
        <3> HIDE DEF a
        <3> QED BY <2>1, <2>2, <2>3, DigitsMore DEF a
    <2>5. Valued(bytes, n, k + 1, y)
        BY <2>1, <2>2, ValueMore
    <2> QED BY <2>4, <2>5
<1> HIDE DEF H
<1>3. H(4)
    <2>1. H(1)
        BY <1>1, <1>2
    <2>2. H(2)
        BY <1>2, <2>1
    <2>3. H(3)
        BY <1>2, <2>2
    <2> QED BY <1>2, <2>3
<1>4. n = 8 => H(8)
    <2> SUFFICES ASSUME n = 8 PROVE H(8)
        OBVIOUS
    <2>1. H(5)
        BY <1>2, <1>3
    <2>2. H(6)
        BY <1>2, <2>1
    <2>3. H(7)
        BY <1>2, <2>2
    <2> QED BY <1>2, <2>3
<1>5. PICK x : Valued(bytes, n, n, x) /\ Digits(bytes, n, n, x)
    BY <1>3, <1>4 DEF H
<1> DEFINE f == CHOOSE g : IsValue(bytes, n, n, g)
<1>6. FromLeBytes(bytes) = f[n]
    BY DEF FromLeBytes, IsValue
<1>7. IsValue(bytes, n, n, f)
    BY <1>5 DEF Valued
<1> HIDE DEF f
<1>8. f[n] = x
    BY <1>5, <1>7 DEF Valued
<1> QED BY <1>5, <1>6, <1>8

\* The leading bytes of a value.
LEMMA FieldIs ==
    ASSUME cell \in ValueCell, NEW n \in {4, 8}, Len(Raw) >= n
    PROVE  /\ Prefix(Field(n), Raw, n) /\ Prefix(Reverse(Field(n)), Reverse(Field(n)), n)
           /\ \A i \in 1..n : Raw[i] \in Byte /\ Reverse(Field(n))[i] = Raw[(n - i) + 1]
<1> DEFINE fs == Field(n)
           rs == Reverse(fs)
<1>1. Raw \in Seq(Byte) /\ IsSeq(Raw) /\ Len(Raw) \in Nat
    BY RawSeq
<1>2. Min({n, Len(Raw)}) = n
    <2> DEFINE S == {n, Len(Raw)}
    <2>1. n \in S /\ \A y \in S : n <= y
        BY <1>1
    <2>2. \A x \in S : (\A y \in S : x <= y) => x = n
        BY <1>1
    <2> HIDE DEF S
    <2>3. Min(S) \in S /\ \A y \in S : Min(S) <= y
        BY <2>1 DEF Min
    <2>4. Min(S) = n
        BY <2>2, <2>3
    <2> QED BY <2>4 DEF S
<1>3. fs = SubSeq(Raw, 1, n)
    BY <1>2 DEF Field
<1>4. Prefix(fs, Raw, n)
    <2>1. n \in 0..Len(Raw)
        BY <1>1
    <2> QED BY <1>1, <1>3, <2>1, SubSeqPrefix
<1>5. Len(fs) = n /\ \A i \in 1..n : fs[i] = Raw[i]
    BY <1>4 DEF Prefix
<1> HIDE DEF fs
<1>6. rs = [i \in 1..n |-> fs[(n - i) + 1]]
    BY <1>5 DEF Reverse
<1>7. rs = [i \in 1..n |-> rs[i]] /\ \A i \in 1..n : rs[i] = fs[(n - i) + 1]
    BY <1>6
<1> HIDE DEF rs
<1>8. IsSeq(rs) /\ Len(rs) = n
    BY <1>7, MapSeq
<1>9. ASSUME NEW i \in 1..n PROVE Raw[i] \in Byte /\ rs[i] = Raw[(n - i) + 1]
    <2>1. (n - i) + 1 \in 1..n /\ i \in 1..Len(Raw)
        BY <1>1
    <2>2. Raw[i] \in Byte
        BY <1>1, <2>1, ElementOfSeq
    <2> QED BY <1>5, <1>7, <2>1, <2>2
<1> QED BY <1>4, <1>8, <1>9 DEF Prefix, fs, rs

-----------------------------------------------------------------------------
(* The join.  Its recursive function is known one component at a time: that  *)
(* it exists, and what it gives, are carried from each component to the next *)
(* by the steps of the split.                                                *)

\* A component after the others.
Add(text, p) == text \o (<<Newline>> \o p)

IsLines(ps, f) ==
    f = [k \in 0..Len(ps) |-> CASE k = 0 -> <<>>
                                [] k = 1 -> ps[k]
                                [] OTHER -> Add(f[k - 1], ps[k])]

Joins(ps, text) ==
    /\ \E f : IsLines(ps, f)
    /\ \A f : IsLines(ps, f) => f[Len(ps)] = text

LEMMA JoinIs ==
    ASSUME NEW ps, NEW text, Joins(ps, text)
    PROVE  JoinLines(ps) = text
<1> DEFINE f == CHOOSE g : IsLines(ps, g)
<1>1. JoinLines(ps) = f[Len(ps)]
    BY DEF JoinLines, IsLines, Add
<1>2. IsLines(ps, f)
    BY DEF Joins
<1> HIDE DEF f
<1> QED BY <1>1, <1>2 DEF Joins

LEMMA JoinNone ==
    ASSUME NEW ps, Len(ps) = 0
    PROVE  Joins(ps, <<>>)
<1> DEFINE g == [k \in 0..0 |-> <<>>]
<1>1. IsLines(ps, g)
    BY DEF IsLines
<1>2. ASSUME NEW f, IsLines(ps, f) PROVE f[Len(ps)] = <<>>
    BY <1>2 DEF IsLines
<1> QED BY <1>1, <1>2 DEF Joins

\* What the function gives, component by component.
Unfolded(ps, f, n) ==
    /\ f[0] = <<>>
    /\ n >= 1 => f[1] = ps[1]
    /\ \A k \in 2..n : f[k] = Add(f[k - 1], ps[k])

LEMMA LinesAt ==
    ASSUME NEW ps, Len(ps) \in Nat, NEW f, IsLines(ps, f)
    PROVE  Unfolded(ps, f, Len(ps))
<1>1. DOMAIN f = 0..Len(ps)
    BY DEF IsLines
<1>2. \A k \in 0..Len(ps) : f[k] = CASE k = 0 -> <<>>
                                     [] k = 1 -> ps[k]
                                     [] OTHER -> Add(f[k - 1], ps[k])
    BY DEF IsLines
<1>3. f[0] = <<>>
    BY <1>2
<1>4. Len(ps) >= 1 => f[1] = ps[1]
    BY <1>2
<1>5. ASSUME NEW k \in 2..Len(ps) PROVE f[k] = Add(f[k - 1], ps[k])
    <2>1. k \in 0..Len(ps) /\ k # 0 /\ k # 1
        OBVIOUS
    <2> QED BY <1>2, <2>1
<1> QED BY <1>3, <1>4, <1>5 DEF Unfolded

\* A function with these values is the recursive one.
LEMMA LinesFrom ==
    ASSUME NEW ps, Len(ps) \in Nat, NEW f,
           f = [k \in 0..Len(ps) |-> f[k]], Unfolded(ps, f, Len(ps))
    PROVE  IsLines(ps, f)
<1>0. /\ f[0] = <<>> /\ (Len(ps) >= 1 => f[1] = ps[1])
      /\ \A k \in 2..Len(ps) : f[k] = Add(f[k - 1], ps[k])
    BY DEF Unfolded
<1>1. ASSUME NEW k \in 0..Len(ps)
      PROVE  f[k] = CASE k = 0 -> <<>>
                      [] k = 1 -> ps[k]
                      [] OTHER -> Add(f[k - 1], ps[k])
    <2>1. CASE k = 0
        BY <1>0, <2>1
    <2>2. CASE k = 1
        BY <1>0, <2>2
    <2>3. CASE k # 0 /\ k # 1
        <3>1. k \in 2..Len(ps)
            BY <2>3
        <3> QED BY <1>0, <2>3, <3>1
    <2> QED BY <2>1, <2>2, <2>3
<1> DEFINE g == [k \in 0..Len(ps) |-> CASE k = 0 -> <<>>
                      [] k = 1 -> ps[k]
                      [] OTHER -> Add(f[k - 1], ps[k])]
<1>2. [k \in 0..Len(ps) |-> f[k]] = g
    BY <1>1
<1>3. f = g
    BY <1>2
<1> QED BY <1>3 DEF IsLines

\* The function for some components is the one for the first of them.
LEMMA LinesOfFront ==
    ASSUME NEW ps, NEW qs, NEW n \in Nat, Len(ps) = n, Len(qs) = n + 1,
           \A k \in 1..n : qs[k] = ps[k], NEW f, IsLines(qs, f)
    PROVE  \E g : IsLines(ps, g) /\ \A k \in 0..n : g[k] = f[k]
<1> DEFINE g == [k \in 0..n |-> f[k]]
<1>1. /\ f[0] = <<>> /\ f[1] = qs[1]
      /\ \A k \in 2..(n + 1) : f[k] = Add(f[k - 1], qs[k])
    BY LinesAt DEF Unfolded
<1>2. g = [k \in 0..n |-> g[k]] /\ \A k \in 0..n : g[k] = f[k]
    OBVIOUS
<1> HIDE DEF g
<1>3. g[0] = <<>>
    BY <1>1, <1>2
<1>4. n >= 1 => g[1] = ps[1]
    BY <1>1, <1>2
<1>5. ASSUME NEW k \in 2..n PROVE g[k] = Add(g[k - 1], ps[k])
    <2>1. k \in 0..n /\ k - 1 \in 0..n /\ k \in 2..(n + 1) /\ k \in 1..n
        OBVIOUS
    <2>2. g[k] = f[k] /\ g[k - 1] = f[k - 1] /\ qs[k] = ps[k]
        BY <1>2, <2>1
    <2>3. f[k] = Add(f[k - 1], qs[k])
        BY <1>1, <2>1
    <2> QED BY <2>2, <2>3
<1>6. Unfolded(ps, g, n)
    BY <1>3, <1>4, <1>5 DEF Unfolded
<1>7. IsLines(ps, g)
    BY <1>2, <1>6, LinesFrom
<1> QED BY <1>2, <1>7

\* One more component.
LEMMA JoinMore ==
    ASSUME NEW ps, NEW qs, NEW n \in Nat, Len(ps) = n, Len(qs) = n + 1,
           \A k \in 1..n : qs[k] = ps[k], NEW text, Joins(ps, text)
    PROVE  Joins(qs, IF n = 0 THEN qs[1] ELSE Add(text, qs[n + 1]))
<1> DEFINE last == IF n = 0 THEN qs[1] ELSE Add(text, qs[n + 1])
<1>1. ASSUME NEW f, IsLines(qs, f) PROVE f[n + 1] = last
    <2>1. /\ f[0] = <<>> /\ f[1] = qs[1]
          /\ \A k \in 2..(n + 1) : f[k] = Add(f[k - 1], qs[k])
        BY <1>1, LinesAt DEF Unfolded
    <2>2. PICK g : IsLines(ps, g) /\ \A k \in 0..n : g[k] = f[k]
        BY <1>1, LinesOfFront
    <2>3. f[n] = text
        BY <2>2 DEF Joins
    <2>4. CASE n = 0
        BY <2>1, <2>4
    <2>5. CASE n # 0
        <3>1. n + 1 \in 2..(n + 1) /\ (n + 1) - 1 = n
            BY <2>5
        <3>2. f[n + 1] = Add(f[n], qs[n + 1])
            BY <2>1, <3>1
        <3> QED BY <2>3, <2>5, <3>2
    <2> QED BY <2>4, <2>5
<1>2. \E f : IsLines(qs, f)
    <2>1. PICK g : IsLines(ps, g)
        BY DEF Joins
    <2>2. /\ g[0] = <<>> /\ (n >= 1 => g[1] = ps[1]) /\ g[n] = text
          /\ \A k \in 2..n : g[k] = Add(g[k - 1], ps[k])
        BY <2>1, LinesAt DEF Joins, Unfolded
    <2> DEFINE f == [k \in 0..(n + 1) |-> IF k = n + 1 THEN last ELSE g[k]]
    <2>3. f = [k \in 0..(n + 1) |-> f[k]] /\ f[n + 1] = last /\ \A k \in 0..n : f[k] = g[k]
        OBVIOUS
    <2> HIDE DEF f
    <2>4. f[0] = <<>>
        BY <2>2, <2>3
    <2>5. f[1] = qs[1]
        <3>1. CASE n = 0
            BY <2>3, <3>1
        <3>2. CASE n # 0
            <4>1. 1 \in 0..n /\ 1 \in 1..n /\ n >= 1
                BY <3>2
            <4> QED BY <2>2, <2>3, <4>1
        <3> QED BY <3>1, <3>2
    <2>6. ASSUME NEW k \in 2..(n + 1) PROVE f[k] = Add(f[k - 1], qs[k])
        <3>1. CASE k = n + 1
            <4>1. n # 0 /\ k - 1 = n /\ n \in 0..n
                BY <3>1
            <4>2. f[n] = text
                BY <2>2, <2>3, <4>1
            <4>3. last = Add(text, qs[n + 1])
                BY <4>1
            <4> HIDE DEF last
            <4> QED BY <2>3, <3>1, <4>1, <4>2, <4>3
        <3>2. CASE k # n + 1
            <4>1. k \in 2..n /\ k \in 0..n /\ k - 1 \in 0..n /\ k \in 1..n
                BY <3>2
            <4>2. f[k] = g[k] /\ f[k - 1] = g[k - 1] /\ qs[k] = ps[k]
                BY <2>3, <4>1
            <4>3. g[k] = Add(g[k - 1], ps[k])
                BY <2>2, <4>1
            <4> QED BY <4>2, <4>3
        <3> QED BY <3>1, <3>2
    <2>7. Unfolded(qs, f, n + 1)
        BY <2>4, <2>5, <2>6 DEF Unfolded
    <2>8. IsLines(qs, f)
        BY <2>3, <2>7, LinesFrom
    <2> QED BY <2>8
<1> HIDE DEF last
<1>3. Joins(qs, last)
    BY <1>1, <1>2 DEF Joins
<1> QED BY <1>3 DEF last

-----------------------------------------------------------------------------
(* The split of a REG_MULTI_SZ. *)

\* The first m units as lines of text.
Lines(us, m) == [i \in 1..m |-> IF us[i] = NUL THEN Newline ELSE DecodeUtf16(us)[i]]

NoBlank(us, p) == \A i \in 2..p : ~(us[i] = NUL /\ us[i - 1] = NUL)

\* The flag b says whether the length is odd or one of the first p units is bad.
Flags(us, odd, p, b) ==
    b \in BOOLEAN /\ (b <=> odd \/ \E i \in 1..p : ~Paired(us, i))

\* What is known after p units: c is the component begun after the first s, ps
\* are the finished ones.
SplitAt(us, odd, p, c, ps, b, s) ==
    /\ p \in 0..Len(us) /\ IsSeq(c) /\ IsSeq(ps)
    /\ s \in Nat /\ s + Len(c) = p
    /\ \A i \in 1..Len(c) : c[i] = us[s + i] /\ c[i] # NUL
    /\ s > 0 => us[s] = NUL
    /\ NoBlank(us, p)
    /\ Flags(us, odd, s, b)
    /\ Len(ps) = 0 <=> s = 0
    /\ Joins(ps, Lines(us, IF s = 0 THEN 0 ELSE s - 1))

Split(us, odd, p, c, ps, b) == \E s : SplitAt(us, odd, p, c, ps, b, s)

\* The answer o after p units.
Ended(us, odd, p, o) ==
    /\ p \in 0..Len(us)
    /\ p < Len(us) => us[p + 1] = NUL /\ (p = 0 \/ us[p] = NUL)
    /\ NoBlank(us, p)
    /\ \E b : /\ Flags(us, odd, p, b)
              /\ o = <<Coerced(Text(Lines(us, IF p > 0 /\ us[p] = NUL THEN p - 1 ELSE p)),
                               <<>>, Utf16Diagnostics(b))>>

LEMMA LinesSeq ==
    ASSUME NEW us, NEW m \in Nat
    PROVE  /\ IsSeq(Lines(us, m)) /\ Len(Lines(us, m)) = m
           /\ \A i \in 1..m :
                 Lines(us, m)[i] = IF us[i] = NUL THEN Newline ELSE DecodeUtf16(us)[i]
<1> DEFINE t == Lines(us, m)
<1>1. /\ t = [i \in 1..m |-> t[i]]
      /\ \A i \in 1..m : t[i] = IF us[i] = NUL THEN Newline ELSE DecodeUtf16(us)[i]
    BY DEF Lines
<1> HIDE DEF t
<1>2. IsSeq(t) /\ Len(t) = m
    BY <1>1, MapSeq
<1> QED BY <1>1, <1>2 DEF t

LEMMA BeginSplit ==
    ASSUME NEW us, IsSeq(us), NEW odd \in BOOLEAN
    PROVE  Split(us, odd, 0, <<>>, <<>>, odd)
<1>1. Len(us) \in Nat
    BY SeqFacts
<1>2. Lines(us, 0) = <<>>
    <2>1. IsSeq(Lines(us, 0)) /\ Len(Lines(us, 0)) = 0
        BY LinesSeq
    <2> QED BY <2>1, EmptyOrNot
<1>3. Joins(<<>>, <<>>)
    BY EmptyIsSeq, JoinNone
<1>4. Flags(us, odd, 0, odd)
    BY DEF Flags
<1>5. SplitAt(us, odd, 0, <<>>, <<>>, odd, 0)
    <2>1. 0 \in 0..Len(us) /\ IsSeq(<<>>) /\ Len(<<>>) = 0 /\ 0 + 0 = 0
        BY <1>1, EmptyIsSeq
    <2>2. NoBlank(us, 0)
        BY DEF NoBlank
    <2> DEFINE e == <<>>
    <2>3. IsSeq(e) /\ Len(e) = 0 /\ Joins(e, Lines(us, 0))
        BY <1>2, <1>3, <2>1
    <2> HIDE DEF e
    <2>4. SplitAt(us, odd, 0, e, e, odd, 0)
        BY <1>4, <2>1, <2>2, <2>3 DEF SplitAt
    <2> QED BY <2>4 DEF e
<1> QED BY <1>5 DEF Split

\* A list after an append.
Longer(t, s, e) ==
    /\ IsSeq(t) /\ Len(s) \in Nat /\ Len(t) = Len(s) + 1 /\ t[Len(s) + 1] = e
    /\ \A i \in 1..Len(s) : t[i] = s[i]

LEMMA AppendLonger ==
    ASSUME NEW s, IsSeq(s), NEW e
    PROVE  Longer(Append(s, e), s, e)
<1> DEFINE S == Range(s) \cup {e}
<1>1. s \in Seq(S)
    <2>1. Range(s) \subseteq S
        OBVIOUS
    <2> QED BY <2>1, SeqMonotonic DEF IsSeq
<1>2. e \in S
    OBVIOUS
<1> HIDE DEF S
<1>3. Append(s, e) \in Seq(S)
    BY <1>1, <1>2, AppendProperties
<1>4. IsSeq(Append(s, e))
    BY <1>3, SeqIsSeq
<1>5. /\ Len(Append(s, e)) = Len(s) + 1 /\ Append(s, e)[Len(s) + 1] = e
      /\ \A i \in 1..Len(s) : Append(s, e)[i] = s[i]
    BY <1>1, <1>2, AppendProperties
<1>6. Len(s) \in Nat
    BY <1>1, LenProperties
<1> QED BY <1>4, <1>5, <1>6 DEF Longer

\* Two lists joined.
Joined(t, s, u) ==
    /\ IsSeq(t) /\ Len(t) = Len(s) + Len(u)
    /\ \A i \in 1..Len(s) : t[i] = s[i]
    /\ \A i \in 1..Len(u) : t[Len(s) + i] = u[i]

LEMMA ConcatJoined ==
    ASSUME NEW s, IsSeq(s), NEW u, IsSeq(u)
    PROVE  Joined(s \o u, s, u)
<1> DEFINE S == Range(s) \cup Range(u)
<1>1. s \in Seq(S) /\ u \in Seq(S)
    <2>1. Range(s) \subseteq S /\ Range(u) \subseteq S
        OBVIOUS
    <2> QED BY <2>1, SeqMonotonic DEF IsSeq
<1> HIDE DEF S
<1>2. /\ s \o u \in Seq(S) /\ Len(s \o u) = Len(s) + Len(u)
      /\ \A i \in 1..(Len(s) + Len(u)) :
            (s \o u)[i] = IF i <= Len(s) THEN s[i] ELSE u[i - Len(s)]
    BY <1>1, ConcatProperties
<1>3. Len(s) \in Nat /\ Len(u) \in Nat
    BY <1>1, LenProperties
<1>4. ASSUME NEW i \in 1..Len(u) PROVE (s \o u)[Len(s) + i] = u[i]
    <2>1. Len(s) + i \in 1..(Len(s) + Len(u)) /\ ~(Len(s) + i <= Len(s))
          /\ (Len(s) + i) - Len(s) = i
        BY <1>3
    <2> QED BY <1>2, <2>1
<1>5. ASSUME NEW i \in 1..Len(s) PROVE (s \o u)[i] = s[i]
    <2>1. i \in 1..(Len(s) + Len(u)) /\ i <= Len(s)
        BY <1>3
    <2> QED BY <1>2, <2>1
<1>6. IsSeq(s \o u)
    BY <1>2, SeqIsSeq
<1> QED BY <1>2, <1>3, <1>4, <1>5, <1>6 DEF Joined

LEMMA CollectSplit ==
    ASSUME NEW us, IsSeq(us), NEW odd, NEW p, NEW c, NEW ps, NEW b,
           Split(us, odd, p, c, ps, b), p < Len(us), us[p + 1] # NUL
    PROVE  Split(us, odd, p + 1, Append(c, us[p + 1]), ps, b)
<1>1. PICK s : SplitAt(us, odd, p, c, ps, b, s)
    BY DEF Split
<1> DEFINE e == us[p + 1]
           d == Append(c, e)
           n == Len(c)
<1>2. /\ p \in 0..Len(us) /\ Len(us) \in Nat /\ IsSeq(c) /\ IsSeq(ps) /\ s \in Nat
      /\ s + n = p /\ n \in Nat
      /\ \A i \in 1..n : c[i] = us[s + i] /\ c[i] # NUL
      /\ NoBlank(us, p)
    BY <1>1, SeqFacts DEF SplitAt
<1>3. Longer(d, c, e)
    <2> HIDE DEF e
    <2> QED BY <1>2, AppendLonger
<1>4. e # NUL
    OBVIOUS
<1> HIDE DEF d, e
<1>5. /\ IsSeq(d) /\ Len(d) = n + 1 /\ d[n + 1] = e /\ \A i \in 1..n : d[i] = c[i]
    BY <1>3 DEF Longer
<1>6. p + 1 \in 0..Len(us) /\ s + Len(d) = p + 1 /\ s + (n + 1) = p + 1
    BY <1>2, <1>5
<1>7. ASSUME NEW i \in 1..Len(d) PROVE d[i] = us[s + i] /\ d[i] # NUL
    <2>1. CASE i \in 1..n
        BY <1>2, <1>5, <2>1
    <2>2. CASE i = n + 1
        BY <1>4, <1>5, <1>6, <2>2 DEF e
    <2> QED BY <1>2, <1>5, <2>1, <2>2
<1>8. NoBlank(us, p + 1)
    <2> SUFFICES ASSUME NEW i \in 2..(p + 1) PROVE ~(us[i] = NUL /\ us[i - 1] = NUL)
        BY DEF NoBlank
    <2>1. CASE i \in 2..p
        BY <1>2, <2>1 DEF NoBlank
    <2>2. CASE i = p + 1
        BY <1>4, <2>2 DEF e
    <2> QED BY <1>2, <2>1, <2>2
<1>9. SplitAt(us, odd, p + 1, d, ps, b, s)
    BY <1>1, <1>2, <1>5, <1>6, <1>7, <1>8 DEF SplitAt
<1> QED BY <1>9 DEF Split, d, e

\* A finished component: the lines and the flag reach up to its end.
LEMMA FinishComponent ==
    ASSUME NEW us, IsSeq(us), NEW odd, NEW p, NEW c, NEW ps, NEW b, NEW s,
           SplitAt(us, odd, p, c, ps, b, s), c # <<>>, p < Len(us) => us[p + 1] = NUL
    PROVE  /\ Joins(Append(ps, DecodeUtf16(c)), Lines(us, p))
           /\ Flags(us, odd, p, b \/ HasErrors(c))
           /\ p > 0 /\ us[p] # NUL
           /\ IsSeq(Append(ps, DecodeUtf16(c))) /\ Len(Append(ps, DecodeUtf16(c))) # 0
<1> DEFINE n == Len(c)
           m == Len(ps)
           w == DecodeUtf16(c)
           qs == Append(ps, w)
           text == Lines(us, IF s = 0 THEN 0 ELSE s - 1)
<1>1. /\ p \in 0..Len(us) /\ Len(us) \in Nat /\ IsSeq(c) /\ IsSeq(ps) /\ s \in Nat
      /\ s + n = p /\ n \in Nat /\ m \in Nat
      /\ \A i \in 1..n : c[i] = us[s + i] /\ c[i] # NUL
      /\ s > 0 => us[s] = NUL
      /\ m = 0 <=> s = 0
      /\ Joins(ps, text) /\ Flags(us, odd, s, b)
    BY SeqFacts DEF SplitAt
<1>2. n > 0 /\ p > 0
    BY <1>1, EmptyOrNot
<1>3. us[p] # NUL
    <2>1. n \in 1..n /\ s + n = p
        BY <1>1, <1>2
    <2> QED BY <1>1, <2>1
<1>4. Slice(c, us, s)
    <2>1. s + n <= Len(us) /\ (s + n < Len(us) => us[s + n + 1] = NUL)
        BY <1>1
    <2> QED BY <1>1, <2>1 DEF Slice
<1>5. \A i \in 1..n : Paired(c, i) <=> Paired(us, s + i)
    BY <1>4, SlicePairs
<1>6. Longer(qs, ps, w)
    <2> HIDE DEF w
    <2> QED BY <1>1, AppendLonger
<1>7. /\ IsSeq(w) /\ Len(w) = n
      /\ \A i \in 1..n : w[i] = IF Paired(c, i) THEN c[i] ELSE Replacement
    BY <1>1, Decoding
<1> HIDE DEF w
<1>8. /\ IsSeq(qs) /\ Len(qs) = m + 1 /\ qs[m + 1] = w
      /\ \A i \in 1..m : qs[i] = ps[i]
    BY <1>6 DEF Longer
<1> HIDE DEF qs, text
<1>9. Joins(qs, IF m = 0 THEN qs[1] ELSE Add(text, qs[m + 1]))
    BY <1>1, <1>8, JoinMore
<1>10. \A i \in 1..n : Lines(us, p)[s + i] = w[i]
    <2> SUFFICES ASSUME NEW i \in 1..n PROVE Lines(us, p)[s + i] = w[i]
        OBVIOUS
    <2>1. s + i \in 1..p /\ s + i \in 1..Len(us) /\ us[s + i] = c[i] /\ us[s + i] # NUL
        BY <1>1
    <2>2. p \in Nat
        BY <1>1
    <2>3. Lines(us, p)[s + i] = DecodeUtf16(us)[s + i]
        BY <2>1, <2>2, LinesSeq
    <2>4. DecodeUtf16(us)[s + i] = IF Paired(us, s + i) THEN us[s + i] ELSE Replacement
        BY <2>1, Decoding
    <2>5. Paired(c, i) <=> Paired(us, s + i)
        BY <1>5
    <2> QED BY <1>7, <2>1, <2>3, <2>4, <2>5
<1>11. Lines(us, p) = IF m = 0 THEN w ELSE Add(text, w)
    <2> DEFINE l == Lines(us, p)
    <2>0. p \in Nat
        BY <1>1
    <2>1. IsSeq(l) /\ Len(l) = p
        BY <2>0, LinesSeq
    <2>2. CASE m = 0
        <3>1. s = 0 /\ p = n
            BY <1>1, <2>2
        <3> HIDE DEF l
        <3>2. \A i \in 1..n : 0 + i = i
            BY <1>1
        <3>3. \A i \in 1..n : l[i] = w[i]
            BY <1>10, <3>1, <3>2 DEF l
        <3>4. l = w
            BY <1>7, <2>1, <3>1, <3>3, SeqSame
        <3> QED BY <2>2, <3>4 DEF l
    <2>3. CASE m # 0
        <3> DEFINE k == s - 1
                   x == <<Newline>>
                   y == x \o w
                   z == text \o y
        <3>1. s > 0 /\ us[s] = NUL /\ k \in Nat /\ text = Lines(us, k) /\ k + 1 = s
            BY <1>1, <2>3 DEF text
        <3>2. /\ IsSeq(text) /\ Len(text) = k
              /\ \A i \in 1..k : text[i] = IF us[i] = NUL THEN Newline ELSE DecodeUtf16(us)[i]
            BY <3>1, LinesSeq
        <3>3. IsSeq(x) /\ Len(x) = 1 /\ x[1] = Newline
            <4>1. x \in Seq({Newline})
                OBVIOUS
            <4> QED BY <4>1, SeqIsSeq
        <3> HIDE DEF x
        <3>4. Joined(y, x, w)
            BY <1>7, <3>3, ConcatJoined
        <3>5. IsSeq(y) /\ Len(y) = 1 + n /\ y[1] = Newline /\ \A i \in 1..n : y[1 + i] = w[i]
            <4>1. 1 \in 1..1
                OBVIOUS
            <4> QED BY <1>7, <3>3, <3>4, <4>1 DEF Joined
        <3> HIDE DEF y
        <3>6. Joined(z, text, y)
            BY <3>2, <3>5, ConcatJoined
        <3> HIDE DEF z
        <3>7. /\ IsSeq(z) /\ Len(z) = k + (1 + n)
              /\ \A i \in 1..k : z[i] = text[i]
              /\ \A i \in 1..(1 + n) : z[k + i] = y[i]
            BY <3>2, <3>5, <3>6 DEF Joined
        <3>8. k + (1 + n) = p
            <4>1. s + n = p /\ n \in Nat /\ k + 1 = s /\ k \in Nat
                BY <1>1, <3>1
            <4> HIDE DEF k, n
            <4> QED BY <4>1
        <3> HIDE DEF l
        <3>9. ASSUME NEW i \in 1..p PROVE l[i] = z[i]
            <4>0. l[i] = IF us[i] = NUL THEN Newline ELSE DecodeUtf16(us)[i]
                BY <2>0, LinesSeq DEF l
            <4>1. CASE i \in 1..k
                BY <3>2, <3>7, <4>0, <4>1
            <4>2. CASE i = s
                <5>1. 1 \in 1..(1 + n) /\ k + 1 = i
                    BY <1>1, <3>1, <4>2
                <5>2. z[i] = Newline
                    BY <3>5, <3>7, <5>1
                <5> QED BY <3>1, <4>0, <4>2, <5>2
            <4>3. CASE i > s
                <5> DEFINE j == i - s
                <5>1. j \in 1..n /\ 1 + j \in 1..(1 + n) /\ k + (1 + j) = i /\ s + j = i
                    BY <1>1, <3>1, <4>3
                <5> HIDE DEF j
                <5>2. z[i] = w[j]
                    BY <3>5, <3>7, <5>1
                <5>3. l[i] = w[j]
                    BY <1>10, <5>1 DEF l
                <5> QED BY <5>2, <5>3
            <4> QED BY <1>1, <3>1, <4>1, <4>2, <4>3
        <3>10. l = z
            BY <2>1, <3>7, <3>8, <3>9, SeqSame
        <3>11. z = Add(text, w)
            BY DEF Add, z, y, x
        <3> QED BY <2>3, <3>10, <3>11 DEF l
    <2> QED BY <2>2, <2>3
<1>12. Joins(qs, Lines(us, p))
    <2>1. m = 0 => qs[1] = w
        BY <1>8
    <2> QED BY <1>8, <1>9, <1>11, <2>1
<1>13. Flags(us, odd, p, b \/ HasErrors(c))
    <2>1. b \in BOOLEAN /\ (b <=> odd \/ \E i \in 1..s : ~Paired(us, i))
        BY <1>1 DEF Flags
    <2>2. HasErrors(c) <=> \E i \in 1..n : ~Paired(us, s + i)
        BY <1>1, <1>5, SeqFacts DEF HasErrors
    <2>3. \A i \in 1..s : i \in 1..p
        BY <1>1
    <2>4. \A i \in 1..n : s + i \in 1..p
        BY <1>1
    <2>5. ASSUME NEW i \in 1..p, ~(i \in 1..s)
          PROVE  \E j \in 1..n : s + j = i
        <3>1. i - s \in 1..n /\ s + (i - s) = i
            BY <1>1, <2>5
        <3> QED BY <3>1
    <2>6. (\E i \in 1..p : ~Paired(us, i))
             <=> (\E i \in 1..s : ~Paired(us, i)) \/ (\E i \in 1..n : ~Paired(us, s + i))
        BY <2>3, <2>4, <2>5
    <2>7. (b \/ HasErrors(c)) <=> odd \/ \E i \in 1..p : ~Paired(us, i)
        BY <2>1, <2>2, <2>6, Zenon
    <2> QED BY <2>7, Zenon DEF Flags
<1> QED BY <1>1, <1>2, <1>3, <1>8, <1>12, <1>13 DEF qs, w

\* A NUL after units: the component is finished and the next one begins.
LEMMA NextComponent ==
    ASSUME NEW us, IsSeq(us), NEW odd, NEW p, NEW c, NEW ps, NEW b,
           Split(us, odd, p, c, ps, b), c # <<>>, p < Len(us), us[p + 1] = NUL
    PROVE  Split(us, odd, p + 1, <<>>, Append(ps, DecodeUtf16(c)), b \/ HasErrors(c))
<1>1. PICK s : SplitAt(us, odd, p, c, ps, b, s)
    BY DEF Split
<1> DEFINE qs == Append(ps, DecodeUtf16(c))
           e == b \/ HasErrors(c)
           z == <<>>
           q == p + 1
<1>2. /\ Joins(qs, Lines(us, p)) /\ Flags(us, odd, p, e) /\ p > 0 /\ us[p] # NUL
      /\ IsSeq(qs) /\ Len(qs) # 0
    BY <1>1, FinishComponent
<1>3. p \in 0..Len(us) /\ Len(us) \in Nat /\ NoBlank(us, p)
    BY <1>1, SeqFacts DEF SplitAt
<1> HIDE DEF qs, e
<1>4. /\ q \in 0..Len(us) /\ q \in Nat /\ q > 0 /\ q # 0 /\ q - 1 = p /\ us[q] = NUL
      /\ q + 0 = q
    BY <1>3
<1>5. NoBlank(us, q)
    <2> SUFFICES ASSUME NEW i \in 2..q PROVE ~(us[i] = NUL /\ us[i - 1] = NUL)
        BY DEF NoBlank
    <2>1. CASE i \in 2..p
        BY <1>3, <2>1 DEF NoBlank
    <2>2. CASE i = q
        BY <1>2, <1>4, <2>2
    <2> QED BY <1>3, <2>1, <2>2
<1>6. Flags(us, odd, q, e)
    <2>1. e \in BOOLEAN /\ (e <=> odd \/ \E i \in 1..p : ~Paired(us, i))
        BY <1>2 DEF Flags
    <2>2. \A i \in 1..q : i \in 1..p \/ i = q
        BY <1>3
    <2>3. \A i \in 1..p : i \in 1..q
        BY <1>3
    <2>4. Paired(us, q)
        BY <1>4, NulFacts
    <2>5. (\E i \in 1..p : ~Paired(us, i)) <=> (\E i \in 1..q : ~Paired(us, i))
        BY <2>2, <2>3, <2>4, Zenon
    <2> QED BY <2>1, <2>5, Zenon DEF Flags
<1>7. IsSeq(z) /\ Len(z) = 0
    BY EmptyIsSeq
<1> HIDE DEF z, q
<1>8. Joins(qs, Lines(us, IF q = 0 THEN 0 ELSE q - 1))
    BY <1>2, <1>4
<1>9. SplitAt(us, odd, q, z, qs, e, q)
    BY <1>2, <1>4, <1>5, <1>6, <1>7, <1>8 DEF SplitAt
<1>10. Split(us, odd, q, z, qs, e)
    BY <1>9 DEF Split
<1> QED BY <1>10 DEF q, z, qs, e

\* The list ends: at an empty component, or with the units.
LEMMA EndOfSplit ==
    ASSUME NEW us, IsSeq(us), NEW odd, NEW p, NEW c, NEW ps, NEW b,
           Split(us, odd, p, c, ps, b), p < Len(us) => us[p + 1] = NUL /\ c = <<>>,
           NEW qs, NEW d,
           c = <<>> => qs = ps /\ d = b,
           c # <<>> => qs = Append(ps, DecodeUtf16(c)) /\ d = (b \/ HasErrors(c))
    PROVE  Ended(us, odd, p, <<Coerced(Text(JoinLines(qs)), <<>>, Utf16Diagnostics(d))>>)
<1>1. PICK s : SplitAt(us, odd, p, c, ps, b, s)
    BY DEF Split
<1> DEFINE m == IF p > 0 /\ us[p] = NUL THEN p - 1 ELSE p
<1>2. p \in 0..Len(us) /\ Len(us) \in Nat /\ NoBlank(us, p) /\ IsSeq(c)
    BY <1>1, SeqFacts DEF SplitAt
<1>3. /\ p < Len(us) => p = 0 \/ us[p] = NUL
      /\ Flags(us, odd, p, d) /\ Joins(qs, Lines(us, m))
    <2>1. CASE c = <<>>
        <3>1. Len(c) = 0
            BY <1>2, <2>1, EmptyOrNot
        <3>2. s = p
            BY <1>1, <1>2, <3>1 DEF SplitAt
        <3>3. /\ p > 0 => us[p] = NUL
              /\ Flags(us, odd, p, b)
              /\ Joins(ps, Lines(us, IF p = 0 THEN 0 ELSE p - 1))
            BY <1>1, <3>2 DEF SplitAt
        <3>4. m = IF p = 0 THEN 0 ELSE p - 1
            BY <1>2, <3>3
        <3>5. p = 0 \/ us[p] = NUL
            BY <1>2, <3>3
        <3> HIDE DEF m
        <3> QED BY <2>1, <3>3, <3>4, <3>5
    <2>2. CASE c # <<>>
        <3>1. ~(p < Len(us))
            BY <2>2
        <3>2. /\ Joins(Append(ps, DecodeUtf16(c)), Lines(us, p))
              /\ Flags(us, odd, p, b \/ HasErrors(c))
              /\ us[p] # NUL
            BY <1>1, <2>2, <3>1, FinishComponent
        <3>3. m = p
            BY <3>2
        <3> HIDE DEF m
        <3> QED BY <2>2, <3>1, <3>2, <3>3
    <2> QED BY <2>1, <2>2
<1>4. JoinLines(qs) = Lines(us, m)
    BY <1>3, JoinIs
<1> QED BY <1>2, <1>3, <1>4 DEF Ended

-----------------------------------------------------------------------------
(* The invariant. *)

\* What coerce gave for a type other than REG_MULTI_SZ.
GivenAtOnce ==
    \/ Code \in {1, 2, 6} /\ out = <<CoerceText>>
    \/ Code = 4 /\ out = <<CoerceInt(4, FromLeBytes(Field(4)))>>
    \/ Code = 5 /\ out = <<CoerceInt(4, FromBeBytes(Field(4)))>>
    \/ Code \in {11, 16} /\ out = <<CoerceInt(8, FromLeBytes(Field(8)))>>
    \/ Code \notin {1, 2, 4, 5, 6, 7, 11, 16}
       /\ out = <<Coerced(Hex(ToHexLower(Raw)), <<>>, "null")>>

ValueInv ==
    /\ cell \in ValueCell /\ pc \in {"coerce", "split", "done"}
    /\ pc = "split" => Code = 7 /\ Split(Units(Raw), OddLength(Raw), pos, cur, parts, bad)
    /\ pc = "done" => \/ Code = 7 /\ Ended(Units(Raw), OddLength(Raw), pos, out)
                      \/ Code # 7 /\ GivenAtOnce

LEMMA UnitsOfRaw ==
    ASSUME cell \in ValueCell
    PROVE  IsSeq(Units(Raw)) /\ Len(Units(Raw)) = Len(Raw) \div 2
    BY RawSeq, UnitsSeq

\* The invariant holds from the start and through every step of coerce and of
\* split_multi_sz.
THEOREM ValueInvariant == Spec => []ValueInv
<1>1. Init => ValueInv
    BY DEF Init, ValueInv
<1>2. ASSUME ValueInv, [Next]_vars PROVE ValueInv'
    <2> USE <1>2
    <2>0. cell \in ValueCell /\ pc \in {"coerce", "split", "done"}
        BY DEF ValueInv
    <2> DEFINE us == Units(Raw)
               odd == OddLength(Raw)
    <2>1. IsSeq(us)
        BY <2>0, UnitsOfRaw
    <2>2. cell' = cell => /\ Raw' = Raw /\ Code' = Code /\ us' = us /\ odd' = odd
                          /\ CoerceText' = CoerceText
                          /\ Field(4)' = Field(4) /\ Field(8)' = Field(8)
                          /\ \A n, v : CoerceInt(n, v)' = CoerceInt(n, v)
        BY DEF Raw, Code, CoerceText, CoerceInt, Field
    <2>3. CASE CoerceAtOnce
        <3>1. cell' = cell /\ pc' = "done"
            BY <2>3 DEF CoerceAtOnce, Answer
        <3>2. /\ Code # 7
              /\ \/ Code \in {1, 2, 6} /\ out' = <<CoerceText>>
                 \/ Code = 4 /\ out' = <<CoerceInt(4, FromLeBytes(Field(4)))>>
                 \/ Code = 5 /\ out' = <<CoerceInt(4, FromBeBytes(Field(4)))>>
                 \/ Code \in {11, 16} /\ out' = <<CoerceInt(8, FromLeBytes(Field(8)))>>
                 \/ Code \notin {1, 2, 4, 5, 6, 7, 11, 16}
                    /\ out' = <<Coerced(Hex(ToHexLower(Raw)), <<>>, "null")>>
            BY <2>3 DEF CoerceAtOnce, Answer, Code
        <3>3. GivenAtOnce'
            BY <2>2, <3>1, <3>2 DEF GivenAtOnce
        <3> QED BY <2>0, <2>2, <3>1, <3>2, <3>3 DEF ValueInv
    <2>4. CASE StartSplit
        <3>1. /\ cell' = cell /\ pc' = "split" /\ Code = 7
              /\ pos' = 0 /\ cur' = <<>> /\ parts' = <<>> /\ bad' = odd
            BY <2>4 DEF StartSplit, Code
        <3>2. odd \in BOOLEAN
            BY DEF OddLength
        <3> HIDE DEF us, odd
        <3>3. Split(us, odd, 0, <<>>, <<>>, odd)
            BY <2>1, <3>2, BeginSplit
        <3>4. Split(us', odd', pos', cur', parts', bad')
            BY <2>2, <3>1, <3>3
        <3> QED BY <2>0, <2>2, <3>1, <3>4 DEF ValueInv, us, odd
    <2>5. ASSUME pc = "split" PROVE Code = 7 /\ Split(us, odd, pos, cur, parts, bad)
        BY <2>5 DEF ValueInv
    <2>6. CASE CollectUnit
        <3>1. /\ cell' = cell /\ pc = "split" /\ pc' = "split"
              /\ pos < Len(us) /\ us[pos + 1] # NUL
              /\ pos' = pos + 1 /\ cur' = Append(cur, us[pos + 1])
              /\ parts' = parts /\ bad' = bad
            BY <2>6 DEF CollectUnit, More
        <3> HIDE DEF us, odd
        <3>2. Split(us, odd, pos + 1, Append(cur, us[pos + 1]), parts, bad)
            BY <2>1, <2>5, <3>1, CollectSplit
        <3>3. Split(us', odd', pos', cur', parts', bad')
            BY <2>2, <3>1, <3>2
        <3> QED BY <2>0, <2>2, <2>5, <3>1, <3>3 DEF ValueInv, us, odd
    <2>7. CASE EndComponent
        <3>1. /\ cell' = cell /\ pc = "split" /\ pc' = "split"
              /\ pos < Len(us) /\ us[pos + 1] = NUL /\ cur # <<>>
              /\ pos' = pos + 1 /\ cur' = <<>>
              /\ parts' = Append(parts, DecodeUtf16(cur)) /\ bad' = (bad \/ HasErrors(cur))
            BY <2>7 DEF EndComponent, More, PushComponent
        <3> HIDE DEF us, odd
        <3>2. Split(us, odd, pos + 1, <<>>, Append(parts, DecodeUtf16(cur)),
                    bad \/ HasErrors(cur))
            BY <2>1, <2>5, <3>1, NextComponent
        <3>3. Split(us', odd', pos', cur', parts', bad')
            BY <2>2, <3>1, <3>2
        <3> QED BY <2>0, <2>2, <2>5, <3>1, <3>3 DEF ValueInv, us, odd
    <2>8. CASE EndSplit
        <3>1. /\ cell' = cell /\ pc = "split" /\ pc' = "done" /\ pos' = pos
              /\ pos < Len(us) => us[pos + 1] = NUL /\ cur = <<>>
              /\ cur = <<>> => parts' = parts /\ bad' = bad
              /\ cur # <<>> => /\ parts' = Append(parts, DecodeUtf16(cur))
                               /\ bad' = (bad \/ HasErrors(cur))
              /\ out' = <<Coerced(Text(JoinLines(parts')), <<>>, Utf16Diagnostics(bad'))>>
            BY <2>8 DEF EndSplit, More, PushComponent
        <3> HIDE DEF us, odd
        <3>2. Ended(us, odd, pos, out')
            <4> DEFINE qs == parts'
                       d == bad'
            <4> HIDE DEF qs, d
            <4>1. /\ cur = <<>> => qs = parts /\ d = bad
                  /\ cur # <<>> => /\ qs = Append(parts, DecodeUtf16(cur))
                                   /\ d = (bad \/ HasErrors(cur))
                BY <3>1 DEF qs, d
            <4>2. Ended(us, odd, pos,
                        <<Coerced(Text(JoinLines(qs)), <<>>, Utf16Diagnostics(d))>>)
                BY <2>1, <2>5, <3>1, <4>1, EndOfSplit
            <4> QED BY <3>1, <4>2 DEF qs, d
        <3>3. Ended(us', odd', pos', out')
            BY <2>2, <3>1, <3>2
        <3> QED BY <2>0, <2>2, <2>5, <3>1, <3>3 DEF ValueInv, us, odd
    <2>9. CASE UNCHANGED vars
        BY <2>9 DEF vars, ValueInv, GivenAtOnce, Raw, Code, CoerceText, CoerceInt, Field
    <2> QED BY <2>3, <2>4, <2>6, <2>7, <2>8, <2>9 DEF Next, Decoded
<1> QED BY <1>1, <1>2, PTL DEF Spec

-----------------------------------------------------------------------------
(* What the row then says. *)

\* The row of the answer given.
RowIs(data, dword, diagnostics) ==
    /\ DecodedValue.value_data = data /\ DecodedValue.value_dword = dword
    /\ DecodedValue.diagnostics = diagnostics

LEMMA RowOf ==
    ASSUME NEW data, NEW dword, NEW diagnostics, out = <<Coerced(data, dword, diagnostics)>>
    PROVE  RowIs(data, dword, diagnostics)
<1>1. out[1] = Coerced(data, dword, diagnostics)
    OBVIOUS
<1>2. /\ DecodedValue.value_data = out[1].value_data
      /\ DecodedValue.value_dword = out[1].value_dword
      /\ DecodedValue.diagnostics = out[1].diagnostics
    BY DEF DecodedValue
<1> QED BY <1>1, <1>2 DEF Coerced, RowIs

\* The row of a string.
LEMMA StringRow ==
    ASSUME ValueInv, pc = "done", Code \in {1, 2, 6}
    PROVE  RowIs(Text(DecodeUtf16(TrimNul(Units(Raw)))), <<>>,
                 Utf16Diagnostics(OddLength(Raw) \/ HasErrors(TrimNul(Units(Raw)))))
<1>1. Code # 7 /\ GivenAtOnce
    BY DEF ValueInv
<1>2. out = <<CoerceText>>
    BY <1>1 DEF GivenAtOnce
<1> QED BY <1>2, RowOf DEF CoerceText

\* The row of a REG_MULTI_SZ.
LEMMA MultiRow ==
    ASSUME ValueInv, pc = "done", Code = 7
    PROVE  LET us == Units(Raw)
           IN  /\ pos \in 0..Len(us)
               /\ pos < Len(us) => us[pos + 1] = NUL /\ (pos = 0 \/ us[pos] = NUL)
               /\ NoBlank(us, pos)
               /\ \E b : /\ Flags(us, OddLength(Raw), pos, b)
                         /\ RowIs(Text(Lines(us, IF pos > 0 /\ us[pos] = NUL
                                                 THEN pos - 1 ELSE pos)),
                                  <<>>, Utf16Diagnostics(b))
<1>1. Ended(Units(Raw), OddLength(Raw), pos, out)
    BY DEF ValueInv
<1> QED BY <1>1, RowOf DEF Ended

\* The row of an integer type.
LEMMA IntRow ==
    ASSUME ValueInv, pc = "done", NEW w \in {4, 8},
           w = 4 => Code \in {4, 5}, w = 8 => Code \in {11, 16}
    PROVE  \/ Len(Raw) >= w /\ \E v : RowIs(Decimal(v), <<AsI64(v)>>, "null")
           \/ ~(Len(Raw) >= w) /\ RowIs(Hex(ToHexLower(Raw)), <<>>, "truncated")
<1>1. Code # 7 /\ GivenAtOnce
    BY DEF ValueInv
<1>2. \E v : out = <<CoerceInt(w, v)>>
    BY <1>1 DEF GivenAtOnce
<1> QED BY <1>2, RowOf DEF CoerceInt

\* The row of every other type.
LEMMA OtherRow ==
    ASSUME ValueInv, pc = "done", Code \notin {1, 2, 4, 5, 6, 7, 11, 16}
    PROVE  RowIs(Hex(ToHexLower(Raw)), <<>>, "null")
<1>1. Code # 7 /\ GivenAtOnce
    BY DEF ValueInv
<1>2. out = <<Coerced(Hex(ToHexLower(Raw)), <<>>, "null")>>
    BY <1>1 DEF GivenAtOnce
<1> QED BY <1>2, RowOf

LEMMA Forms ==
    /\ \A us : Text(us).form = "text" /\ Text(us).units = us
    /\ \A v : Decimal(v).form = "int"
    /\ \A d : Hex(d).form = "hex" /\ Hex(d).digits = d
    BY DEF Text, Decimal, Hex

\* The name of a type and its rendering never disagree, whatever the high bits
\* of the code, and the hex gives back the bytes (type_name, coerce,
\* to_hex_lower).
THEOREM NamesAndRenderings == Spec => []RenderingMatchesType
<1>1. ASSUME ValueInv PROVE RenderingMatchesType
    <2> USE <1>1
    <2> SUFFICES ASSUME pc = "done"
        PROVE /\ DecodedValue.value_data.form = "text" <=> IsString \/ IsMulti
              /\ DecodedValue.value_data.form = "int" <=> Width > 0 /\ Len(Raw) >= Width
              /\ DecodedValue.value_data.form = "int" <=> DecodedValue.value_dword # <<>>
              /\ DecodedValue.value_data.form = "hex" =>
                    /\ Len(DecodedValue.value_data.digits) = 2 * Len(Raw)
                    /\ Unhex(DecodedValue.value_data.digits) = Raw
        BY DEF RenderingMatchesType
    <2>1. cell \in ValueCell
        BY DEF ValueInv
    <2>2. /\ IsString <=> Code \in {1, 2, 6}
          /\ IsMulti <=> Code = 7
          /\ Width = IF Code \in {4, 5} THEN 4 ELSE IF Code \in {11, 16} THEN 8 ELSE 0
        BY <2>1, TypesAre
    <2>3. Raw \in Seq(Byte)
        BY <2>1, RawSeq
    <2>4. Len(ToHexLower(Raw)) = 2 * Len(Raw) /\ Unhex(ToHexLower(Raw)) = Raw
        BY <2>3, HexGivesBack
    <2>5. CASE Code \in {1, 2, 6}
        <3>1. \E us, g : RowIs(Text(us), <<>>, g)
            BY <2>5, StringRow
        <3>2. DecodedValue.value_data.form = "text" /\ DecodedValue.value_dword = <<>>
            BY <3>1, Forms DEF RowIs
        <3> QED BY <2>2, <2>5, <3>2
    <2>6. CASE Code = 7
        <3>1. \E us, g : RowIs(Text(us), <<>>, g)
            BY <2>6, MultiRow
        <3>2. DecodedValue.value_data.form = "text" /\ DecodedValue.value_dword = <<>>
            BY <3>1, Forms DEF RowIs
        <3> QED BY <2>2, <2>6, <3>2
    <2>7. ASSUME NEW w \in {4, 8}, w = 4 => Code \in {4, 5}, w = 8 => Code \in {11, 16}
          PROVE  \/ /\ Len(Raw) >= w
                    /\ DecodedValue.value_data.form = "int" /\ DecodedValue.value_dword # <<>>
                 \/ /\ ~(Len(Raw) >= w)
                    /\ DecodedValue.value_data.form = "hex" /\ DecodedValue.value_dword = <<>>
                    /\ DecodedValue.value_data.digits = ToHexLower(Raw)
        <3>1. CASE Len(Raw) >= w /\ \E v : RowIs(Decimal(v), <<AsI64(v)>>, "null")
            <4>1. PICK v : RowIs(Decimal(v), <<AsI64(v)>>, "null")
                BY <3>1
            <4>2. <<AsI64(v)>> # <<>>
                OBVIOUS
            <4> QED BY <3>1, <4>1, <4>2, Forms DEF RowIs
        <3>2. CASE ~(Len(Raw) >= w) /\ RowIs(Hex(ToHexLower(Raw)), <<>>, "truncated")
            BY <3>2, Forms DEF RowIs
        <3> QED BY <2>7, <3>1, <3>2, IntRow
    <2>8. CASE Code \in {4, 5}
        <3>1. Width = 4 /\ ~IsString /\ ~IsMulti
            BY <2>2, <2>8
        <3>2. \/ /\ Len(Raw) >= 4
                 /\ DecodedValue.value_data.form = "int" /\ DecodedValue.value_dword # <<>>
              \/ /\ ~(Len(Raw) >= 4)
                 /\ DecodedValue.value_data.form = "hex" /\ DecodedValue.value_dword = <<>>
                 /\ DecodedValue.value_data.digits = ToHexLower(Raw)
            BY <2>7, <2>8
        <3> QED BY <2>4, <3>1, <3>2
    <2>9. CASE Code \in {11, 16}
        <3>1. Width = 8 /\ ~IsString /\ ~IsMulti
            BY <2>2, <2>9
        <3>2. \/ /\ Len(Raw) >= 8
                 /\ DecodedValue.value_data.form = "int" /\ DecodedValue.value_dword # <<>>
              \/ /\ ~(Len(Raw) >= 8)
                 /\ DecodedValue.value_data.form = "hex" /\ DecodedValue.value_dword = <<>>
                 /\ DecodedValue.value_data.digits = ToHexLower(Raw)
            BY <2>7, <2>9
        <3> QED BY <2>4, <3>1, <3>2
    <2>10. CASE Code \notin {1, 2, 4, 5, 6, 7, 11, 16}
        <3>1. RowIs(Hex(ToHexLower(Raw)), <<>>, "null")
            BY <2>10, OtherRow
        <3>2. /\ DecodedValue.value_data.form = "hex" /\ DecodedValue.value_dword = <<>>
              /\ DecodedValue.value_data.digits = ToHexLower(Raw)
            BY <3>1, Forms DEF RowIs
        <3>3. Width = 0 /\ ~IsString /\ ~IsMulti
            BY <2>2, <2>10
        <3> QED BY <2>4, <3>2, <3>3
    <2> QED BY <2>5, <2>6, <2>8, <2>9, <2>10
<1> QED BY <1>1, ValueInvariant, PTL

LEMMA Diagnosed ==
    \A b \in BOOLEAN : /\ Utf16Diagnostics(b) = "bad-utf16" <=> b
                       /\ Utf16Diagnostics(b) = "null" <=> ~b
    BY DEF Utf16Diagnostics

\* The text of a string is its units but for one terminating NUL, a unit that
\* is no character is replaced and flagged, and the base block's reader gives
\* that text up to its first NUL (decode_utf16le in value.rs and baseblock.rs).
THEOREM StringsKeepUnits == Spec => []TextKeepsUnits
<1>1. ASSUME ValueInv PROVE TextKeepsUnits
    <2> USE <1>1
    <2> DEFINE us == Units(Raw)
               text == DecodedValue.value_data.units
               g == DecodedValue.diagnostics
               m == Trimmed(us)
               t == DecodeUtf16(TrimNul(us))
               b == OddLength(Raw) \/ HasErrors(TrimNul(us))
    <2> SUFFICES ASSUME pc = "done", IsString
        PROVE /\ Len(us) - Len(text) \in {0, 1}
              /\ Len(us) > Len(text) => Last(us) = NUL
              /\ \A i \in DOMAIN text :
                    \/ text[i] = us[i]
                    \/ text[i] = Replacement /\ g = "bad-utf16"
              /\ g = "null" => Len(Raw) = 2 * Len(us)
              /\ DecodeFilename(Raw) = SubSeq(text, 1, Min(Cuts(text)))
        <3> HIDE DEF us
        <3> QED BY DEF TextKeepsUnits, Cuts, us
    <2>1. cell \in ValueCell
        BY DEF ValueInv
    <2>2. Code \in {1, 2, 6}
        BY <2>1, TypesAre
    <2>3. Len(Raw) \in Nat /\ IsSeq(us) /\ Len(us) = Len(Raw) \div 2
        BY <2>1, RawSeq, UnitsOfRaw
    <2>4. RowIs(Text(t), <<>>, Utf16Diagnostics(b))
        BY <2>2, StringRow
    <2>5. text = t /\ g = Utf16Diagnostics(b)
        BY <2>4, Forms DEF RowIs
    <2>6. b \in BOOLEAN
        BY DEF OddLength, HasErrors
    <2>7. b <=> OddLength(Raw) \/ \E i \in 1..Len(us) : ~Paired(us, i)
        BY <2>3, ErrorsOf
    <2>8. DecodeFilename(Raw) = SubSeq(t, 1, Min(Cuts(t)))
        BY <2>3, FilenameIs
    <2>9. /\ IsSeq(t) /\ Len(t) = m
          /\ \A i \in 1..m : t[i] = IF Paired(us, i) THEN us[i] ELSE Replacement
        BY <2>3, TextOf
    <2>10. /\ Len(us) \in Nat /\ m \in 0..Len(us)
           /\ m < Len(us) => m + 1 = Len(us) /\ us[m + 1] = NUL
        BY <2>3, Trims, SeqFacts
    <2>11. (g = "bad-utf16" <=> b) /\ (g = "null" <=> ~b)
        <3> HIDE DEF b, g
        <3> QED BY <2>5, <2>6, Diagnosed
    <2>12. g = "null" => Len(Raw) = 2 * Len(us)
        <3> SUFFICES ASSUME ~OddLength(Raw) PROVE Len(Raw) = 2 * Len(us)
            BY <2>7, <2>11
        <3>1. Len(Raw) % 2 # 1
            BY DEF OddLength
        <3>2. Len(Raw) % 2 = 0 /\ Len(Raw) = 2 * (Len(Raw) \div 2) + (Len(Raw) % 2)
            BY <2>3, <3>1, HalfOf
        <3> QED BY <2>3, <3>2
    <2>13. DOMAIN t = 1..m
        BY <2>9, SeqFacts
    <2> HIDE DEF us, t, g, b, m, text
    <2>14. Len(us) - m \in {0, 1} /\ (Len(us) > m => Last(us) = NUL)
        BY <2>10 DEF Last
    <2>15. ASSUME NEW i \in 1..m
           PROVE  t[i] = us[i] \/ (t[i] = Replacement /\ g = "bad-utf16")
        <3>1. CASE Paired(us, i)
            BY <2>9, <3>1
        <3>2. CASE ~Paired(us, i)
            <4>1. i \in 1..Len(us)
                BY <2>10
            <4>2. b
                BY <2>7, <3>2, <4>1
            <4> QED BY <2>9, <2>11, <3>2, <4>2
        <3> QED BY <3>1, <3>2
    <2> QED BY <2>5, <2>8, <2>9, <2>12, <2>13, <2>14, <2>15
<1> QED BY <1>1, ValueInvariant, PTL

\* The text of a REG_MULTI_SZ is its list up to the empty component, with a
\* newline for each NUL between two components (split_multi_sz, coerce).
THEOREM ListsKeepComponents == Spec => []MultiSzKeepsComponents
<1>1. ASSUME ValueInv PROVE MultiSzKeepsComponents
    <2> USE <1>1
    <2> DEFINE us == Units(Raw)
               head == SubSeq(us, 1, pos)
               list == TrimNul(head)
               m == IF pos > 0 /\ us[pos] = NUL THEN pos - 1 ELSE pos
    <2> SUFFICES ASSUME pc = "done", IsMulti
        PROVE /\ pos < Len(us) => us[pos + 1] = NUL /\ (pos = 0 \/ us[pos] = NUL)
              /\ \A i \in 2..pos : ~(us[i] = NUL /\ us[i - 1] = NUL)
              /\ DecodedValue.value_data.units =
                    [i \in DOMAIN list |-> IF list[i] = NUL THEN Newline
                                           ELSE DecodeUtf16(us)[i]]
        BY DEF MultiSzKeepsComponents
    <2>1. cell \in ValueCell
        BY DEF ValueInv
    <2>2. Code = 7
        BY <2>1, TypesAre
    <2>3. IsSeq(us) /\ Len(us) \in Nat
        BY <2>1, UnitsOfRaw, SeqFacts
    <2>4. /\ pos \in 0..Len(us)
          /\ pos < Len(us) => us[pos + 1] = NUL /\ (pos = 0 \/ us[pos] = NUL)
          /\ NoBlank(us, pos)
          /\ \E b : RowIs(Text(Lines(us, m)), <<>>, Utf16Diagnostics(b))
        BY <2>2, MultiRow
    <2>5. DecodedValue.value_data.units = Lines(us, m)
        BY <2>4, Forms DEF RowIs
    <2> HIDE DEF us
    <2>6. IsSeq(head) /\ Len(head) = pos /\ \A i \in 1..pos : head[i] = us[i]
        BY <2>3, <2>4, SubSeqPrefix DEF Prefix
    <2> HIDE DEF head
    <2>7. Trimmed(head) = m
        <3>1. pos > 0 => head[pos] = us[pos]
            BY <2>3, <2>4, <2>6
        <3> QED BY <2>6, <3>1 DEF Trimmed
    <2>8. IsSeq(list) /\ Len(list) = m /\ \A i \in 1..m : list[i] = head[i]
        BY <2>6, <2>7, Trims DEF Prefix
    <2>9. m \in 0..pos
        BY <2>3, <2>4
    <2> HIDE DEF list, m
    <2>10. DOMAIN list = 1..m
        BY <2>8, SeqFacts
    <2>11. \A i \in 1..m : list[i] = us[i]
        <3>1. \A i \in 1..m : i \in 1..pos
            BY <2>3, <2>4, <2>9
        <3> QED BY <2>6, <2>8, <3>1
    <2>12. Lines(us, m) = [i \in DOMAIN list |-> IF list[i] = NUL THEN Newline
                                                ELSE DecodeUtf16(us)[i]]
        BY <2>10, <2>11 DEF Lines
    <2> QED BY <2>4, <2>5, <2>12 DEF NoBlank
<1> QED BY <1>1, ValueInvariant, PTL

\* bad-utf16 is reported exactly when the length is odd or a unit that was read
\* is an unpaired surrogate, in every component (decode_utf16le,
\* split_multi_sz).
THEOREM BadUnitsAreFlagged == Spec => []BadUnitsFlagged
<1>1. ASSUME ValueInv PROVE BadUnitsFlagged
    <2> USE <1>1
    <2> DEFINE us == Units(Raw)
               g == DecodedValue.diagnostics
    <2> SUFFICES ASSUME pc = "done", IsString \/ IsMulti
        PROVE g = "bad-utf16" <=>
                 (OddLength(Raw) \/ \E i \in 1..(IF IsMulti THEN pos ELSE Len(us)) :
                                       ~Paired(us, i))
        BY DEF BadUnitsFlagged
    <2>1. cell \in ValueCell
        BY DEF ValueInv
    <2>2. (IsString <=> Code \in {1, 2, 6}) /\ (IsMulti <=> Code = 7)
        BY <2>1, TypesAre
    <2>3. IsSeq(us)
        BY <2>1, UnitsOfRaw
    <2>4. CASE IsMulti
        <3>1. PICK b : /\ Flags(us, OddLength(Raw), pos, b)
                       /\ g = Utf16Diagnostics(b)
            BY <2>2, <2>4, MultiRow DEF RowIs
        <3> HIDE DEF us, g
        <3>2. b \in BOOLEAN /\ (b <=> OddLength(Raw) \/ \E i \in 1..pos : ~Paired(us, i))
            BY <3>1 DEF Flags
        <3>3. g = "bad-utf16" <=> b
            BY <3>1, <3>2, Diagnosed
        <3> QED BY <2>4, <3>2, <3>3
    <2>5. CASE ~IsMulti
        <3> DEFINE b == OddLength(Raw) \/ HasErrors(TrimNul(us))
        <3>1. g = Utf16Diagnostics(b)
            BY <2>2, <2>5, StringRow DEF RowIs
        <3>2. b <=> OddLength(Raw) \/ \E i \in 1..Len(us) : ~Paired(us, i)
            BY <2>3, ErrorsOf
        <3>3. b \in BOOLEAN
            BY DEF OddLength, HasErrors
        <3> HIDE DEF us, g, b
        <3>4. g = "bad-utf16" <=> b
            BY <3>1, <3>3, Diagnosed
        <3> QED BY <2>5, <3>2, <3>4
    <2> QED BY <2>4, <2>5
<1> QED BY <1>1, ValueInvariant, PTL

\* The number an integer type renders.
IntOf(w) == IF Code = 5 THEN FromBeBytes(Field(w)) ELSE FromLeBytes(Field(w))

LEMMA IntRowIs ==
    ASSUME ValueInv, pc = "done", NEW w \in {4, 8},
           w = 4 => Code \in {4, 5}, w = 8 => Code \in {11, 16}, Len(Raw) >= w
    PROVE  RowIs(Decimal(IntOf(w)), <<AsI64(IntOf(w))>>, "null")
<1>1. Code # 7 /\ GivenAtOnce
    BY DEF ValueInv
<1>2. out = <<CoerceInt(w, IntOf(w))>>
    BY <1>1 DEF GivenAtOnce, IntOf
<1> QED BY <1>2, RowOf DEF CoerceInt

\* Its digits are the bytes, in the order of the type.
LEMMA IntDigits ==
    ASSUME cell \in ValueCell, NEW w \in {4, 8}, Len(Raw) >= w
    PROVE  /\ IntOf(w) \in Nat /\ IntOf(w) < BytePower[w]
           /\ \A i \in 1..w :
                 (IntOf(w) \div BytePower[IF Code = 5 THEN w - i ELSE i - 1]) % ByteBase
                    = Raw[i]
<1> DEFINE v == IntOf(w)
           bs == IF Code = 5 THEN Reverse(Field(w)) ELSE Field(w)
<1>1. v = FromLeBytes(bs)
    BY DEF IntOf, FromBeBytes
<1>2. /\ Len(bs) = w
      /\ \A i \in 1..w : bs[i] = IF Code = 5 THEN Raw[(w - i) + 1] ELSE Raw[i]
      /\ \A i \in 1..w : Raw[i] \in Byte
    BY FieldIs DEF Prefix
<1> HIDE DEF bs, v
<1>3. \A i \in 1..w : (w - i) + 1 \in 1..w /\ (w - ((w - i) + 1)) + 1 = i
                      /\ ((w - i) + 1) - 1 = w - i /\ (w - w) + i = i
    OBVIOUS
<1>4. \A i \in 1..w : bs[i] \in Byte
    BY <1>2, <1>3
<1>5. Digits(bs, w, w, v)
    BY <1>1, <1>2, <1>4, FromLeIs
<1>6. \A i \in 1..w : (v \div BytePower[i - 1]) % ByteBase = bs[i]
    BY <1>3, <1>5 DEF Digits
<1>7. ASSUME NEW i \in 1..w
      PROVE  (v \div BytePower[IF Code = 5 THEN w - i ELSE i - 1]) % ByteBase = Raw[i]
    <2>1. CASE Code = 5
        <3> DEFINE j == (w - i) + 1
        <3>1. j \in 1..w /\ (w - j) + 1 = i /\ j - 1 = w - i
            BY <1>3
        <3> HIDE DEF j
        <3>2. bs[j] = Raw[i]
            BY <1>2, <2>1, <3>1
        <3>3. (v \div BytePower[j - 1]) % ByteBase = bs[j]
            BY <1>6, <3>1
        <3> QED BY <2>1, <3>1, <3>2, <3>3
    <2>2. CASE Code # 5
        BY <1>2, <1>6, <2>2
    <2> QED BY <2>1, <2>2
<1> QED BY <1>5, <1>7 DEF Digits, v

\* The sign: v is below P, which is even.
LEMMA Signed ==
    ASSUME NEW P \in Nat \ {0}, P % 2 = 0, NEW v \in Nat, v < P,
           NEW s, s = IF 2 * v >= P THEN v - P ELSE v
    PROVE  /\ s \in -(P \div 2)..((P \div 2) - 1) /\ (s - v) % P = 0
           /\ s < 0 => 2 * v >= P
<1>1. PICK h \in Nat : P = 2 * h
    OBVIOUS
<1>2. P \div 2 = h
    BY <1>1
<1>3. s \in -h..(h - 1) /\ (s < 0 => 2 * v >= P)
    BY <1>1
<1>4. (s - v) % P = 0
    <2>1. CASE 2 * v >= P
        <3>1. s - v = -P
            BY <2>1
        <3>2. (-P) % P = 0
            OBVIOUS
        <3> QED BY <3>1, <3>2
    <2>2. CASE ~(2 * v >= P)
        <3>1. s - v = 0
            BY <2>2
        <3>2. 0 % P = 0
            OBVIOUS
        <3> QED BY <3>1, <3>2
    <2> QED BY <2>1, <2>2
<1> QED BY <1>2, <1>3, <1>4

\* A number in the upper half of its range has its highest digit there.
LEMMA TopDigit ==
    ASSUME NEW B \in Nat \ {0}, NEW Q \in Nat \ {0}, NEW v \in Nat, v < B * Q,
           2 * v >= B * Q, NEW d \in Nat, (v \div Q) % B = d
    PROVE  d >= B \div 2
<1> DEFINE q == v \div Q
           r == v % Q
<1>1. q \in Nat /\ r \in Nat /\ r < Q /\ v = Q * q + r
    OBVIOUS
<1> HIDE DEF q, r
<1>2. q < B
    <2> SUFFICES ASSUME q >= B PROVE FALSE
        BY <1>1
    <2>1. Q * q >= Q * B
        BY <1>1
    <2>2. Q * B = B * Q /\ Q * q \in Nat /\ B * Q \in Nat
        BY <1>1
    <2> QED BY <1>1, <2>1, <2>2
<1>3. q = d
    BY <1>1, <1>2 DEF q
<1>4. B < 2 * (d + 1)
    <2> SUFFICES ASSUME B >= 2 * (d + 1) PROVE FALSE
        BY <1>1
    <2>1. B * Q >= (2 * (d + 1)) * Q
        BY <1>1
    <2>2. (2 * (d + 1)) * Q = 2 * (Q * d + Q) /\ Q * d \in Nat /\ B * Q \in Nat
        BY <1>1
    <2>3. v < Q * d + Q
        BY <1>1, <1>3, <2>2
    <2> QED BY <1>1, <2>1, <2>2, <2>3
<1> QED BY <1>4

\* Every byte of an integer is in its place, value_dword is the same number
\* modulo 2^64 and negative only for 64 bits with the top one set, and the
\* integer is missing exactly when there are too few bytes (coerce).
THEOREM IntegersAreExact == Spec => []IntegersExact
<1>1. ASSUME ValueInv PROVE IntegersExact
    <2> USE <1>1
    <2> DEFINE row == DecodedValue
               v == row.value_data.value
               place == IF row.value_type = <<"REG_DWORD_BIG_ENDIAN">>
                        THEN [i \in 1..Width |-> Width - i] ELSE [i \in 1..Width |-> i - 1]
    <2> SUFFICES ASSUME pc = "done", Width > 0
        PROVE IF Len(Raw) < Width
              THEN row.value_dword = <<>> /\ row.diagnostics = "truncated"
              ELSE /\ \A i \in 1..Width :
                         (v \div BytePower[place[i]]) % ByteBase = Raw[i]
                   /\ v < BytePower[Width]
                   /\ row.value_dword[1] \in Int64
                   /\ (row.value_dword[1] - v) % BytePower[8] = 0
                   /\ row.value_dword[1] < 0 =>
                         Width = 8 /\ Raw[8] >= ByteBase \div 2
                   /\ row.diagnostics = "null"
        BY DEF IntegersExact
    <2>1. cell \in ValueCell
        BY DEF ValueInv
    <2>2. Len(Raw) \in Nat
        BY <2>1, RawSeq
    <2>3. Width = IF Code \in {4, 5} THEN 4 ELSE IF Code \in {11, 16} THEN 8 ELSE 0
        BY <2>1, TypesAre
    <2>4. Width \in {4, 8} /\ (Width = 4 => Code \in {4, 5}) /\ (Width = 8 => Code \in {11, 16})
        BY <2>3
    <2>5. row.value_type = <<"REG_DWORD_BIG_ENDIAN">> <=> Code = 5
        BY <2>1, KnownCodes DEF DecodedValue, Known
    <2> DEFINE w == Width
               x == IntOf(w)
               s == AsI64(x)
    <2>6. CASE Len(Raw) < w
        <3>1. ~(Len(Raw) >= w)
            BY <2>2, <2>4, <2>6
        <3>2. RowIs(Hex(ToHexLower(Raw)), <<>>, "truncated")
            <4> HIDE DEF w
            <4> QED BY <2>4, <3>1, IntRow DEF w
        <3> QED BY <2>6, <3>2 DEF RowIs
    <2>7. CASE ~(Len(Raw) < w)
        <3>1. Len(Raw) >= w
            BY <2>2, <2>4, <2>7
        <3>2. RowIs(Decimal(x), <<s>>, "null")
            BY <2>4, <3>1, IntRowIs
        <3>3. v = x /\ row.value_dword[1] = s /\ row.diagnostics = "null"
            BY <3>2 DEF RowIs, Decimal
        <3>4. /\ x \in Nat /\ x < BytePower[w]
              /\ \A i \in 1..w :
                    (x \div BytePower[IF Code = 5 THEN w - i ELSE i - 1]) % ByteBase = Raw[i]
            BY <2>1, <2>4, <3>1, IntDigits
        <3>5. \A i \in 1..w : place[i] = IF Code = 5 THEN w - i ELSE i - 1
            BY <2>5
        <3> DEFINE P == BytePower[8]
        <3>6. P \in Nat \ {0} /\ P % 2 = 0 /\ P >= 4 * BytePower[4] /\ BytePower[4] \in Nat
            BY PowerFacts
        <3>7. s = IF 2 * x >= P THEN x - P ELSE x
            BY DEF AsI64
        <3> HIDE DEF v, row, place, w, x, s, P
        <3>8. x < P
            BY <2>4, <3>4, <3>6 DEF w, P
        <3>9. s \in -(P \div 2)..((P \div 2) - 1) /\ (s - x) % P = 0 /\ (s < 0 => 2 * x >= P)
            BY <3>4, <3>6, <3>7, <3>8, Signed
        <3>10. s < 0 => w = 8 /\ Raw[8] >= ByteBase \div 2
            <4> SUFFICES ASSUME s < 0 PROVE w = 8 /\ Raw[8] >= ByteBase \div 2
                OBVIOUS
            <4>1. 2 * x >= P
                BY <3>9
            <4>2. w = 8
                <5> SUFFICES ASSUME w = 4 PROVE FALSE
                    BY <2>4 DEF w
                <5>1. x < BytePower[4]
                    BY <3>4
                <5> QED BY <3>4, <3>6, <4>1, <5>1
            <4>3. Code # 5 /\ 8 \in 1..w /\ 8 - 1 = 7
                BY <2>4, <4>2 DEF w
            <4>4. (x \div BytePower[7]) % ByteBase = Raw[8]
                BY <3>4, <4>3
            <4>5. Raw[8] \in Nat
                <5>1. Raw[8] \in Byte
                    BY <2>1, <3>1, <4>2, <4>3, FieldIs
                <5> QED BY <5>1 DEF Byte
            <4>6. P = ByteBase * BytePower[7] /\ BytePower[7] \in Nat \ {0}
                  /\ ByteBase \in Nat \ {0}
                <5>1. 7 \in 0..7 /\ 7 + 1 = 8 /\ 7 \in 0..8
                    OBVIOUS
                <5> QED BY <5>1, Powers, PowerFacts, BaseFacts DEF P
            <4>7. Raw[8] >= ByteBase \div 2
                BY <3>4, <3>8, <4>1, <4>4, <4>5, <4>6, TopDigit
            <4> QED BY <4>2, <4>7
        <3>11. \A i \in 1..w : (x \div BytePower[place[i]]) % ByteBase = Raw[i]
            BY <3>4, <3>5
        <3> QED BY <2>7, <3>3, <3>4, <3>9, <3>10, <3>11 DEF Int64, P, w
    <2> QED BY <2>6, <2>7
<1> QED BY <1>1, ValueInvariant, PTL
=============================================================================
