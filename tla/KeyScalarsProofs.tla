-------------------------- MODULE KeyScalarsProofs --------------------------
(***************************************************************************)
(* The scalar functions over a batch, for every set of blobs, paths and    *)
(* names and every number of rows: columns stay aligned, every row reads   *)
(* back its own key, the functions agree, and a call fails for the types   *)
(* of its columns alone.                                                   *)
(***************************************************************************)
EXTENDS KeyScalars, SequenceTheorems, TLAPS

-----------------------------------------------------------------------------
(* Builders: sequences of whatever was appended. *)

IsSeq(s) == s \in Seq(Range(s))

LEMMA SeqIsSeq ==
    ASSUME NEW S, NEW s \in Seq(S)
    PROVE  IsSeq(s)
<1>1. Len(s) \in Nat /\ s \in [1..Len(s) -> S]
    BY LenProperties
<1>2. s \in [1..Len(s) -> Range(s)]
    BY <1>1 DEF Range
<1> QED BY <1>1, <1>2, SeqDef DEF IsSeq

\* The empty builder.
LEMMA EmptyIsSeq == IsSeq(<<>>) /\ Len(<<>>) = 0
    BY EmptySeq, SeqIsSeq

LEMMA SeqFacts ==
    ASSUME NEW s, IsSeq(s)
    PROVE  Len(s) \in Nat /\ DOMAIN s = 1..Len(s)
    BY LenProperties DEF IsSeq

\* A builder after an append.
LEMMA AppendGrows ==
    ASSUME NEW s, IsSeq(s), NEW e
    PROVE  /\ IsSeq(Append(s, e)) /\ Len(s) \in Nat
           /\ Len(Append(s, e)) = Len(s) + 1 /\ Append(s, e)[Len(s) + 1] = e
           /\ \A i \in 1..Len(s) : Append(s, e)[i] = s[i]
<1> DEFINE S == Range(s) \cup {e}
<1>1. s \in Seq(S)
    <2>1. Range(s) \subseteq S
        OBVIOUS
    <2> QED BY <2>1, SeqMonotonic DEF IsSeq
<1>2. e \in S
    OBVIOUS
<1> HIDE DEF S
<1>3. Append(s, e) \in Seq(S)
    BY <1>1, <1>2, AppendProperties
<1>4. IsSeq(Append(s, e))
    BY <1>3, SeqIsSeq
<1>5. /\ Len(Append(s, e)) = Len(s) + 1 /\ Append(s, e)[Len(s) + 1] = e
      /\ \A i \in 1..Len(s) : Append(s, e)[i] = s[i]
    BY <1>1, <1>2, AppendProperties
<1>6. Len(s) \in Nat
    BY <1>1, LenProperties
<1> QED BY <1>4, <1>5, <1>6

\* The builder t is the builder s with the n entries of g.
Child(t, s, n, g) ==
    /\ IsSeq(t) /\ Len(t) = Len(s) + n
    /\ \A i \in 1..Len(s) : t[i] = s[i]
    /\ \A i \in 1..n : t[Len(s) + i] = g[i]

LEMMA ConcatGrows ==
    ASSUME NEW s, IsSeq(s), NEW t, IsSeq(t)
    PROVE  Child(s \o t, s, Len(t), t)
<1> DEFINE S == Range(s) \cup Range(t)
<1>1. s \in Seq(S) /\ t \in Seq(S)
    <2>1. Range(s) \subseteq S /\ Range(t) \subseteq S
        OBVIOUS
    <2> QED BY <2>1, SeqMonotonic DEF IsSeq
<1> HIDE DEF S
<1>2. /\ s \o t \in Seq(S) /\ Len(s \o t) = Len(s) + Len(t)
      /\ \A i \in 1..(Len(s) + Len(t)) :
            (s \o t)[i] = IF i <= Len(s) THEN s[i] ELSE t[i - Len(s)]
    BY <1>1, ConcatProperties
<1>3. Len(s) \in Nat /\ Len(t) \in Nat
    BY <1>1, LenProperties
<1>4. ASSUME NEW i \in 1..Len(t) PROVE (s \o t)[Len(s) + i] = t[i]
    <2>1. Len(s) + i \in 1..(Len(s) + Len(t)) /\ ~(Len(s) + i <= Len(s))
          /\ (Len(s) + i) - Len(s) = i
        BY <1>3
    <2> QED BY <1>2, <2>1
<1>5. ASSUME NEW i \in 1..Len(s) PROVE (s \o t)[i] = s[i]
    <2>1. i \in 1..(Len(s) + Len(t)) /\ i <= Len(s)
        BY <1>3
    <2> QED BY <1>2, <2>1
<1>6. IsSeq(s \o t)
    BY <1>2, SeqIsSeq
<1> QED BY <1>2, <1>3, <1>4, <1>5, <1>6 DEF Child

-----------------------------------------------------------------------------
(* The functions and their columns. *)

LEMMA Functions5 ==
    /\ Len(Function) = 5 /\ DOMAIN Function = 1..5
    /\ Function[1] = "hive_value" /\ Function[2] = "key_info" /\ Function[3] = "hive_key"
    /\ Function[4] = "hive_info" /\ Function[5] = "well_formed"
    BY DEF Function

LEMMA ColumnsOf ==
    /\ Columns("hive_value") = {"value_type", "value_data", "value_raw", "valid"}
    /\ Columns("key_info") = {"last_write", "subkey_count", "value_count", "class_name",
                              "is_deleted", "valid"}
    /\ Columns("hive_key") = {"key_path", "last_write", "class_name", "subkey_count",
                              "value_count", "is_deleted", "values", "valid",
                              "item_name", "item_type", "item_data", "item_raw"}
    /\ Columns("hive_info") = {"hive_type", "root_path", "numbers", "is_dirty", "valid"}
    /\ Columns("well_formed") = {"ok", "hive_type", "error", "kind"}
    BY DEF Columns

\* Every function but hive_key has no list.
LEMMA NoItems ==
    /\ Columns("hive_value") \cap Items = {} /\ Columns("key_info") \cap Items = {}
    /\ Columns("hive_info") \cap Items = {} /\ Columns("well_formed") \cap Items = {}
    /\ Items \subseteq Columns("hive_key")
    BY ColumnsOf DEF Items

\* After n rows each column of f but the children of its list has n entries.
Aligned(f, cs, n) ==
    /\ DOMAIN cs = Columns(f)
    /\ \A c \in Columns(f) : IsSeq(cs[c])
    /\ \A c \in Columns(f) \ Items : Len(cs[c]) = n

LEMMA FreshAligned ==
    ASSUME NEW f
    PROVE  Aligned(f, NoColumns(f), 0)
    BY EmptyIsSeq DEF Aligned, NoColumns

\* The columns ds are the columns cs of n rows, and row r.
Grown(f, ds, cs, r, n) ==
    /\ Aligned(f, ds, n + 1)
    /\ \A c \in Columns(f) \ Items : /\ ds[c][n + 1] = r[c]
                                    /\ \A i \in 1..n : ds[c][i] = cs[c][i]
    /\ \A c \in Columns(f) \cap Items : ds[c] = cs[c]

\* A row appended to each of its columns.
LEMMA PushAligned ==
    ASSUME NEW f, NEW cs, NEW n \in Nat, Aligned(f, cs, n), NEW r, DOMAIN r = Columns(f) \ Items
    PROVE  Grown(f, Push(cs, r), cs, r, n)
<1> DEFINE p == Push(cs, r)
<1>1. /\ DOMAIN p = Columns(f)
      /\ \A c \in Columns(f) \ Items : p[c] = Append(cs[c], r[c])
      /\ \A c \in Columns(f) \cap Items : p[c] = cs[c]
    BY DEF Push, Aligned
<1> HIDE DEF p
<1>2. ASSUME NEW c \in Columns(f) \ Items
      PROVE  /\ IsSeq(p[c]) /\ Len(p[c]) = n + 1 /\ p[c][n + 1] = r[c]
             /\ \A i \in 1..n : p[c][i] = cs[c][i]
    <2>1. IsSeq(cs[c]) /\ Len(cs[c]) = n
        BY DEF Aligned
    <2> DEFINE s == cs[c]
               e == r[c]
    <2>2. p[c] = Append(s, e) /\ IsSeq(s) /\ Len(s) = n
        BY <1>1, <2>1
    <2> HIDE DEF s, e
    <2>3. /\ IsSeq(Append(s, e)) /\ Len(Append(s, e)) = n + 1 /\ Append(s, e)[n + 1] = e
          /\ \A i \in 1..n : Append(s, e)[i] = s[i]
        BY <2>2, AppendGrows
    <2> QED BY <2>2, <2>3 DEF s, e
<1>3. \A c \in Columns(f) \cap Items : IsSeq(p[c])
    BY <1>1 DEF Aligned
<1>4. Aligned(f, p, n + 1)
    BY <1>1, <1>2, <1>3 DEF Aligned
<1> QED BY <1>1, <1>2, <1>4 DEF p, Grown

-----------------------------------------------------------------------------
(* What a row appends. *)

LEMMA NoneRows ==
    ASSUME NEW f, NEW n
    PROVE  /\ DOMAIN NoneRow(f, n) = Columns(f) \ Items
           /\ \A c \in Columns(f) \ Items :
                 /\ c = "valid" => NoneRow(f, n)[c] = FALSE
                 /\ c = "values" => NoneRow(f, n)[c] = [end |-> n, valid |-> FALSE]
                 /\ c \notin {"valid", "values"} => NoneRow(f, n)[c] = Null
<1>1. DOMAIN NoneRow(f, n) = Columns(f) \ Items
    BY DEF NoneRow
<1>2. ASSUME NEW c \in Columns(f) \ Items
      PROVE  /\ c = "valid" => NoneRow(f, n)[c] = FALSE
             /\ c = "values" => NoneRow(f, n)[c] = [end |-> n, valid |-> FALSE]
             /\ c \notin {"valid", "values"} => NoneRow(f, n)[c] = Null
    BY DEF NoneRow
<1> QED BY <1>1, <1>2

LEMMA FoundRows ==
    /\ \A v : DOMAIN HiveValueRow(v) = Columns("hive_value") \ Items
    /\ \A k : DOMAIN KeyInfoRow(k) = Columns("key_info") \ Items
    /\ \A p, k, n : DOMAIN HiveKeyRow(p, k, n) = Columns("hive_key") \ Items
    /\ \A b : DOMAIN HiveInfoRow(b) = Columns("hive_info") \ Items
    /\ \A b : DOMAIN WellFormedRow(b) = Columns("well_formed") \ Items
<1>1. /\ \A v : DOMAIN HiveValueRow(v) = Columns("hive_value") \ Items
      /\ \A k : DOMAIN KeyInfoRow(k) = Columns("key_info") \ Items
    BY ColumnsOf DEF HiveValueRow, KeyInfoRow, Items
<1>2. \A p, k, n : DOMAIN HiveKeyRow(p, k, n) = Columns("hive_key") \ Items
    BY ColumnsOf DEF HiveKeyRow, Items
<1>3. /\ \A b : DOMAIN HiveInfoRow(b) = Columns("hive_info") \ Items
      /\ \A b : DOMAIN WellFormedRow(b) = Columns("well_formed") \ Items
    BY ColumnsOf DEF HiveInfoRow, WellFormedRow, Items
<1> QED BY <1>1, <1>2, <1>3

\* The key found has a list of values, each with a name.
LEMMA KeyFound ==
    ASSUME NEW r \in Row, Lookup(r) # <<>>
    PROVE  /\ IsSeq(Lookup(r)[1].values)
           /\ \A i \in DOMAIN Lookup(r)[1].values : Lookup(r)[1].values[i].name \in Name
<1> DEFINE b == r.blob
           k == r.path.key
<1>1. b \in Blob /\ k \in DOMAIN b.keys /\ Lookup(r) = <<b.keys[k]>>
    BY DEF Lookup, GetKey, Row
<1>2. /\ b.keys[k].values \in Seq(Range(b.keys[k].values))
      /\ \A i \in DOMAIN b.keys[k].values : b.keys[k].values[i].name \in Name
    BY <1>1, BlobAssumption
<1>3. Lookup(r)[1] = b.keys[k]
    BY <1>1
<1> QED BY <1>2, <1>3 DEF IsSeq

-----------------------------------------------------------------------------
(* What the columns hold after n rows. *)

Values(r) == IF Lookup(r) = <<>> THEN <<>> ELSE Lookup(r)[1].values

LEMMA ValuesSeq ==
    ASSUME NEW r \in Row
    PROVE  IsSeq(Values(r)) /\ \A i \in DOMAIN Values(r) : Values(r)[i].name \in Name
<1>1. CASE Lookup(r) = <<>>
    BY <1>1, EmptyIsSeq DEF Values
<1>2. CASE Lookup(r) # <<>>
    BY <1>2, KeyFound DEF Values
<1> QED BY <1>1, <1>2

\* Row i of hive_value.
ValueRow(bt, cs, i) ==
    \E found \in LookupValue(bt[i]) :
        /\ cs["valid"][i] = (found # <<>>)
        /\ found # <<>> => cs["value_data"][i] = found[1].data

\* Row i of key_info.
InfoRow(bt, cs, i) ==
    LET key == Lookup(bt[i])
    IN  /\ cs["valid"][i] = (key # <<>>)
        /\ cs["value_count"][i] = IF key = <<>> THEN Null ELSE key[1].count

\* Where the list of row i of hive_key begins in the child columns.
Begin(cs, i) == IF i = 1 THEN 0 ELSE cs["values"][i - 1].end

\* Row i of hive_key.
ListRow(bt, cs, i) ==
    LET key == Lookup(bt[i])
        vs  == Values(bt[i])
    IN  /\ cs["valid"][i] = (key # <<>>)
        /\ cs["value_count"][i] = IF key = <<>> THEN Null ELSE key[1].count
        /\ cs["values"][i] = [end |-> Begin(cs, i) + Len(vs), valid |-> key # <<>>]
        /\ \A k \in 1..Len(vs) :
              /\ cs["item_name"][Begin(cs, i) + k] = DecodedName(vs[k])
              /\ cs["item_data"][Begin(cs, i) + k] = vs[k].data

\* The lists of the first n rows, one after the other, are the child columns.
Lists(bt, cs, n) ==
    /\ \A c \in Items : Len(cs[c]) = Begin(cs, n + 1)
    /\ \A i \in 1..n : cs["values"][i].end \in 0..Len(cs["item_name"])
    /\ \A i \in 1..n : ListRow(bt, cs, i)

Holds(bt, f, cs, n) ==
    /\ Aligned(f, cs, n)
    /\ f = "hive_value" => \A i \in 1..n : ValueRow(bt, cs, i)
    /\ f = "key_info" => \A i \in 1..n : InfoRow(bt, cs, i)
    /\ f = "hive_key" => Lists(bt, cs, n)

LEMMA FreshHolds ==
    ASSUME NEW bt, NEW f
    PROVE  Holds(bt, f, NoColumns(f), 0)
<1>1. \A i \in 1..0 : FALSE
    OBVIOUS
<1>2. f = "hive_key" => Lists(bt, NoColumns(f), 0)
    <2> SUFFICES ASSUME f = "hive_key" PROVE Lists(bt, NoColumns(f), 0)
        OBVIOUS
    <2>1. \A c \in Items : Len(NoColumns(f)[c]) = 0
        BY NoItems, EmptyIsSeq DEF NoColumns
    <2>2. Begin(NoColumns(f), 0 + 1) = 0
        BY DEF Begin
    <2> QED BY <1>1, <2>1, <2>2 DEF Lists
<1> QED BY <1>1, <1>2, FreshAligned DEF Holds

-----------------------------------------------------------------------------
(* The rounds of the loops. *)

LEMMA ValueRound ==
    ASSUME batch \in Seq(Row), row \in 1..Len(batch), Holds(batch, "hive_value", cols, row - 1),
           HiveValueStep
    PROVE  Holds(batch, "hive_value", cols', row)
<1> DEFINE f == "hive_value"
           n == row - 1
<1>1. n \in Nat /\ n + 1 = row /\ Aligned(f, cols, n)
    BY LenProperties DEF Holds
<1>2. PICK found \in LookupValue(batch[row]) :
         cols' = Push(cols, IF found = <<>> THEN NoneRow(f, 0) ELSE HiveValueRow(found[1]))
    BY DEF HiveValueStep
<1> DEFINE r == IF found = <<>> THEN NoneRow(f, 0) ELSE HiveValueRow(found[1])
<1>3. "valid" \in Columns(f) \ Items /\ "value_data" \in Columns(f) \ Items
    BY ColumnsOf DEF Items
<1>4. DOMAIN r = Columns(f) \ Items
    BY NoneRows, FoundRows
<1>5. r["valid"] = (found # <<>>) /\ (found # <<>> => r["value_data"] = found[1].data)
    <2>1. CASE found = <<>>
        BY <1>3, <2>1, NoneRows
    <2>2. CASE found # <<>>
        BY <2>2 DEF HiveValueRow
    <2> QED BY <2>1, <2>2
<1>6. cols' = Push(cols, r)
    BY <1>2
<1> HIDE DEF r
<1>7. Grown(f, cols', cols, r, n)
    BY <1>1, <1>4, <1>6, PushAligned
<1>u. batch' = batch
    BY DEF HiveValueStep, ReadRow
<1>8. ASSUME NEW i \in 1..row
      PROVE  ValueRow(batch, cols', i)
    <2>1. CASE i \in 1..n
        <3>1. ValueRow(batch, cols, i)
            BY <2>1 DEF Holds
        <3>2. cols'["valid"][i] = cols["valid"][i] /\ cols'["value_data"][i] = cols["value_data"][i]
            BY <1>3, <1>7, <2>1 DEF Grown
        <3> QED BY <3>1, <3>2 DEF ValueRow
    <2>2. CASE i = row
        <3>1. cols'["valid"][i] = r["valid"] /\ cols'["value_data"][i] = r["value_data"]
            BY <1>1, <1>3, <1>7, <2>2 DEF Grown
        <3> QED BY <1>5, <2>2, <3>1 DEF ValueRow
    <2> QED BY <1>1, <2>1, <2>2
<1> QED BY <1>1, <1>7, <1>8 DEF Grown, Holds

LEMMA InfoRound ==
    ASSUME batch \in Seq(Row), row \in 1..Len(batch), Holds(batch, "key_info", cols, row - 1),
           KeyInfoStep
    PROVE  Holds(batch, "key_info", cols', row)
<1> DEFINE f == "key_info"
           n == row - 1
           key == Lookup(batch[row])
           r == IF key = <<>> THEN NoneRow(f, 0) ELSE KeyInfoRow(key[1])
<1>1. n \in Nat /\ n + 1 = row /\ Aligned(f, cols, n)
    BY LenProperties DEF Holds
<1>3. "valid" \in Columns(f) \ Items /\ "value_count" \in Columns(f) \ Items
    BY ColumnsOf DEF Items
<1>4. DOMAIN r = Columns(f) \ Items
    BY NoneRows, FoundRows
<1>5. r["valid"] = (key # <<>>) /\ r["value_count"] = IF key = <<>> THEN Null ELSE key[1].count
    <2>1. CASE key = <<>>
        BY <1>3, <2>1, NoneRows
    <2>2. CASE key # <<>>
        BY <2>2 DEF KeyInfoRow
    <2> QED BY <2>1, <2>2
<1>6. cols' = Push(cols, r)
    BY DEF KeyInfoStep
<1> HIDE DEF r, key
<1>7. Grown(f, cols', cols, r, n)
    BY <1>1, <1>4, <1>6, PushAligned
<1>8. ASSUME NEW i \in 1..row
      PROVE  InfoRow(batch, cols', i)
    <2>1. CASE i \in 1..n
        <3>1. InfoRow(batch, cols, i)
            BY <2>1 DEF Holds
        <3>2. cols'["valid"][i] = cols["valid"][i] /\ cols'["value_count"][i] = cols["value_count"][i]
            BY <1>3, <1>7, <2>1 DEF Grown
        <3> QED BY <3>1, <3>2 DEF InfoRow
    <2>2. CASE i = row
        <3>1. cols'["valid"][i] = r["valid"] /\ cols'["value_count"][i] = r["value_count"]
            BY <1>1, <1>3, <1>7, <2>2 DEF Grown
        <3> QED BY <1>5, <2>2, <3>1 DEF InfoRow, key
    <2> QED BY <1>1, <2>1, <2>2
<1> QED BY <1>1, <1>7, <1>8 DEF Grown, Holds

LEMMA HeaderRound ==
    ASSUME batch \in Seq(Row), row \in 1..Len(batch),
           NEW f \in {"hive_info", "well_formed"}, Holds(batch, f, cols, row - 1),
           (HiveInfoStep /\ f = "hive_info") \/ (WellFormedStep /\ f = "well_formed")
    PROVE  Holds(batch, f, cols', row)
<1> DEFINE n == row - 1
           b == batch[row].blob
<1>1. n \in Nat /\ n + 1 = row /\ Aligned(f, cols, n)
    BY LenProperties DEF Holds
<1>2. PICK r : DOMAIN r = Columns(f) \ Items /\ cols' = Push(cols, r)
    <2>1. CASE HiveInfoStep /\ f = "hive_info"
        <3> DEFINE r == IF b # Null /\ b.base THEN HiveInfoRow(b) ELSE NoneRow("hive_info", 0)
        <3>1. cols' = Push(cols, r)
            BY <2>1 DEF HiveInfoStep
        <3>2. DOMAIN r = Columns(f) \ Items
            BY <2>1, NoneRows, FoundRows
        <3> QED BY <3>1, <3>2
    <2>2. CASE WellFormedStep /\ f = "well_formed"
        <3> DEFINE r == IF b # Null THEN WellFormedRow(b) ELSE NoneRow("well_formed", 0)
        <3>1. cols' = Push(cols, r)
            BY <2>2 DEF WellFormedStep
        <3>2. DOMAIN r = Columns(f) \ Items
            BY <2>2, NoneRows, FoundRows
        <3> QED BY <3>1, <3>2
    <2> QED BY <2>1, <2>2
<1>3. Grown(f, cols', cols, r, n)
    BY <1>1, <1>2, PushAligned
<1> QED BY <1>1, <1>3 DEF Grown, Holds

\* A column made from a list.
LEMMA MapSeq ==
    ASSUME NEW n \in Nat, NEW g, g = [i \in 1..n |-> g[i]]
    PROVE  IsSeq(g) /\ Len(g) = n
<1>1. g \in [1..n -> Range(g)]
    BY DEF Range
<1>2. g \in Seq(Range(g))
    BY <1>1, SeqDef
<1> QED BY <1>1, <1>2, LenProperties DEF IsSeq

\* A child column and what the n values of a key add to it.
LEMMA ChildGrows ==
    ASSUME NEW s, IsSeq(s), NEW n \in Nat, NEW g, g = [i \in 1..n |-> g[i]]
    PROVE  Child(s \o g, s, n, g)
<1>1. IsSeq(g) /\ Len(g) = n
    BY MapSeq
<1> QED BY <1>1, ConcatGrows

\* The child columns ds are the child columns cs, b long, and the values vs.
Longer(ds, cs, b, vs) ==
    /\ \A c \in Columns("hive_key") \ Items : ds[c] = cs[c]
    /\ \A c \in Items : /\ Len(ds[c]) = b + Len(vs)
                        /\ \A i \in 1..b : ds[c][i] = cs[c][i]
    /\ \A i \in 1..Len(vs) : /\ ds["item_name"][b + i] = DecodedName(vs[i])
                             /\ ds["item_data"][b + i] = vs[i].data

LEMMA ItemsPushed ==
    ASSUME NEW cs, NEW n \in Nat, Aligned("hive_key", cs, n), NEW vs, IsSeq(vs),
           NEW b \in Nat, \A c \in Items : Len(cs[c]) = b
    PROVE  Aligned("hive_key", PushItems(cs, vs), n) /\ Longer(PushItems(cs, vs), cs, b, vs)
<1> DEFINE ds == PushItems(cs, vs)
           m == Len(vs)
           names == [i \in 1..m |-> DecodedName(vs[i])]
           types == [i \in 1..m |-> vs[i].type]
           datas == [i \in 1..m |-> vs[i].data]
           raws  == [i \in 1..m |-> vs[i].raw]
<1>1. m \in Nat /\ DOMAIN vs = 1..m
    BY SeqFacts
<1>2. DOMAIN cs = Columns("hive_key") /\ Items \subseteq DOMAIN cs
    BY NoItems DEF Aligned
<1>3. /\ DOMAIN ds = DOMAIN cs
      /\ ds["item_name"] = cs["item_name"] \o names
      /\ ds["item_type"] = cs["item_type"] \o types
      /\ ds["item_data"] = cs["item_data"] \o datas
      /\ ds["item_raw"] = cs["item_raw"] \o raws
      /\ \A c \in DOMAIN cs \ Items : ds[c] = cs[c]
    BY <1>1, <1>2 DEF PushItems, Items
<1>4. \A c \in Items : IsSeq(cs[c]) /\ Len(cs[c]) = b
    BY <1>2 DEF Aligned
<1> HIDE DEF ds
<1>5. /\ IsSeq(ds["item_name"]) /\ Len(ds["item_name"]) = b + m
      /\ \A i \in 1..b : ds["item_name"][i] = cs["item_name"][i]
      /\ \A i \in 1..m : ds["item_name"][b + i] = DecodedName(vs[i])
    <2>1. names = [i \in 1..m |-> names[i]] /\ \A i \in 1..m : names[i] = DecodedName(vs[i])
        OBVIOUS
    <2> HIDE DEF names
    <2>2. IsSeq(cs["item_name"]) /\ Len(cs["item_name"]) = b
        BY <1>4 DEF Items
    <2>3. Child(ds["item_name"], cs["item_name"], m, names)
        BY <1>1, <1>3, <2>1, <2>2, ChildGrows
    <2> QED BY <2>1, <2>2, <2>3 DEF Child
<1>6. /\ IsSeq(ds["item_type"]) /\ Len(ds["item_type"]) = b + m
      /\ \A i \in 1..b : ds["item_type"][i] = cs["item_type"][i]
    <2>1. types = [i \in 1..m |-> types[i]]
        OBVIOUS
    <2> HIDE DEF types
    <2>2. IsSeq(cs["item_type"]) /\ Len(cs["item_type"]) = b
        BY <1>4 DEF Items
    <2>3. Child(ds["item_type"], cs["item_type"], m, types)
        BY <1>1, <1>3, <2>1, <2>2, ChildGrows
    <2> QED BY <2>1, <2>2, <2>3 DEF Child
<1>7. /\ IsSeq(ds["item_data"]) /\ Len(ds["item_data"]) = b + m
      /\ \A i \in 1..b : ds["item_data"][i] = cs["item_data"][i]
      /\ \A i \in 1..m : ds["item_data"][b + i] = vs[i].data
    <2>1. datas = [i \in 1..m |-> datas[i]] /\ \A i \in 1..m : datas[i] = vs[i].data
        OBVIOUS
    <2> HIDE DEF datas
    <2>2. IsSeq(cs["item_data"]) /\ Len(cs["item_data"]) = b
        BY <1>4 DEF Items
    <2>3. Child(ds["item_data"], cs["item_data"], m, datas)
        BY <1>1, <1>3, <2>1, <2>2, ChildGrows
    <2> QED BY <2>1, <2>2, <2>3 DEF Child
<1>8. /\ IsSeq(ds["item_raw"]) /\ Len(ds["item_raw"]) = b + m
      /\ \A i \in 1..b : ds["item_raw"][i] = cs["item_raw"][i]
    <2>1. raws = [i \in 1..m |-> raws[i]]
        OBVIOUS
    <2> HIDE DEF raws
    <2>2. IsSeq(cs["item_raw"]) /\ Len(cs["item_raw"]) = b
        BY <1>4 DEF Items
    <2>3. Child(ds["item_raw"], cs["item_raw"], m, raws)
        BY <1>1, <1>3, <2>1, <2>2, ChildGrows
    <2> QED BY <2>1, <2>2, <2>3 DEF Child
<1>9. \A c \in Items : /\ IsSeq(ds[c]) /\ Len(ds[c]) = b + m
                       /\ \A i \in 1..b : ds[c][i] = cs[c][i]
    BY <1>5, <1>6, <1>7, <1>8 DEF Items
<1>10. Aligned("hive_key", ds, n)
    <2>1. \A c \in Columns("hive_key") \ Items : IsSeq(ds[c]) /\ Len(ds[c]) = n
        BY <1>2, <1>3 DEF Aligned
    <2> QED BY <1>2, <1>3, <1>9, <2>1 DEF Aligned
<1>11. Longer(ds, cs, b, vs)
    BY <1>2, <1>3, <1>5, <1>7, <1>9 DEF Longer
<1> QED BY <1>10, <1>11 DEF ds

\* The lists lie within the child columns.
LEMMA Begins ==
    ASSUME NEW bt, NEW cs, NEW n \in Nat, Aligned("hive_key", cs, n), Lists(bt, cs, n)
    PROVE  /\ Len(cs["item_name"]) \in Nat
           /\ \A i \in 1..(n + 1) : Begin(cs, i) \in 0..Len(cs["item_name"])
           /\ \A c \in Items : Len(cs[c]) = Len(cs["item_name"])
           /\ Begin(cs, n + 1) = Len(cs["item_name"])
<1>1. IsSeq(cs["item_name"]) /\ "item_name" \in Items
    BY ColumnsOf DEF Aligned, Items
<1>2. Len(cs["item_name"]) \in Nat
    BY <1>1, SeqFacts
<1>3. ASSUME NEW i \in 1..(n + 1) PROVE Begin(cs, i) \in 0..Len(cs["item_name"])
    <2>1. CASE i = 1
        BY <1>2, <2>1 DEF Begin
    <2>2. CASE i # 1
        <3>1. i - 1 \in 1..n
            BY <2>2
        <3> QED BY <2>2, <3>1 DEF Begin, Lists
    <2> QED BY <2>1, <2>2
<1> QED BY <1>1, <1>2, <1>3 DEF Lists

LEMMA ListRound ==
    ASSUME batch \in Seq(Row), row \in 1..Len(batch), Holds(batch, "hive_key", cols, row - 1),
           HiveKeyStep
    PROVE  Holds(batch, "hive_key", cols', row)
<1> DEFINE f == "hive_key"
           n == row - 1
           key == Lookup(batch[row])
           vs == Values(batch[row])
           cs == PushItems(cols, vs)
           k == Len(cs["item_name"])
           r == IF key = <<>> THEN NoneRow(f, k) ELSE HiveKeyRow(batch[row].path, key[1], k)
           base == Len(cols["item_name"])
<1>1. n \in Nat /\ n + 1 = row /\ Aligned(f, cols, n) /\ Lists(batch, cols, n)
    BY LenProperties DEF Holds
<1>2. IsSeq(vs)
    <2>1. batch[row] \in Row
        BY ElementOfSeq
    <2> QED BY <2>1, ValuesSeq
<1>3. /\ base \in Nat /\ \A c \in Items : Len(cols[c]) = base
      /\ Begin(cols, row) = base
      /\ \A i \in 1..row : Begin(cols, i) \in 0..base
    BY <1>1, Begins
<1>4. Aligned(f, cs, n) /\ Longer(cs, cols, base, vs)
    BY <1>1, <1>2, <1>3, ItemsPushed
<1>5. /\ "valid" \in Columns(f) \ Items /\ "value_count" \in Columns(f) \ Items
      /\ "values" \in Columns(f) \ Items /\ Items = Columns(f) \cap Items
      /\ "item_name" \in Items /\ "item_data" \in Items
    BY ColumnsOf DEF Items
<1>6. Len(vs) \in Nat /\ k = base + Len(vs)
    BY <1>2, <1>4, <1>5, SeqFacts DEF Longer
<1>7. DOMAIN r = Columns(f) \ Items
    <2>1. DOMAIN NoneRow(f, k) = Columns(f) \ Items
        BY NoneRows
    <2>2. DOMAIN HiveKeyRow(batch[row].path, key[1], k) = Columns(f) \ Items
        BY FoundRows
    <2> HIDE DEF k, key, f
    <2> QED BY <2>1, <2>2
<1>8. /\ r["valid"] = (key # <<>>)
      /\ r["value_count"] = IF key = <<>> THEN Null ELSE key[1].count
      /\ r["values"] = [end |-> k, valid |-> key # <<>>]
    <2>1. CASE key = <<>>
        BY <1>5, <2>1, NoneRows
    <2>2. CASE key # <<>>
        BY <2>2 DEF HiveKeyRow
    <2> QED BY <2>1, <2>2
<1>9. cols' = Push(cs, r)
    BY DEF HiveKeyStep, Values
<1> HIDE DEF r, k, cs, vs, key, base
<1>10. Grown(f, cols', cs, r, n)
    BY <1>1, <1>4, <1>7, <1>9, PushAligned
<1>11. /\ \A c \in Items : /\ Len(cols'[c]) = k
                           /\ \A i \in 1..base : cols'[c][i] = cols[c][i]
       /\ \A i \in 1..Len(vs) : /\ cols'["item_name"][base + i] = DecodedName(vs[i])
                                /\ cols'["item_data"][base + i] = vs[i].data
    <2>1. \A c \in Items : cols'[c] = cs[c]
        BY <1>5, <1>10 DEF Grown
    <2>2. \A c \in Items : Len(cs[c]) = k /\ \A i \in 1..base : cs[c][i] = cols[c][i]
        BY <1>4, <1>6 DEF Longer
    <2>3. \A i \in 1..Len(vs) : /\ cs["item_name"][base + i] = DecodedName(vs[i])
                                 /\ cs["item_data"][base + i] = vs[i].data
        BY <1>4 DEF Longer
    <2> QED BY <1>5, <2>1, <2>2, <2>3
<1>12. \A c \in Columns(f) \ Items : /\ cols'[c][row] = r[c]
                                     /\ \A i \in 1..n : cols'[c][i] = cols[c][i]
    BY <1>1, <1>4, <1>10 DEF Grown, Longer
<1>13. \A i \in 1..row : Begin(cols', i) = Begin(cols, i)
    <2> SUFFICES ASSUME NEW i \in 1..row, i # 1 PROVE cols'["values"][i - 1] = cols["values"][i - 1]
        BY DEF Begin
    <2>1. i - 1 \in 1..n
        BY <1>1
    <2> QED BY <1>5, <1>12, <2>1
<1>14. Begin(cols', row + 1) = k
    <2>1. Begin(cols', row + 1) = cols'["values"][row].end
        BY <1>1 DEF Begin
    <2> QED BY <1>5, <1>8, <1>12, <2>1
<1>15. ASSUME NEW i \in 1..n
       PROVE  ListRow(batch, cols', i) /\ cols'["values"][i].end \in 0..k
    <2> DEFINE b == Begin(cols, i)
               us == Values(batch[i])
    <2>1. ListRow(batch, cols, i) /\ cols["values"][i].end \in 0..base
        BY <1>1 DEF Lists, base
    <2>2. i \in 1..row
        BY <1>1
    <2>3. b \in 0..base /\ Begin(cols', i) = b
        BY <1>3, <1>13, <2>2
    <2>4. /\ cols'["valid"][i] = cols["valid"][i]
          /\ cols'["value_count"][i] = cols["value_count"][i]
          /\ cols'["values"][i] = cols["values"][i]
        BY <1>5, <1>12
    <2>5. cols["values"][i].end = b + Len(us) /\ Len(us) \in Nat
        <3>1. batch[i] \in Row
            <4>1. i \in 1..Len(batch)
                BY <1>1, LenProperties
            <4> QED BY <4>1, ElementOfSeq
        <3>2. IsSeq(us)
            BY <3>1, ValuesSeq
        <3> QED BY <2>1, <3>2, SeqFacts DEF ListRow
    <2>6. ASSUME NEW j \in 1..Len(us)
          PROVE  /\ cols'["item_name"][b + j] = cols["item_name"][b + j]
                 /\ cols'["item_data"][b + j] = cols["item_data"][b + j]
        <3>1. b + j \in 1..base
            BY <1>3, <2>1, <2>3, <2>5
        <3> QED BY <1>5, <1>11, <3>1
    <2>7. cols'["values"][i].end \in 0..k
        BY <1>3, <1>6, <2>1, <2>4
    <2> QED BY <2>1, <2>3, <2>4, <2>6, <2>7 DEF ListRow
<1>16. ListRow(batch, cols', row) /\ cols'["values"][row].end \in 0..k
    <2>1. Begin(cols', row) = base
        BY <1>1, <1>3, <1>13
    <2>2. /\ cols'["valid"][row] = r["valid"]
          /\ cols'["value_count"][row] = r["value_count"]
          /\ cols'["values"][row] = r["values"]
        BY <1>5, <1>12
    <2>3. r["values"].end = k /\ k \in Nat
        BY <1>3, <1>6, <1>8
    <2>4. cols'["values"][row].end \in 0..k
        BY <2>2, <2>3
    <2> QED BY <1>6, <1>8, <1>11, <2>1, <2>2, <2>4 DEF ListRow, key, vs
<1>17. \A i \in 1..row : i \in 1..n \/ i = row
    BY <1>1
<1>18. Lists(batch, cols', row)
    <2>1. \A i \in 1..row : ListRow(batch, cols', i) /\ cols'["values"][i].end \in 0..k
        BY <1>15, <1>16, <1>17
    <2>2. Len(cols'["item_name"]) = k
        BY <1>5, <1>11
    <2> QED BY <1>11, <1>14, <2>1, <2>2 DEF Lists
<1> QED BY <1>1, <1>10, <1>18 DEF Grown, Holds

-----------------------------------------------------------------------------
(* The invariant. *)

\* A cell that is not NULL in a column of another type.
Wrong(bt, ty, r, c) == bt[r][c] # Null /\ ~ty[c]

\* What call i of the batch returned.
Returned(bt, ty, i, a) ==
    \/ /\ a.status = "error"
       /\ \E r \in 1..Len(bt) : \E c \in Reads(Function[i]) : Wrong(bt, ty, r, c)
    \/ /\ a.status = "ok"
       /\ \A r \in 1..Len(bt) : \A c \in Reads(Function[i]) : ~Wrong(bt, ty, r, c)
       /\ Holds(bt, Function[i], a.cols, Len(bt))

\* What the call in progress has behind it: its columns hold the rows read so
\* far, and none of those had a cell of another type.
InProgress(bt, ty, f, cs, n) ==
    /\ Holds(bt, f, cs, n)
    /\ \A r \in 1..n : \A c \in Reads(f) : ~Wrong(bt, ty, r, c)

ScalarInv ==
    /\ batch \in Seq(Row) /\ typed \in Typed
    /\ call \in 1..6 /\ row \in 1..(Len(batch) + 1)
    /\ IsSeq(answers) /\ Len(answers) = call - 1
    /\ call <= 5 => InProgress(batch, typed, Function[call], cols, row - 1)
    /\ \A i \in 1..Len(answers) : Returned(batch, typed, i, answers[i])

LEMMA InitInv == Init => ScalarInv
<1> SUFFICES ASSUME Init PROVE ScalarInv
    OBVIOUS
<1>1. PICK n \in 0..MaxRows : batch \in [1..n -> Row]
    BY DEF Init
<1>2. n \in Nat
    BY <1>1, RowsAssumption
<1>3. batch \in Seq(Row)
    BY <1>1, <1>2, SeqDef
<1>4. Len(batch) \in Nat
    BY <1>3, LenProperties
<1>5. InProgress(batch, typed, Function[1], cols, 0)
    BY FreshHolds DEF Init, InProgress
<1>6. IsSeq(answers) /\ Len(answers) = 0
    BY EmptyIsSeq DEF Init
<1> QED BY <1>3, <1>4, <1>5, <1>6 DEF Init, ScalarInv

\* A row read: the call goes on.
LEMMA RowRead ==
    ASSUME ScalarInv, NEW f, ReadRow(f),
           row \in 1..Len(batch) /\ Holds(batch, f, cols, row - 1) => Holds(batch, f, cols', row)
    PROVE  ScalarInv'
<1>1. /\ call \in 1..5 /\ f = Function[call] /\ row \in 1..Len(batch)
      /\ Len(batch) \in Nat
    BY Functions5, LenProperties DEF ScalarInv, ReadRow, Running
<1>2. InProgress(batch, typed, f, cols, row - 1)
    BY <1>1 DEF ScalarInv
<1>3. Holds(batch, f, cols', row)
    BY <1>1, <1>2 DEF InProgress
<1>4. \A c \in Reads(f) : ~Wrong(batch, typed, row, c)
    BY DEF ReadRow, Fails, Wrong
<1>5. \A r \in 1..row : r \in 1..(row - 1) \/ r = row
    BY <1>1
<1>6. InProgress(batch, typed, f, cols', row)
    BY <1>2, <1>3, <1>4, <1>5 DEF InProgress
<1>7. /\ row' = row + 1 /\ batch' = batch /\ typed' = typed /\ call' = call
      /\ answers' = answers
    BY DEF ReadRow
<1>8. row' - 1 = row /\ row' \in 1..(Len(batch) + 1)
    BY <1>1, <1>7
<1> QED BY <1>1, <1>6, <1>7, <1>8 DEF ScalarInv

\* A call over: its answer is kept and the next one begins.
LEMMA CallOver ==
    ASSUME ScalarInv, NEW a, call \in 1..5, Return(a), Returned(batch, typed, call, a)
    PROVE  ScalarInv'
<1> DEFINE s == answers
<1>1. /\ IsSeq(s) /\ Len(s) = call - 1 /\ answers' = Append(s, a)
      /\ call' = call + 1 /\ row' = 1 /\ batch' = batch /\ typed' = typed
    BY DEF ScalarInv, Return
<1>2. /\ IsSeq(answers') /\ Len(answers') = call /\ answers'[call] = a
      /\ \A i \in 1..(call - 1) : answers'[i] = answers[i]
    <2> HIDE DEF s
    <2>1. /\ IsSeq(Append(s, a)) /\ Len(s) \in Nat
          /\ Len(Append(s, a)) = Len(s) + 1 /\ Append(s, a)[Len(s) + 1] = a
          /\ \A i \in 1..Len(s) : Append(s, a)[i] = s[i]
        BY <1>1, AppendGrows
    <2>2. Len(s) + 1 = call
        BY <1>1
    <2> QED BY <1>1, <2>1, <2>2 DEF s
<1>3. \A i \in 1..call : i \in 1..(call - 1) \/ i = call
    OBVIOUS
<1>4. \A i \in 1..Len(answers') : Returned(batch', typed', i, answers'[i])
    BY <1>1, <1>2, <1>3 DEF ScalarInv
<1>5. call' <= 5 => InProgress(batch', typed', Function[call'], cols', 0)
    <2> SUFFICES ASSUME call' <= 5
                 PROVE  InProgress(batch', typed', Function[call'], cols', 0)
        OBVIOUS
    <2>1. cols' = NoColumns(Function[call'])
        BY <1>1, Functions5 DEF Return
    <2> QED BY <2>1, FreshHolds DEF InProgress
<1>6. Len(batch') \in Nat
    BY <1>1, LenProperties DEF ScalarInv
<1> QED BY <1>1, <1>2, <1>4, <1>5, <1>6 DEF ScalarInv

LEMMA NextInv == ScalarInv /\ [Next]_vars => ScalarInv'
<1> SUFFICES ASSUME ScalarInv, [Next]_vars PROVE ScalarInv'
    OBVIOUS
<1>0. batch \in Seq(Row)
    BY DEF ScalarInv
<1>1. CASE HiveValueStep
    <2>1. ReadRow("hive_value")
        BY <1>1 DEF HiveValueStep
    <2>2. row \in 1..Len(batch) /\ Holds(batch, "hive_value", cols, row - 1)
             => Holds(batch, "hive_value", cols', row)
        BY <1>0, <1>1, ValueRound
    <2> QED BY <2>1, <2>2, RowRead
<1>2. CASE KeyInfoStep
    <2>1. ReadRow("key_info")
        BY <1>2 DEF KeyInfoStep
    <2>2. row \in 1..Len(batch) /\ Holds(batch, "key_info", cols, row - 1)
             => Holds(batch, "key_info", cols', row)
        BY <1>0, <1>2, InfoRound
    <2> QED BY <2>1, <2>2, RowRead
<1>3. CASE HiveKeyStep
    <2>1. ReadRow("hive_key")
        BY <1>3 DEF HiveKeyStep
    <2>2. row \in 1..Len(batch) /\ Holds(batch, "hive_key", cols, row - 1)
             => Holds(batch, "hive_key", cols', row)
        BY <1>0, <1>3, ListRound
    <2> QED BY <2>1, <2>2, RowRead
<1>4. CASE HiveInfoStep
    <2>1. ReadRow("hive_info")
        BY <1>4 DEF HiveInfoStep
    <2>2. row \in 1..Len(batch) /\ Holds(batch, "hive_info", cols, row - 1)
             => Holds(batch, "hive_info", cols', row)
        BY <1>0, <1>4, HeaderRound
    <2> QED BY <2>1, <2>2, RowRead
<1>5. CASE WellFormedStep
    <2>1. ReadRow("well_formed")
        BY <1>5 DEF WellFormedStep
    <2>2. row \in 1..Len(batch) /\ Holds(batch, "well_formed", cols, row - 1)
             => Holds(batch, "well_formed", cols', row)
        BY <1>0, <1>5, HeaderRound
    <2> QED BY <2>1, <2>2, RowRead
<1>6. CASE Abort
    <2> DEFINE a == [status |-> "error", cols |-> <<>>]
    <2>1. call \in 1..5 /\ row \in 1..Len(batch) /\ Return(a)
        BY <1>0, <1>6, Functions5, LenProperties DEF Abort, ScalarInv
    <2>2. \E c \in Reads(Function[call]) : Wrong(batch, typed, row, c)
        BY <1>6 DEF Abort, Fails, Wrong
    <2>3. a.status = "error"
        OBVIOUS
    <2> HIDE DEF a
    <2>4. Returned(batch, typed, call, a)
        BY <2>1, <2>2, <2>3 DEF Returned
    <2> QED BY <2>1, <2>4, CallOver
<1>7. CASE Finish
    <2> DEFINE a == [status |-> "ok", cols |-> cols]
    <2>1. call \in 1..5 /\ row - 1 = Len(batch) /\ Return(a)
        BY <1>0, <1>7, Functions5, LenProperties DEF Finish, ScalarInv
    <2>2. InProgress(batch, typed, Function[call], cols, Len(batch))
        BY <2>1 DEF ScalarInv
    <2>3. a.status = "ok" /\ a.cols = cols
        OBVIOUS
    <2> HIDE DEF a
    <2>4. Returned(batch, typed, call, a)
        BY <2>2, <2>3 DEF Returned, InProgress
    <2> QED BY <2>1, <2>4, CallOver
<1>8. CASE UNCHANGED vars
    BY <1>8 DEF vars, ScalarInv
<1> QED BY <1>1, <1>2, <1>3, <1>4, <1>5, <1>6, <1>7, <1>8 DEF Next, Done

\* The columns of every call hold the rows read so far, and those of every
\* answer all of them.
THEOREM ScalarInvariant == Spec => []ScalarInv
    BY InitInv, NextInv, PTL DEF Spec

-----------------------------------------------------------------------------
(* What the invariant says of the columns and the answers. *)

LEMMA InvAligned == ScalarInv => ColumnsAligned
<1> SUFFICES ASSUME ScalarInv, call <= Len(Function)
             PROVE  /\ \A c \in DOMAIN cols \ Items : Len(cols[c]) = row - 1
                    /\ Function[call] = "hive_key" =>
                          /\ \A c \in Items : Len(cols[c]) = Len(cols.item_name)
                          /\ row > 1 => Last(cols.values).end = Len(cols.item_name)
    BY DEF ColumnsAligned
<1> DEFINE n == row - 1
<1>1. /\ InProgress(batch, typed, Function[call], cols, n)
      /\ n \in Nat /\ n + 1 = row
    BY Functions5, LenProperties DEF ScalarInv
<1>2. Aligned(Function[call], cols, n)
    BY <1>1 DEF InProgress, Holds
<1>3. ASSUME Function[call] = "hive_key"
      PROVE  /\ \A c \in Items : Len(cols[c]) = Len(cols.item_name)
             /\ row > 1 => Last(cols.values).end = Len(cols.item_name)
    <2>1. Aligned("hive_key", cols, n) /\ Lists(batch, cols, n)
        BY <1>1, <1>3 DEF InProgress, Holds
    <2>2. /\ \A c \in Items : Len(cols[c]) = Len(cols["item_name"])
          /\ Begin(cols, row) = Len(cols["item_name"])
        BY <1>1, <2>1, Begins
    <2>3. Len(cols["values"]) = row - 1
        BY <2>1, ColumnsOf DEF Aligned, Items
    <2>4. row > 1 => Last(cols.values).end = Len(cols.item_name)
        BY <1>1, <2>2, <2>3 DEF Last, Begin
    <2> QED BY <2>2, <2>4
<1> QED BY <1>2, <1>3 DEF Aligned

\* The answer of a function is the one its call gave.
LEMMA AnswerOf ==
    ASSUME ScalarInv, NEW k \in 1..5, Answered(Function[k])
    PROVE  Holds(batch, Function[k], Answer(Function[k]), Len(batch))
<1>1. DOMAIN answers = 1..Len(answers) /\ Len(answers) \in 0..5
    BY SeqFacts DEF ScalarInv
<1>2. \A i, j \in 1..5 : Function[i] = Function[j] => i = j
    BY Functions5
<1>3. PICK i \in DOMAIN answers : Function[i] = Function[k] /\ answers[i].status = "ok"
    BY DEF Answered
<1>4. DOMAIN answers \subseteq 1..5
    BY <1>1
<1>5. i = k
    BY <1>2, <1>3, <1>4
<1>6. (CHOOSE j \in DOMAIN answers : Function[j] = Function[k]) = k
    BY <1>2, <1>3, <1>4, <1>5
<1>7. Answer(Function[k]) = answers[k].cols
    BY <1>6 DEF Answer
<1>8. Returned(batch, typed, k, answers[k]) /\ answers[k].status = "ok"
    BY <1>1, <1>3, <1>5 DEF ScalarInv
<1> QED BY <1>7, <1>8 DEF Returned

LEMMA InvFails == ScalarInv => FailsOnlyForTypes
<1> SUFFICES ASSUME ScalarInv, NEW i \in DOMAIN answers
             PROVE  (answers[i].status = "error") <=>
                        \E r \in DOMAIN batch : \E c \in Reads(Function[i]) :
                            batch[r][c] # Null /\ ~typed[c]
    BY DEF FailsOnlyForTypes
<1>1. DOMAIN answers = 1..Len(answers) /\ DOMAIN batch = 1..Len(batch)
    BY SeqFacts, LenProperties DEF ScalarInv
<1>2. Returned(batch, typed, i, answers[i])
    BY <1>1 DEF ScalarInv
<1> QED BY <1>1, <1>2 DEF Returned, Wrong

\* A list read back from the offsets and the child columns.
ReadsBack(bt, cs, r) ==
    /\ cs.valid[r] = (Lookup(bt[r]) # <<>>)
    /\ cs.values[r].valid = (Lookup(bt[r]) # <<>>)
    /\ cs.value_count[r] = IF Lookup(bt[r]) = <<>> THEN Null ELSE Lookup(bt[r])[1].count
    /\ ListAt(cs, r) = [i \in 1..Len(Values(bt[r])) |->
                          [name |-> DecodedName(Values(bt[r])[i]),
                           data |-> Values(bt[r])[i].data]]

LEMMA ListReadBack ==
    ASSUME NEW bt \in Seq(Row), NEW cs, Holds(bt, "hive_key", cs, Len(bt)),
           NEW r \in 1..Len(bt)
    PROVE  ReadsBack(bt, cs, r)
<1> DEFINE n == Len(bt)
           vs == Values(bt[r])
           from == Begin(cs, r)
<1>1. n \in Nat /\ Aligned("hive_key", cs, n) /\ Lists(bt, cs, n)
    BY LenProperties DEF Holds
<1>2. r \in 1..(n + 1)
    BY <1>1
<1>3. Len(cs["item_name"]) \in Nat /\ from \in 0..Len(cs["item_name"])
    BY <1>1, <1>2, Begins
<1>4. ListRow(bt, cs, r)
    BY <1>1 DEF Lists
<1>5. Len(vs) \in Nat
    <2>1. bt[r] \in Row
        BY ElementOfSeq
    <2> QED BY <2>1, ValuesSeq, SeqFacts
<1>6. /\ cs.values[r].end = from + Len(vs)
      /\ cs.values[r].valid = (Lookup(bt[r]) # <<>>)
      /\ cs.valid[r] = (Lookup(bt[r]) # <<>>)
      /\ cs.value_count[r] = IF Lookup(bt[r]) = <<>> THEN Null ELSE Lookup(bt[r])[1].count
      /\ \A k \in 1..Len(vs) : /\ cs.item_name[from + k] = DecodedName(vs[k])
                               /\ cs.item_data[from + k] = vs[k].data
    BY <1>4 DEF ListRow
<1>7. cs.values[r].end - from = Len(vs)
    BY <1>3, <1>5, <1>6
<1>8. ListAt(cs, r) = [i \in 1..(cs.values[r].end - from) |->
                         [name |-> cs.item_name[from + i], data |-> cs.item_data[from + i]]]
    BY DEF ListAt, Begin
<1>9. ListAt(cs, r) = [i \in 1..Len(vs) |->
                         [name |-> DecodedName(vs[i]), data |-> vs[i].data]]
    <2> HIDE DEF vs, from
    <2> QED BY <1>6, <1>7, <1>8
<1> QED BY <1>6, <1>9 DEF ReadsBack

LEMMA InvReadBack == ScalarInv => RowsReadBack
<1> SUFFICES ASSUME ScalarInv, Answered("hive_key"), NEW r \in DOMAIN batch
             PROVE  LET cs  == Answer("hive_key")
                        key == Lookup(batch[r])
                    IN  /\ cs.valid[r] <=> key # <<>>
                        /\ cs.valid[r] <=> cs.values[r].valid
                        /\ ListAt(cs, r) =
                              IF key = <<>> THEN <<>>
                              ELSE [i \in DOMAIN key[1].values |->
                                      [name |-> DecodedName(key[1].values[i]),
                                       data |-> key[1].values[i].data]]
    BY DEF RowsReadBack
<1> DEFINE cs  == Answer("hive_key")
           key == Lookup(batch[r])
           vs  == Values(batch[r])
<1>1. batch \in Seq(Row) /\ DOMAIN batch = 1..Len(batch)
    BY LenProperties DEF ScalarInv
<1>2. Holds(batch, "hive_key", cs, Len(batch))
    BY AnswerOf, Functions5
<1>3. ReadsBack(batch, cs, r)
    BY <1>1, <1>2, ListReadBack
<1>4. batch[r] \in Row
    BY <1>1, ElementOfSeq
<1>5. IsSeq(vs) /\ DOMAIN vs = 1..Len(vs)
    BY <1>4, ValuesSeq, SeqFacts
<1>6. CASE key = <<>>
    <2>1. vs = <<>> /\ Len(vs) = 0
        BY <1>6, EmptyIsSeq DEF Values
    <2>2. ListAt(cs, r) = <<>>
        BY <1>3, <2>1 DEF ReadsBack
    <2> QED BY <1>3, <1>6, <2>2 DEF ReadsBack
<1>7. CASE key # <<>>
    <2>1. vs = key[1].values
        BY <1>7 DEF Values
    <2> QED BY <1>3, <1>5, <1>7, <2>1 DEF ReadsBack
<1> QED BY <1>6, <1>7

\* The values of a row's key that have the name asked for.
Matches(r) == {i \in 1..Len(Values(r)) : Fold[Values(r)[i].name] = Fold[NameOf(r)]}

\* The value found is one of them.
OneOf(r, found) ==
    /\ found # <<>> <=> Matches(r) # {}
    /\ found # <<>> => \E i \in Matches(r) : found[1] = Values(r)[i]

LEMMA ValueFound ==
    ASSUME NEW r \in Row, NEW found \in LookupValue(r)
    PROVE  OneOf(r, found)
<1> DEFINE vs == Values(r)
<1>1. DOMAIN vs = 1..Len(vs)
    BY ValuesSeq, SeqFacts
<1>2. CASE Lookup(r) = <<>>
    <2>1. found = <<>> /\ vs = <<>>
        BY <1>2 DEF LookupValue, Values
    <2>2. Matches(r) = {}
        BY <2>1, EmptyIsSeq DEF Matches
    <2> QED BY <2>1, <2>2 DEF OneOf
<1>3. CASE Lookup(r) # <<>>
    <2> DEFINE all == GetValue(Lookup(r)[1], NameOf(r))
    <2>1. vs = Lookup(r)[1].values
        BY <1>3 DEF Values
    <2>2. all = {vs[i] : i \in Matches(r)}
        BY <1>1, <2>1 DEF GetValue, Matches
    <2>3. LookupValue(r) = IF all = {} THEN {<<>>} ELSE {<<v>> : v \in all}
        BY <1>3 DEF LookupValue
    <2> HIDE DEF all, vs
    <2>4. CASE all = {}
        <3>1. found = <<>>
            BY <2>3, <2>4
        <3>2. Matches(r) = {}
            BY <2>2, <2>4
        <3> QED BY <3>1, <3>2 DEF OneOf
    <2>5. CASE all # {}
        <3>1. PICK v \in all : found = <<v>>
            BY <2>3, <2>5
        <3>2. PICK i \in Matches(r) : v = vs[i]
            BY <2>2
        <3>3. found # <<>> /\ found[1] = vs[i]
            BY <3>1, <3>2
        <3> QED BY <3>2, <3>3 DEF OneOf, vs
    <2> QED BY <2>4, <2>5
<1> QED BY <1>2, <1>3

\* A listed name is the name asked for, as the list shows it: NULL is the
\* default value's.
Shows(n, want) == IF n = Null THEN want = "" ELSE want # "" /\ Fold[n] = Fold[want]

LEMMA ShownName ==
    ASSUME NEW v, v.name \in Name, NEW want \in Name
    PROVE  Shows(DecodedName(v), want) <=> Fold[v.name] = Fold[want]
<1>1. Null \notin Name /\ "" \in Name /\ \A n \in Name : Fold[n] = Fold[""] => n = ""
    BY RowsAssumption, NameAssumption
<1>2. CASE v.name = ""
    BY <1>1, <1>2 DEF Shows, DecodedName
<1>3. CASE v.name # ""
    BY <1>1, <1>3 DEF Shows, DecodedName
<1> QED BY <1>2, <1>3

LEMMA InvAgree == ScalarInv => ScalarsAgree
<1> SUFFICES ASSUME ScalarInv, Answered("hive_value"), Answered("key_info"),
                    Answered("hive_key"), NEW r \in DOMAIN batch
             PROVE  LET info  == Answer("key_info")
                        key   == Answer("hive_key")
                        value == Answer("hive_value")
                        want  == IF batch[r].name = Null THEN "" ELSE batch[r].name
                        named == {i \in DOMAIN ListAt(key, r) :
                                    LET n == ListAt(key, r)[i].name
                                    IN  IF n = Null THEN want = ""
                                        ELSE want # "" /\ Fold[n] = Fold[want]}
                    IN  /\ info.valid[r] = key.valid[r]
                        /\ info.value_count[r] = key.value_count[r]
                        /\ value.valid[r] <=> named # {}
                        /\ value.valid[r] =>
                              \E i \in named : ListAt(key, r)[i].data = value.value_data[r]
    BY DEF ScalarsAgree
<1> DEFINE info  == Answer("key_info")
           key   == Answer("hive_key")
           value == Answer("hive_value")
           want  == NameOf(batch[r])
           vs    == Values(batch[r])
           list  == ListAt(key, r)
           named == {i \in DOMAIN list : Shows(list[i].name, want)}
<1>1. batch \in Seq(Row) /\ DOMAIN batch = 1..Len(batch)
    BY LenProperties DEF ScalarInv
<1>2. batch[r] \in Row
    BY <1>1, ElementOfSeq
<1>3. want \in Name
    BY <1>2, NameAssumption DEF NameOf, Row
<1>4. /\ Holds(batch, "key_info", info, Len(batch))
      /\ Holds(batch, "hive_key", key, Len(batch))
      /\ Holds(batch, "hive_value", value, Len(batch))
    BY AnswerOf, Functions5
<1>5. ReadsBack(batch, key, r)
    BY <1>1, <1>4, ListReadBack
<1>6. InfoRow(batch, info, r) /\ ValueRow(batch, value, r)
    BY <1>1, <1>4 DEF Holds
<1>7. info.valid[r] = key.valid[r] /\ info.value_count[r] = key.value_count[r]
    BY <1>5, <1>6 DEF InfoRow, ReadsBack
<1>8. DOMAIN vs = 1..Len(vs) /\ \A i \in 1..Len(vs) : vs[i].name \in Name
    BY <1>2, ValuesSeq, SeqFacts
<1>9. /\ DOMAIN list = 1..Len(vs)
      /\ \A i \in 1..Len(vs) : list[i].name = DecodedName(vs[i]) /\ list[i].data = vs[i].data
    BY <1>5 DEF ReadsBack
<1>10. named = Matches(batch[r])
    <2>1. \A i \in 1..Len(vs) : Shows(list[i].name, want) <=> Fold[vs[i].name] = Fold[want]
        BY <1>3, <1>8, <1>9, ShownName
    <2> QED BY <1>9, <2>1 DEF Matches
<1>11. PICK found \in LookupValue(batch[r]) :
          /\ value.valid[r] = (found # <<>>)
          /\ found # <<>> => value.value_data[r] = found[1].data
    BY <1>6 DEF ValueRow
<1>12. OneOf(batch[r], found)
    BY <1>2, ValueFound
<1>13. Matches(batch[r]) \subseteq 1..Len(vs)
    BY DEF Matches
<1> HIDE DEF named, list, vs
<1>14. value.valid[r] <=> named # {}
    BY <1>10, <1>11, <1>12 DEF OneOf
<1>15. value.valid[r] => \E i \in named : list[i].data = value.value_data[r]
    <2> SUFFICES ASSUME value.valid[r] PROVE \E i \in named : list[i].data = value.value_data[r]
        OBVIOUS
    <2>1. found # <<>> /\ value.value_data[r] = found[1].data
        BY <1>11
    <2>2. PICK i \in Matches(batch[r]) : found[1] = Values(batch[r])[i]
        BY <1>12, <2>1 DEF OneOf
    <2>3. i \in named /\ list[i].data = vs[i].data
        BY <1>9, <1>10, <1>13, <2>2
    <2>4. list[i].data = value.value_data[r]
        BY <2>1, <2>2, <2>3 DEF vs
    <2> QED BY <2>3, <2>4
<1>16. named = {i \in DOMAIN ListAt(key, r) :
                  LET n == ListAt(key, r)[i].name
                  IN  IF n = Null THEN want = ""
                      ELSE want # "" /\ Fold[n] = Fold[want]}
    BY DEF named, list, Shows
<1>17. want = IF batch[r].name = Null THEN "" ELSE batch[r].name
    BY DEF NameOf
<1> HIDE DEF info, key, value, want
<1> QED BY <1>7, <1>14, <1>15, <1>16, <1>17 DEF list, info, key, value

-----------------------------------------------------------------------------

\* The builders of a call never drift apart, and the list of hive_key ends
\* where its child columns do (the two arms of every process loop).
THEOREM Aligns == Spec => []ColumnsAligned
    BY ScalarInvariant, InvAligned, PTL

\* Every row of hive_key reads back the values of its own key, whatever the
\* rows before it found (offsets and validity of the list column).
THEOREM ReadBack == Spec => []RowsReadBack
    BY ScalarInvariant, InvReadBack, PTL

\* key_info, hive_key and hive_value agree on every row of a batch.
THEOREM Agree == Spec => []ScalarsAgree
    BY ScalarInvariant, InvAgree, PTL

\* A call fails exactly for a cell that is not NULL in a column of another
\* type (blob_val, text_val).
THEOREM FailsForTypes == Spec => []FailsOnlyForTypes
    BY ScalarInvariant, InvFails, PTL
=============================================================================
