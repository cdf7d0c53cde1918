---------------------------- MODULE ValueCoerce -----------------------------
(***************************************************************************)
(* The columns of one registry value (valuetype.rs, hive/value.rs): the    *)
(* name of its type, its bytes, their rendering as text or as an integer,  *)
(* and the diagnostic when the rendering is imperfect.                     *)
(*                                                                         *)
(* A UTF-16 unit is two bytes, the low one first.  A Rust String is given  *)
(* by its UTF-16 units, which determine it; an integer rendered in decimal *)
(* is given by its value.  Widths in bytes are the real ones.  The split   *)
(* of a REG_MULTI_SZ is a loop, one unit per step.                         *)
(***************************************************************************)
EXTENDS ByteText

CONSTANTS
    High,          \* the leading surrogates, 0xD800..0xDBFF
    Low,           \* the trailing surrogates, 0xDC00..0xDFFF
    Replacement,   \* U+FFFD
    Newline,       \* what joins the components of a REG_MULTI_SZ
    ValueCell      \* the values of the hive: type code, bytes and name

Unit == 0..(ByteBase * ByteBase - 1)
NUL  == 0

ASSUME UnitAssumption ==
    /\ High \subseteq Unit /\ Low \subseteq Unit /\ High \cap Low = {}
    /\ {NUL, Newline, Replacement} \cap (High \cup Low) = {}
    /\ Newline \in Unit \ {NUL, Replacement} /\ Replacement \in Unit \ {NUL}

\* value_bytes() may have nothing to give; a name may be empty, the default
\* value's.
ASSUME CellAssumption ==
    \A c \in ValueCell :
        /\ c.type_raw \in Nat
        /\ c.bytes = <<>> \/ c.bytes[1] \in Seq(Byte)

VARIABLES
    cell,    \* the value being decoded
    pc,      \* "coerce", "split" or "done"
    pos,     \* split_multi_sz: units looked at so far
    cur,     \* the component being collected
    parts,   \* the components finished
    bad,     \* a unit could not be decoded, or the length is odd
    out      \* the Coerced, once there is one (an Option)

vars == <<cell, pc, pos, cur, parts, bad, out>>

-----------------------------------------------------------------------------
(* Reading the bytes. *)

\* value_bytes().unwrap_or_default()
Raw == IF cell.bytes = <<>> THEN <<>> ELSE cell.bytes[1]

\* The whole units; an odd byte at the end is left over.
Units(bytes) ==
    [i \in 1..(Len(bytes) \div 2) |-> bytes[2 * i - 1] + ByteBase * bytes[2 * i]]

OddLength(bytes) == Len(bytes) % 2 = 1

\* Unit i belongs to a character.
Paired(us, i) ==
    \/ us[i] \notin High \cup Low
    \/ us[i] \in High /\ i < Len(us) /\ us[i + 1] \in Low
    \/ us[i] \in Low /\ i > 1 /\ us[i - 1] \in High

\* char::decode_utf16, each error replaced by U+FFFD.
DecodeUtf16(us) == [i \in DOMAIN us |-> IF Paired(us, i) THEN us[i] ELSE Replacement]
HasErrors(us)   == \E i \in DOMAIN us : ~Paired(us, i)

\* The base block has a reader of its own for the file name (baseblock.rs,
\* decode_utf16le): it stops at the first NUL and says nothing of errors.
DecodeFilename(bytes) ==
    LET us == Units(bytes)
        nuls == {i - 1 : i \in {j \in DOMAIN us : us[j] = NUL}}
    IN  DecodeUtf16(SubSeq(us, 1, Min({Len(us)} \cup nuls)))

\* Mutant: every trailing NUL is trimmed.
TrimNulAll(us) ==
    SubSeq(us, 1, Max({0} \cup {i \in DOMAIN us : us[i] # NUL}))

\* One trailing NUL is a terminator.
TrimNul(us) == IF us # <<>> /\ Last(us) = NUL THEN Front(us) ELSE us

-----------------------------------------------------------------------------
(* Types. *)

DEVPROP_MASK_TYPE == 4096

\* Mutant: the high bits of the code are not masked.
TypeOfBare(type_raw) == type_raw

\* type_raw & DEVPROP_MASK_TYPE
TypeOf(type_raw) == type_raw % DEVPROP_MASK_TYPE

\* The names of the codes from 0 on.
RegName ==
    <<"REG_NONE", "REG_SZ", "REG_EXPAND_SZ", "REG_BINARY", "REG_DWORD",
      "REG_DWORD_BIG_ENDIAN", "REG_LINK", "REG_MULTI_SZ", "REG_RESOURCE_LIST",
      "REG_FULL_RESOURCE_DESCRIPTOR", "REG_RESOURCE_REQUIREMENTS_LIST", "REG_QWORD">>

\* type_name: a name, or the prefix REG_ and the code.
TypeName(type_raw) ==
    LET t == type_raw % DEVPROP_MASK_TYPE
    IN  CASE t \in 0..11 -> <<RegName[t + 1]>>
          [] t = 16      -> <<"REG_FILETIME">>
          [] OTHER       -> <<"REG_", t>>

-----------------------------------------------------------------------------
(* coerce. *)

Text(us)   == [form |-> "text", units |-> us]
Decimal(v) == [form |-> "int", value |-> v]
Hex(text)  == [form |-> "hex", digits |-> text]

Coerced(data, dword, diagnostics) ==
    [value_data |-> data, value_dword |-> dword, diagnostics |-> diagnostics]

Utf16Diagnostics(isBad) == IF isBad THEN "bad-utf16" ELSE "null"

\* The last byte is the highest: the value of the last k bytes, one more
\* byte at a time.
FromLeBytes(bytes) ==
    LET value[k \in 0..Len(bytes)] ==
            IF k = 0 THEN 0
            ELSE bytes[(Len(bytes) - k) + 1] + ByteBase * value[k - 1]
    IN  value[Len(bytes)]

\* Mutant: the bytes are taken in the order of the others.
FromBeBytesLe(bytes) == FromLeBytes(bytes)

FromBeBytes(bytes) == FromLeBytes(Reverse(bytes))

\* The integers of n bytes are those below BytePower[n].
BytePower[n \in 0..8] == IF n = 0 THEN 1 ELSE ByteBase * BytePower[n - 1]

\* v as i64: values from 2^63 on become negative.
AsI64(v) == IF 2 * v >= BytePower[8] THEN v - BytePower[8] ELSE v

\* The leading bytes, as many as the width asks for and there are.
Field(width) == SubSeq(Raw, 1, Min({width, Len(Raw)}))

\* The integer v of the given width, or the bytes when there are too few.
CoerceInt(width, v) ==
    IF Len(Raw) >= width
    THEN Coerced(Decimal(v), <<AsI64(v)>>, "null")
    ELSE Coerced(Hex(ToHexLower(Raw)), <<>>, "truncated")

\* decode_utf16le
CoerceText ==
    LET us == TrimNul(Units(Raw))
    IN  Coerced(Text(DecodeUtf16(us)), <<>>,
                Utf16Diagnostics(OddLength(Raw) \/ HasErrors(us)))

Answer(coerced) ==
    /\ out' = <<coerced>> /\ pc' = "done"
    /\ UNCHANGED <<cell, pos, cur, parts, bad>>

\* Every type but REG_MULTI_SZ is answered at once.
CoerceAtOnce ==
    /\ pc = "coerce"
    /\ LET t == TypeOf(cell.type_raw)
       IN  \/ t \in {1, 2, 6} /\ Answer(CoerceText)
           \/ t = 4 /\ Answer(CoerceInt(4, FromLeBytes(Field(4))))
           \/ t = 5 /\ Answer(CoerceInt(4, FromBeBytes(Field(4))))
           \/ t \in {11, 16} /\ Answer(CoerceInt(8, FromLeBytes(Field(8))))
           \/ t \notin {1, 2, 4, 5, 6, 7, 11, 16}
              /\ Answer(Coerced(Hex(ToHexLower(Raw)), <<>>, "null"))

\* split_multi_sz begins.
StartSplit ==
    /\ pc = "coerce" /\ TypeOf(cell.type_raw) = 7
    /\ pc' = "split" /\ pos' = 0 /\ cur' = <<>> /\ parts' = <<>>
    /\ bad' = OddLength(Raw)
    /\ UNCHANGED <<cell, out>>

More == pos < Len(Units(Raw))

\* A unit of the component.
CollectUnit ==
    /\ pc = "split" /\ More /\ Units(Raw)[pos + 1] # NUL
    /\ cur' = Append(cur, Units(Raw)[pos + 1])
    /\ pos' = pos + 1
    /\ UNCHANGED <<cell, pc, parts, bad, out>>

PushComponent ==
    /\ parts' = Append(parts, DecodeUtf16(cur))
    /\ bad' = (bad \/ HasErrors(cur))

\* Mutant: the component is pushed and not cleared.
EndComponentKeeps ==
    /\ pc = "split" /\ More /\ Units(Raw)[pos + 1] = NUL /\ cur # <<>>
    /\ PushComponent
    /\ pos' = pos + 1
    /\ UNCHANGED <<cell, pc, cur, out>>

\* A NUL ends the component.
EndComponent ==
    /\ pc = "split" /\ More /\ Units(Raw)[pos + 1] = NUL /\ cur # <<>>
    /\ PushComponent
    /\ cur' = <<>> /\ pos' = pos + 1
    /\ UNCHANGED <<cell, pc, out>>

\* The components joined by a newline.
JoinLines(ps) ==
    LET lines[k \in 0..Len(ps)] ==
            CASE k = 0 -> <<>>
              [] k = 1 -> ps[k]
              [] OTHER -> lines[k - 1] \o (<<Newline>> \o ps[k])
    IN  lines[Len(ps)]

\* Mutant: a component without its NUL is pushed unseen.
EndSplitUnchecked ==
    /\ pc = "split"
    /\ More => Units(Raw)[pos + 1] = NUL /\ cur = <<>>
    /\ parts' = IF cur = <<>> THEN parts ELSE Append(parts, DecodeUtf16(cur))
    /\ out' = <<Coerced(Text(JoinLines(parts')), <<>>, Utf16Diagnostics(bad))>>
    /\ pc' = "done"
    /\ UNCHANGED <<cell, pos, cur, bad>>

\* An empty component or the end of the units ends the list; a component
\* without its NUL still counts.
EndSplit ==
    /\ pc = "split"
    /\ More => Units(Raw)[pos + 1] = NUL /\ cur = <<>>
    /\ IF cur = <<>> THEN UNCHANGED <<parts, bad>> ELSE PushComponent
    /\ out' = <<Coerced(Text(JoinLines(parts')), <<>>, Utf16Diagnostics(bad'))>>
    /\ pc' = "done"
    /\ UNCHANGED <<cell, pos, cur>>

\* decode: what the caller gets.
DecodedValue ==
    [name        |-> IF cell.name = "" THEN <<>> ELSE <<cell.name>>,
     value_type  |-> TypeName(cell.type_raw),
     value_raw   |-> Raw,
     value_data  |-> out[1].value_data,
     value_dword |-> out[1].value_dword,
     diagnostics |-> out[1].diagnostics]

Init ==
    /\ cell \in ValueCell
    /\ pc = "coerce" /\ pos = 0 /\ cur = <<>> /\ parts = <<>> /\ bad = FALSE
    /\ out = <<>>

Decoded == pc = "done" /\ UNCHANGED vars

Next ==
    \/ CoerceAtOnce
    \/ StartSplit
    \/ CollectUnit
    \/ EndComponent
    \/ EndSplit
    \/ Decoded

Spec == Init /\ [][Next]_vars

-----------------------------------------------------------------------------
(* Properties. *)

Int64 == -(BytePower[8] \div 2)..((BytePower[8] \div 2) - 1)

IsString == DecodedValue.value_type \in {<<"REG_SZ">>, <<"REG_EXPAND_SZ">>, <<"REG_LINK">>}
IsMulti  == DecodedValue.value_type = <<"REG_MULTI_SZ">>

(* The text of a string is its units, all of them and in place, but for one  *)
(* terminating NUL; a unit differs only where it is no character, and then   *)
(* the row says bad-utf16.  So a row without a diagnostic gives the bytes    *)
(* back (decode_utf16le: a NUL inside the string is not its end).  The base  *)
(* block's reader, on the same bytes, gives that text up to its first NUL,   *)
(* also where the cut falls beside a surrogate.                              *)
TextKeepsUnits ==
    pc = "done" /\ IsString =>
        LET us   == Units(Raw)
            text == DecodedValue.value_data.units
        IN  /\ Len(us) - Len(text) \in {0, 1}
            /\ Len(us) > Len(text) => Last(us) = NUL
            /\ \A i \in DOMAIN text :
                  \/ text[i] = us[i]
                  \/ text[i] = Replacement /\ DecodedValue.diagnostics = "bad-utf16"
            /\ DecodedValue.diagnostics = "null" => Len(Raw) = 2 * Len(us)
            /\ DecodeFilename(Raw) =
                  SubSeq(text, 1, Min({Len(text)} \cup
                                      {i - 1 : i \in {j \in DOMAIN text : text[j] = NUL}}))

(* The text of a REG_MULTI_SZ is the list up to its empty component, the NUL *)
(* between two components read as a newline: no component is lost, joined to *)
(* its neighbour or repeated, with or without the final NULs, wherever       *)
(* surrogates stand (split_multi_sz, and the join in coerce).                *)
MultiSzKeepsComponents ==
    pc = "done" /\ IsMulti =>
        LET us   == Units(Raw)
            list == TrimNul(SubSeq(us, 1, pos))
        IN  /\ pos < Len(us) => us[pos + 1] = NUL /\ (pos = 0 \/ us[pos] = NUL)
            /\ \A i \in 2..pos : ~(us[i] = NUL /\ us[i - 1] = NUL)
            /\ DecodedValue.value_data.units =
                  [i \in DOMAIN list |-> IF list[i] = NUL THEN Newline
                                         ELSE DecodeUtf16(us)[i]]

(* bad-utf16 is reported exactly when the length is odd or a unit that was   *)
(* rendered is an unpaired surrogate, in the first, a middle or the last     *)
(* component alike, with its NUL or without (decode_utf16le, split_multi_sz).*)
BadUnitsFlagged ==
    pc = "done" /\ (IsString \/ IsMulti) =>
        LET us   == Units(Raw)
            read == IF IsMulti THEN pos ELSE Len(us)
        IN  (DecodedValue.diagnostics = "bad-utf16") <=>
                (OddLength(Raw) \/ \E i \in 1..read : ~Paired(us, i))

Width == CASE DecodedValue.value_type \in {<<"REG_DWORD">>, <<"REG_DWORD_BIG_ENDIAN">>} -> 4
           [] DecodedValue.value_type \in {<<"REG_QWORD">>, <<"REG_FILETIME">>}         -> 8
           [] OTHER                                                                    -> 0

(* An integer rendering has every byte of the field in its place, the first  *)
(* one lowest except in REG_DWORD_BIG_ENDIAN, and value_dword is the same    *)
(* number modulo 2^64, negative only for a QWORD or a FILETIME with the top  *)
(* bit set.  It is missing exactly when there are too few bytes, which the   *)
(* row then says (coerce).                                                   *)
IntegersExact ==
    pc = "done" /\ Width > 0 =>
        LET row   == DecodedValue
            v     == row.value_data.value
            place == IF row.value_type = <<"REG_DWORD_BIG_ENDIAN">>
                     THEN [i \in 1..Width |-> Width - i] ELSE [i \in 1..Width |-> i - 1]
        IN  IF Len(Raw) < Width
            THEN row.value_dword = <<>> /\ row.diagnostics = "truncated"
            ELSE /\ \A i \in 1..Width : (v \div BytePower[place[i]]) % ByteBase = Raw[i]
                 /\ v < BytePower[Width]
                 /\ row.value_dword[1] \in Int64
                 /\ (row.value_dword[1] - v) % BytePower[8] = 0
                 /\ row.value_dword[1] < 0 =>
                       Width = 8 /\ Raw[8] >= ByteBase \div 2
                 /\ row.diagnostics = "null"

(* The name and the rendering of a type are chosen apart, each masking the   *)
(* code's high bits: they never disagree, so that a reader who goes by       *)
(* value_type finds text, an integer or hex where the name promises it, and  *)
(* the hex gives back the bytes (type_name, coerce, to_hex_lower).           *)
RenderingMatchesType ==
    pc = "done" =>
        LET row == DecodedValue
        IN  /\ row.value_data.form = "text" <=> IsString \/ IsMulti
            /\ row.value_data.form = "int" <=> Width > 0 /\ Len(Raw) >= Width
            /\ row.value_data.form = "int" <=> row.value_dword # <<>>
            /\ row.value_data.form = "hex" =>
                  /\ Len(row.value_data.digits) = 2 * Len(Raw)
                  /\ Unhex(row.value_data.digits) = Raw
=============================================================================
