---------------------------- MODULE MCKeyScalars ----------------------------
(* Instances of KeyScalars for TLC.                                          *)
EXTENDS KeyScalars

Value(n, d) == [name |-> n, type |-> "REG_SZ", data |-> d, raw |-> d]

Key(subkeys, count, deleted, values) ==
    [last_write |-> count, subkeys |-> subkeys, count |-> count,
     deleted |-> deleted, values |-> values]

\* Two values, a key without any, and one whose header counts a value that
\* cannot be read and whose name is there twice.
MCKeys ==
    [k \in {"K", "E", "D"} |->
        CASE k = "K" -> Key(1, 2, FALSE, <<Value("A", 1), Value("", 2)>>)
          [] k = "E" -> Key(0, 0, TRUE, <<>>)
          [] k = "D" -> Key(0, 3, FALSE, <<Value("a", 3), Value("A", 4)>>)]

Header(kind, base, opens, lenient, root) ==
    [kind |-> kind, ok |-> kind = "ok", base |-> base, opens |-> opens,
     lenient |-> lenient, root |-> root, type |-> "SOFTWARE", dirty |-> kind # "ok",
     keys |-> IF opens THEN MCKeys ELSE [k \in {} |-> k]]

\* A hive under either reading of leading backslashes, a transaction log, and
\* bytes without a base block.
MCBlob == {Header("ok", TRUE, TRUE, FALSE, "ROOT"),
           Header("bad-checksum", TRUE, TRUE, TRUE, ""),
           Header("not-a-hive", TRUE, FALSE, FALSE, ""),
           Header("bad-signature", FALSE, FALSE, FALSE, "")}

MCPath == {[slashes |-> 0, key |-> "K"], [slashes |-> 1, key |-> "K"],
           [slashes |-> 0, key |-> "E"], [slashes |-> 0, key |-> "D"],
           [slashes |-> 0, key |-> "missing"]}

MCFold == [n \in {"", "A", "a"} |-> IF n = "" THEN "" ELSE "a"]
=============================================================================
