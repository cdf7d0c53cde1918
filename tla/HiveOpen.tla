------------------------------ MODULE HiveOpen ------------------------------
(***************************************************************************)
(* Opening one hive image: open_blob (hive/open.rs), the recovery label    *)
(* (hive/mod.rs) and build_rows (table/read_hive.rs), over images          *)
(* abstracted to what decides their outcome:                               *)
(*   kind    the classification baseblock::parse gives the bytes,          *)
(*   dirty   BaseBlock::is_dirty,                                          *)
(*   builds  notatin can build a parser from the primary alone,            *)
(*   keys    how many keys notatin's iterator then yields.                 *)
(* notatin is external.  What it makes of an unusable transaction log is   *)
(* not visible in this repository, so either outcome is allowed.           *)
(***************************************************************************)
EXTENDS Naturals, Sequences

Kind == {"ok", "truncated", "short-base-block", "bad-signature",
         "not-a-hive", "bad-checksum", "bin-size-overrun"}

\* Images the reader can meet: a bad checksum is itself a dirty mark.
HiveImage ==
    {h \in [kind : Kind, dirty : BOOLEAN, builds : BOOLEAN, keys : Nat] :
        h.kind = "bad-checksum" => h.dirty}

LogBytes == {"usable", "unusable"}

\* ParserBuilder::build on the primary and the logs handed to the builder.
NotatinBuild(h, handed) ==
    IF \E i \in DOMAIN handed : handed[i] = "unusable"
    THEN {FALSE, h.builds}
    ELSE {h.builds}

\* The logs open_blob hands to the builder.
HandedLogs(apply_logs, logs) == IF apply_logs THEN logs ELSE <<>>

\* open_blob succeeds past the header check and the build.
Openable(h) == h.kind \in {"ok", "bad-checksum"}

Recovery == {"null", "logs-applied", "dirty-no-logs"}

\* base_recovery_label(was_dirty, logs_present, apply_logs)
BaseRecoveryLabel(was_dirty, logs_present, apply_logs) ==
    CASE ~was_dirty                                -> "null"
      [] was_dirty /\ apply_logs /\ logs_present   -> "logs-applied"
      [] OTHER                                     -> "dirty-no-logs"

Diagnostics == {"null", "bad-checksum"}

\* build_rows for one source: the batch, with rows = 0 when the open failed.
BuildRows(apply_logs, h, source, logs, built) ==
    [source      |-> source,
     rows        |-> IF Openable(h) /\ built THEN h.keys ELSE 0,
     recovery    |-> BaseRecoveryLabel(h.dirty, logs # <<>>, apply_logs),
     diagnostics |-> IF h.kind = "bad-checksum" THEN "bad-checksum" ELSE "null"]
=============================================================================
