------------------------------ MODULE GlobScan ------------------------------
(***************************************************************************)
(* What a scan promises its caller, turn by turn: the list of sources is   *)
(* fixed once, by the first turn the caller accepts; every turn reports    *)
(* sources of the front of what is left, in list order and none of them    *)
(* twice; a turn that does not end the scan reports something; the scan    *)
(* ends only when every source of the list was considered.  Where the      *)
(* position can be lost between turns, what is left is forgotten and the   *)
(* scan ends without it; even then no source comes back or out of order.   *)
(***************************************************************************)
EXTENDS Naturals, Sequences

CONSTANTS
    Lists,      \* the ordered source lists a scan may be over
    Forgetful   \* may the position be lost between turns?

VARIABLES
    phase,     \* "new", "open" or "done"
    todo,      \* sources of the list not yet considered in an accepted turn
    seen,      \* sources considered in accepted turns, in order
    reported   \* sources of the accepted batches, in the order received

gsVars == <<phase, todo, seen, reported>>

Contents(s) == {s[i] : i \in DOMAIN s}

Init == phase = "new" /\ todo = <<>> /\ seen = <<>> /\ reported = <<>>

\* s picks elements of t in the order t has them, each at most once.
Picks(s, t) ==
    /\ Contents(s) \subseteq Contents(t)
    /\ \A i, j \in DOMAIN s : i < j =>
          \E k, l \in DOMAIN t : k < l /\ t[k] = s[i] /\ t[l] = s[j]

Turn ==
    /\ phase # "done"
    /\ phase' \in {"open", "done"}
    /\ \E all \in (IF phase = "new" THEN Lists ELSE {todo}) :
       \E n \in 0..Len(all) :
          LET taken == SubSeq(all, 1, n)
              fresh == SubSeq(reported', Len(reported) + 1, Len(reported'))
          IN  /\ todo' = SubSeq(all, n + 1, Len(all))
              /\ seen' = seen \o taken
              /\ reported' = reported \o fresh
              /\ Picks(fresh, taken)
              /\ phase' = "open" => fresh # <<>>
              /\ phase' = "done" => todo' = <<>>

\* The position is lost.
Forget ==
    /\ Forgetful /\ phase = "open"
    /\ todo' = <<>>
    /\ UNCHANGED <<phase, seen, reported>>

Spec == Init /\ [][Turn \/ Forget]_gsVars
=============================================================================
