----------------------------- MODULE MCHiveWalk -----------------------------
(***************************************************************************)
(* A small registry for HiveWalk: a root R with a key Cle below it, whose   *)
(* name has a letter beyond ASCII, a child of Cle, a live key that is      *)
(* itself named $Deleted, and orphans with the path of a live key.         *)
(***************************************************************************)
EXTENDS HiveWalk

Up(t) == [text |-> t, upper |-> TRUE, high |-> FALSE]
Low(t) == [text |-> t, upper |-> FALSE, high |-> FALSE]
R == Up("r")
Cle == [Up("cle") EXCEPT !.high = TRUE]
cle == [Low("cle") EXCEPT !.high = TRUE]

MCKeyPaths ==
    {<<R>>, <<R, Cle>>, <<R, cle, Up("sub")>>, <<R, DeletedPrefix, Cle>>,
     <<Cle>>, <<Cle, Up("sub")>>}

MCValueLists ==
    LET ok == [state |-> "allocated", diagnostics |-> "null"]
    IN  {<<>>, <<ok>>,
         <<[ok EXCEPT !.diagnostics = "bad-utf16"], [ok EXCEPT !.state = "deleted"]>>}

\* Root, a key in both cases of its ASCII letters and of the other one, its
\* child, orphans, stray leading or trailing backslashes, the root's name.
MCFilters ==
    {EmptyPath, <<cle>>, <<Low("cle")>>, <<EmptySegment, EmptySegment, Cle>>, <<cle, Up("sub")>>,
     <<Low("$deleted")>>, <<Cle, EmptySegment>>, <<R, Cle>>, <<R>>}

MCHives ==
    {h \in [kind : {"ok", "bad-checksum"}, dirty : BOOLEAN, builds : {TRUE}, keys : {0}] :
        h \in HiveImage}
    \cup {[kind |-> "truncated", dirty |-> FALSE, builds |-> TRUE, keys |-> 0],
          [kind |-> "ok", dirty |-> FALSE, builds |-> FALSE, keys |-> 0]}
=============================================================================
