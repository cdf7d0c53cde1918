----------------------------- MODULE MCHttpScan -----------------------------
(* Instances of HttpScan for TLC.                                            *)
EXTENDS HttpScan

MCClean    == [kind |-> "ok", dirty |-> FALSE, builds |-> TRUE, keys |-> 1]
MCDirty    == [kind |-> "bad-checksum", dirty |-> TRUE, builds |-> TRUE, keys |-> 2]
MCRejected == [kind |-> "bin-size-overrun", dirty |-> FALSE, builds |-> TRUE, keys |-> 1]
MCNoBuild  == [kind |-> "ok", dirty |-> TRUE, builds |-> FALSE, keys |-> 1]
MCNoKeys   == [kind |-> "ok", dirty |-> FALSE, builds |-> TRUE, keys |-> 0]

\* Enough to tell rows from no rows, for the runs about turns and files.
MCTwoImages == {MCClean, MCRejected}

\* One log name; and two that a case-insensitive file system takes for one.
MCOneName  == <<1>>
MCTwoNames == <<1, 1>>

\* The ways an image can turn out, for the runs about files that change.
MCFourImages == {MCClean, MCDirty, MCRejected, MCNoBuild}
=============================================================================
