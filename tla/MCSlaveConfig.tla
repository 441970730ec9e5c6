---------------------------- MODULE MCSlaveConfig ----------------------------
(***************************************************************************)
(* The instance of SlaveConfig for TLC: a slave that has everything, and a *)
(* configuration that uses it.                                             *)
(***************************************************************************)
EXTENDS SlaveConfig

Full == [mailbox |-> TRUE, dc |-> TRUE, fmmus |-> 1, syncs |-> 3]

Rich == [sdos |-> 2, soe |-> [s \in {"PREOP", "SAFEOP"} |-> 1], eoe |-> TRUE,
         divider |-> FALSE, watchdog |-> TRUE, pdi |-> TRUE, dc |-> TRUE,
         wait |-> TRUE, fmmus |-> 1, syncs |-> 3]

\* With a watchdog divider, for which StopsAfterError and BusyEnds do not hold.
Divided == [Rich EXCEPT !.divider = TRUE]

FullOnly == {Full}
OneRich == <<Rich>>
OneDivided == <<Divided>>
=============================================================================
