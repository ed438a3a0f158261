---------------------------- MODULE MCCollection ----------------------------
(* Workloads for the TLC runs of Collection. *)
EXTENDS Collection

CONSTANTS home, f1, f2, cli, timer

\* Two moves in a row with a manual process; one move with a manual process whose
\* output may be closed; the timer with the schedule's own requests; the timer
\* with moves, restores and what the operator records.
MCWorkloads ==
  {[folders |-> {home, f1, f2}, processes |-> {cli}, requests |-> {"move"},
    edits |-> {}, errors |-> {"failed"}, runs |-> 3, notes |-> 0],
   [folders |-> {home, f1}, processes |-> {cli}, requests |-> {"move"},
    edits |-> {}, errors |-> {"failed", "output"}, runs |-> 3, notes |-> 0],
   [folders |-> {home, f1}, processes |-> {timer}, requests |-> {"move", "schedule"},
    edits |-> {FALSE}, errors |-> {"denied"}, runs |-> 1, notes |-> 0],
   [folders |-> {home, f1}, processes |-> {timer}, requests |-> {"move", "restore"},
    edits |-> {FALSE}, errors |-> {"failed"}, runs |-> 1, notes |-> 1]}

\* The timer alone, twice, with access denied.
MCDenied ==
  {[folders |-> {home}, processes |-> {timer}, requests |-> {}, edits |-> {},
    errors |-> {"denied"}, runs |-> 2, notes |-> 0]}
=============================================================================
