---------------------------- MODULE MCScheduler ----------------------------
EXTENDS Scheduler
CONSTANTS e1, e2

S(kind, overlap, tries, catchUp, expires, engines, last, runs, budget) ==
  [kind |-> kind, overlap |-> overlap, tries |-> tries, catchUp |-> catchUp, expires |-> expires,
   engines |-> engines, last |-> last, runs |-> runs, budget |-> budget]

MCSchedules ==
  {S("session", "queue", 2, FALSE, 99, {e1}, 1, 2, 1), S("workflow", "skip", 2, TRUE, 99, {e1}, 1, 2, 2),
   S("workflow", "allow", 2, FALSE, 99, {e1, e2}, 1, 1, 2), S("dispatch", "queue", 1, FALSE, 5, {e1}, 2, 2, 2),
   S("dispatch", "allow", 1, TRUE, 99, {e1, e2}, 1, 2, 1)}

\* A dispatch on one engine, for the refused receipt.
MCSilent == {S("dispatch", "allow", 1, TRUE, 99, {e1}, 1, 1, 1)}
===========================================================================
