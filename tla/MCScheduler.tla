----------------------------- MODULE MCScheduler -----------------------------
(***************************************************************************)
(* A statement of scheduler.py that a cancelled HTTP handler breaks.        *)
(***************************************************************************)
EXTENDS Scheduler

\* release() mirrors every successful wait() (scheduler.py:73-75): a request
\* that got a slot and ended has returned it.
EveryWaitIsReleased == Leaked = {}

=============================================================================
