------------------------------- MODULE SlotPool -------------------------------
(***************************************************************************)
(* What EngineScheduler promises its callers (scheduler.py:1-38): at most  *)
(* max_concurrent requests hold a slot at a time, and a request that       *)
(* has given its slot back, or given up, never gets one again.             *)
(***************************************************************************)
EXTENDS Naturals, FiniteSets

CONSTANTS
    Requests,       \* everything that ever asks for a slot
    MaxConcurrent   \* slots

VARIABLES
    using,          \* requests that hold a slot
    over            \* requests that are finished with the scheduler

poolVars == <<using, over>>

PoolInit ==
    /\ using = {}
    /\ over = {}

Take(r) ==
    /\ r \notin using \cup over
    /\ Cardinality(using) < MaxConcurrent
    /\ using' = using \cup {r}
    /\ UNCHANGED over

Give(r) ==
    /\ r \in using
    /\ using' = using \ {r}
    /\ over' = over \cup {r}

GiveUp(r) ==
    /\ r \notin using \cup over
    /\ over' = over \cup {r}
    /\ UNCHANGED using

PoolNext == \E r \in Requests : Take(r) \/ Give(r) \/ GiveUp(r)

PoolSpec == PoolInit /\ [][PoolNext]_poolVars

=============================================================================
