------------------------------ MODULE MCThreads ------------------------------
(***************************************************************************)
(* The two parts that have threads of their own to fear.  They share       *)
(* nothing, so a behaviour is one of the pool or one of the singleton,     *)
(* which its first state chooses.                                          *)
(***************************************************************************)
EXTENDS WorkPool, Singleton

VARIABLE part  \* the part that runs, "pool" or "singleton"

MCInit == part \in {"pool", "singleton"} /\ PoolInit /\ Init

RunPool == part = "pool" /\ PoolNext /\ UNCHANGED vars
RunSingleton == part = "singleton" /\ Next /\ UNCHANGED poolVars

MCNext == (RunPool \/ RunSingleton) /\ UNCHANGED part

MCSpec == MCInit /\ [][MCNext]_<<part, poolVars, vars>> /\ PoolFairness /\ Fairness
=============================================================================
