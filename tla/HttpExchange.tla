---------------------------- MODULE HttpExchange ----------------------------
(***************************************************************************)
(* What a connection of the HTTP server promises its application: one call *)
(* of the handler at most, and the connection is released after, and only  *)
(* after, the handler's response has been answered.                        *)
(***************************************************************************)
EXTENDS Naturals

VARIABLES phase,    \* "none", "open", "handled" or "released"
          calls,    \* calls of the handler
          answers   \* writes of the response that were started

vars == <<phase, calls, answers>>

Init == phase = "none" /\ calls = 0 /\ answers = 0

Accept == /\ phase = "none"
          /\ phase' = "open"
          /\ UNCHANGED <<calls, answers>>

Handle == /\ phase = "open"
          /\ phase' = "handled"
          /\ calls' = calls + 1
          /\ UNCHANGED answers

Answer == /\ phase = "handled"
          /\ answers' = answers + 1
          /\ UNCHANGED <<phase, calls>>

Release == /\ phase = "handled"
           /\ answers > 0
           /\ phase' = "released"
           /\ UNCHANGED <<calls, answers>>

Next == Accept \/ Handle \/ Answer \/ Release

Spec == Init /\ [][Next]_vars

\* A connection whose response has been answered is released.
FairSpec == Spec /\ WF_vars(Release)
=============================================================================
