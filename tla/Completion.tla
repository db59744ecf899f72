----------------------------- MODULE Completion -----------------------------
(***************************************************************************)
(* What an asynchronous operation promises its caller: a request that was  *)
(* taken is answered once, and through the callback that was given with it.*)
(* UvHandle and WorkPool implement it.                                     *)
(***************************************************************************)
EXTENDS Naturals, Sequences

CONSTANT Requests

VARIABLES asked,  \* the requests taken
          heard   \* <<request, callback>> for each call of a callback, in order

Heard(r) == \E i \in 1 .. Len(heard) : heard[i][1] = r

Init == asked = {} /\ heard = << >>

Ask(r) == r \notin asked /\ asked' = asked \cup {r} /\ UNCHANGED heard

\* The callback of a request is named like the request.
Answer(r) == /\ r \in asked /\ ~Heard(r)
             /\ heard' = Append(heard, <<r, r>>)
             /\ UNCHANGED asked

Next == \E r \in Requests : Ask(r) \/ Answer(r)

Spec == Init /\ [][Next]_<<asked, heard>>
=============================================================================
