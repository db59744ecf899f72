--------------------------- MODULE PacketChannel ---------------------------
(***************************************************************************)
(* What a connection of the packet server promises its application: the    *)
(* packet callback sees the packets the peer sent, each exactly once, in   *)
(* the order they were sent, until the connection is closed.               *)
(***************************************************************************)
EXTENDS Naturals, Sequences

CONSTANT Msg        \* the packets a peer can send

VARIABLES sent,     \* everything the peer has sent, in order
          out,      \* everything handed to the packet callback, in order
          open      \* FALSE once the server has closed the connection

vars == <<sent, out, open>>

Init == /\ sent = << >>
        /\ out = << >>
        /\ open = TRUE

Send == /\ \E m \in Msg : sent' = Append(sent, m)
        /\ UNCHANGED <<out, open>>

Deliver == /\ open
           /\ Len(out) < Len(sent)
           /\ out' = Append(out, sent[Len(out) + 1])
           /\ UNCHANGED <<sent, open>>

Close == /\ open
         /\ open' = FALSE
         /\ UNCHANGED <<sent, out>>

Next == Send \/ Deliver \/ Close

Spec == Init /\ [][Next]_vars

\* The promise a peer relies on when it waits for an answer: a packet that has
\* been sent is delivered unless the connection is closed first.
FairSpec == Spec /\ WF_vars(Deliver)
=============================================================================
