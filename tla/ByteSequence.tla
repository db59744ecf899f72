---------------------------- MODULE ByteSequence ----------------------------
(***************************************************************************)
(* What a buffer promises: a sequence of bytes, no longer than its         *)
(* capacity, and what each call makes of it.  A call that does not fit     *)
(* changes nothing.                                                        *)
(***************************************************************************)
EXTENDS Integers, Sequences

CONSTANTS Byte, Capacity

VARIABLES content,
          call      \* the last call: its name, its text, where it applies, and a length

Fits == Len(content') <= Capacity

Append_ == content' = content \o call'.text
Copy == content' = call'.text

\* len bytes from the index on, or those there are.
Remove == IF call'.at > Len(content) THEN UNCHANGED content
          ELSE content' = SubSeq(content, 1, call'.at)
                          \o SubSeq(content, call'.at + call'.len + 1, Len(content))

\* Bytes that a larger size brings in are not specified.
Resize == /\ Len(content') = call'.len
          /\ \A i \in DOMAIN content \cap DOMAIN content' : content'[i] = content[i]

Set == LET last == call'.at + Len(call'.text)
       IN  IF last > Len(content) THEN UNCHANGED content
           ELSE content' = SubSeq(content, 1, call'.at) \o call'.text
                           \o SubSeq(content, last + 1, Len(content))

Init == content = << >> /\ call = [name |-> "none", text |-> << >>, at |-> 0, len |-> 0]

Next == \/ call'.name = "append" /\ Append_ /\ Fits
        \/ call'.name = "copy" /\ Copy /\ Fits
        \/ call'.name = "remove" /\ Remove
        \/ call'.name = "set_size" /\ Resize /\ Fits
        \/ call'.name = "set" /\ Set
        \/ /\ \/ call'.name = "append" /\ Len(content) + Len(call'.text) > Capacity
              \/ call'.name = "copy" /\ Len(call'.text) > Capacity
              \/ call'.name = "set_size" /\ call'.len > Capacity
           /\ UNCHANGED content

Spec == Init /\ [][Next]_<<content, call>>
=============================================================================
