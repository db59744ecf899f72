---------------------------- MODULE EventEmitter ----------------------------
(***************************************************************************)
(* EventEmitter: the listeners of one event, and emit, which calls each of *)
(* them in turn while they may add and remove listeners, themselves too,   *)
(* and emit the event again.                                               *)
(*                                                                         *)
(* A listener is known to the application by the address of its callback,  *)
(* which may be given to another listener once it is free.                 *)
(***************************************************************************)
EXTENDS Integers, SequencesExt

CONSTANTS MaxListeners,  \* bound: listeners added
          MaxDepth,      \* bound: emits within one another
          Addresses      \* where callbacks are allocated

ASSUME EmitterAssumption == MaxListeners \in Nat /\ MaxDepth \in Nat

VARIABLES entry,   \* the list of the event: listeners with their address
          made,    \* listeners added so far, which numbers them
          given,   \* the pointers the application has got, with their listener
          emits,   \* the emits in progress, innermost last
          bold,    \* history: a listener was removed while emit was calling it
          fault    \* emit has gone on from a listener that was erased

emitterVars == <<entry, made, given, emits, bold, fault>>

Listener == [id : 1 .. MaxListeners, addr : Addresses]

\* at: the listener of the iterator, 0 for end(); seen: history, those called.
Emitting == [at : 0 .. MaxListeners, calling : BOOLEAN, addr : Addresses \cup {0},
             seen : Seq(1 .. MaxListeners)]

EmitterTypeOK == /\ entry \in Seq(Listener)
                 /\ made \in 0 .. MaxListeners
                 /\ given \subseteq Listener
                 /\ emits \in Seq(Emitting)
                 /\ bold \in BOOLEAN /\ fault \in BOOLEAN

EmitterInit == /\ entry = << >> /\ made = 0 /\ given = {} /\ emits = << >>
               /\ bold = FALSE /\ fault = FALSE

-----------------------------------------------------------------------------
Ids == [i \in DOMAIN entry |-> entry[i].id]
Depth == Len(emits)
Current == emits[Depth]

\* The application runs: in the loop, or in a listener that emit calls.
Running == ~fault /\ (Depth > 0 => Current.calling)

\* Callbacks in the list, and those that emit keeps alive while it calls them.
Used == Range([i \in DOMAIN entry |-> entry[i].addr])
        \cup {emits[d].addr : d \in {e \in 1 .. Depth : emits[e].calling}}

PushBack(l) == entry' = Append(entry, l)

AddListener(a) == /\ Running /\ made < MaxListeners /\ a \notin Used
                  /\ made' = made + 1
                  /\ PushBack([id |-> made + 1, addr |-> a])
                  /\ given' = given \cup {[id |-> made + 1, addr |-> a]}
                  /\ UNCHANGED <<emits, bold, fault>>

BeingCalled == {emits[d].at : d \in 1 .. Depth}

Erase(i) == entry' = RemoveAt(entry, i)

\* The first listener with the pointer's address, if there is one; the pointer may
\* be that of a listener removed long ago.
RemoveListener(p) ==
  /\ Running /\ p \in given
  /\ \E i \in DOMAIN entry :
       /\ entry[i].addr = p.addr
       /\ \A j \in 1 .. i - 1 : entry[j].addr # p.addr
       /\ Erase(i)
       /\ bold' = (bold \/ entry[i].id \in BeingCalled)
  /\ UNCHANGED <<made, given, emits, fault>>

RemoveAllListeners == /\ Running /\ entry # << >>
                      /\ entry' = << >>
                      /\ bold' = (bold \/ Range(Ids) \cap BeingCalled # {})
                      /\ UNCHANGED <<made, given, emits, fault>>

First == IF entry = << >> THEN 0 ELSE entry[1].id

\* The listener after the one at index i.
Following(i) == IF i = Len(entry) THEN 0 ELSE entry[i + 1].id

Emit == /\ Running /\ Depth < MaxDepth
        /\ emits' = Append(emits, [at |-> First, calling |-> FALSE, addr |-> 0, seen |-> << >>])
        /\ UNCHANGED <<entry, made, given, bold, fault>>

\* The callback is called through a copy of its shared_ptr.
CallListener ==
  /\ ~fault /\ Depth > 0 /\ ~Current.calling
  /\ \E i \in DOMAIN entry :
       /\ entry[i].id = Current.at
       /\ emits' = [emits EXCEPT ![Depth].calling = TRUE, ![Depth].addr = entry[i].addr,
                                 ![Depth].seen = Append(@, Current.at)]
  /\ UNCHANGED <<entry, made, given, bold, fault>>

\* Faulty: an exception ends the emit.
MutListenerEndsEmit ==
  /\ Running /\ Depth > 0
  /\ \E next \in {0} \cup {Following(i) : i \in {j \in DOMAIN entry : entry[j].id = Current.at}} :
       emits' = [emits EXCEPT ![Depth].calling = FALSE, ![Depth].addr = 0, ![Depth].at = next]
  /\ UNCHANGED <<entry, made, given, bold, fault>>

\* The callback returns, or throws, which emit ignores; emit goes on to what follows
\* now, or from a node that has been erased.
ListenerEnds ==
  /\ Running /\ Depth > 0
  /\ IF \E i \in DOMAIN entry : entry[i].id = Current.at
     THEN /\ \E i \in DOMAIN entry :
               /\ entry[i].id = Current.at
               /\ emits' = [emits EXCEPT ![Depth].calling = FALSE, ![Depth].addr = 0,
                                         ![Depth].at = Following(i)]
          /\ UNCHANGED fault
     ELSE fault' = TRUE /\ UNCHANGED emits
  /\ UNCHANGED <<entry, made, given, bold>>

EmitEnds == /\ ~fault /\ Depth > 0 /\ Current.at = 0
            /\ emits' = Front(emits)
            /\ UNCHANGED <<entry, made, given, bold, fault>>

EmitterNext == \/ \E a \in Addresses : AddListener(a)
               \/ \E p \in given : RemoveListener(p)
               \/ RemoveAllListeners \/ Emit \/ CallListener \/ ListenerEnds \/ EmitEnds

EmitterSpec == EmitterInit /\ [][EmitterNext]_emitterVars

-----------------------------------------------------------------------------
Ordered(s) == \A i, j \in DOMAIN s : i < j => s[i] < s[j]

\* Whatever the listeners do, the list keeps them in the order in which they were added,
\* and an emit calls each at most once, in that order.
CallsInOrder == Ordered(Ids) /\ \A d \in 1 .. Depth : Ordered(emits[d].seen)

\* When an emit comes to its end it has called every listener there is by then, those
\* added meanwhile included, whatever others have thrown or removed.
AllCalled ==
  \A d \in 1 .. Depth :
    ~fault /\ emits[d].at = 0 /\ ~emits[d].calling => Range(Ids) \subseteq Range(emits[d].seen)

\* As long as a listener is there its pointer removes it, and no other.
RemovesOwn ==
  [][\A p \in given : RemoveListener(p) /\ p \in Range(entry)
       => Range(entry') = Range(entry) \ {p}]_emitterVars

\* If no listener is removed while it is called, by an emit within one that is in
\* progress or by itself, emit never goes on from an erased one.
FaultForCause == fault => bold

\* Whatever the listeners add, remove, emit and throw.
EmitterSound == [](EmitterTypeOK /\ CallsInOrder /\ AllCalled /\ FaultForCause) /\ RemovesOwn
=============================================================================
