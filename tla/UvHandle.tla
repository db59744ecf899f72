------------------------------ MODULE UvHandle ------------------------------
(***************************************************************************)
(* One handle of libuv's loop, a Stream, a Timer or a Signal, with the     *)
(* table that keeps one callback for each kind of call.  Every call stores *)
(* its callback in the slot of its kind before it asks libuv, and libuv's  *)
(* answer, whichever call it is for, invokes what the slot holds by then.  *)
(*                                                                         *)
(* Calls are numbered; the callback given with a call has its number.      *)
(***************************************************************************)
EXTENDS Integers, Sequences, FiniteSets

CONSTANTS MaxCalls,   \* bound: calls of the application
          MaxCaught,  \* bound: signals on their way at a time
          Signals,    \* the numbers of signals
          Throws      \* what callbacks may throw: "libra" or "other" exceptions

ASSUME HandleAssumption ==
  /\ MaxCalls \in Nat /\ MaxCaught \in Nat
  /\ Signals \cap {"write", "shutdown", "connect", "listen", "read", "timer", "close"} = {}
  /\ Throws \subseteq {"libra", "other"}

\* enum uv_callback_id, and in the table of a Signal the number of the signal.  A request
\* is answered once, an event again and again.
RequestKinds == {"write", "shutdown", "connect"}
StreamEvents == {"listen", "read"}
EventKinds == StreamEvents \cup {"timer"} \cup Signals
SlotKinds == RequestKinds \cup EventKinds \cup {"close"}

VARIABLES type,     \* what the handle is
          careful,  \* the application has one request of a kind at a time, calls no kind
                    \* from its callback, throws nothing, forgets what is closed, and
                    \* binds no signal handle that is closing
          handle,   \* the uv handle: "open", "closing" or "freed"
          table,    \* the callbacks it points to: "live" or "deleted"
          slot,     \* lut_: per kind the call whose callback is stored, 0: none
          made,     \* calls made
          kindOf,   \* history: the kind of each call
          pending,  \* requests that libuv has taken and not answered, in order
          on,       \* the calls whose events libuv watches for
          repeats,  \* the starts of a timer that repeat
          caught,   \* signals on their way through libuv's pipe, by the call that watched
          running,  \* the callback in progress: its kind, the call it answers, its own call
          owned,    \* requests (uv_write_t etc.) allocated and not deleted
          asked,    \* history: the calls libuv has taken a request of
          heard,    \* history: <<request, call of the callback>>, in order
          fault     \* what ended the run

manner == <<type, careful>>
calls == <<made, kindOf, asked>>
watched == <<on, repeats, caught>>
vars == <<manner, handle, table, slot, calls, pending, watched, running, owned, heard, fault>>

Idle == [kind |-> "none", req |-> 0, call |-> 0]

TypeOK == /\ type \in {"stream", "timer", "signal"} /\ careful \in BOOLEAN
          /\ handle \in {"open", "closing", "freed"}
          /\ table \in {"live", "deleted"}
          /\ made \in 0 .. MaxCalls
          /\ kindOf \in [1 .. made -> SlotKinds]
          /\ slot \in [SlotKinds -> 0 .. made]
          /\ pending \in Seq(1 .. made) /\ caught \in Seq(1 .. made)
          /\ {on, repeats, owned, asked} \subseteq SUBSET (1 .. made)
          /\ running.kind \in SlotKinds \cup {"none"}
          /\ {running.req, running.call} \subseteq 0 .. made
          /\ heard \in Seq((1 .. made) \X (1 .. made))
          /\ fault \in {"none", "freed", "null", "thrown", "asserted"}

Init == /\ type \in {"stream", "timer", "signal"} /\ careful \in BOOLEAN
        /\ handle = "open" /\ table = "live"
        /\ slot = [k \in SlotKinds |-> 0]
        /\ made = 0 /\ kindOf = << >> /\ asked = {}
        /\ pending = << >> /\ on = {} /\ repeats = {} /\ caught = << >>
        /\ running = Idle
        /\ owned = {} /\ heard = << >>
        /\ fault = "none"

-----------------------------------------------------------------------------
(* Calls of the application, from the loop or from a callback *)

PendingKinds == {kindOf[pending[i]] : i \in 1 .. Len(pending)}

MayCall(of, k) == /\ type = of /\ fault = "none" /\ made < MaxCalls
                  /\ careful => k \notin PendingKinds /\ k # running.kind

\* A later use of the Handle, or of what uv_handle_ still points to.
UseFreed == /\ ~careful /\ fault = "none" /\ handle = "freed"
            /\ fault' = "freed"
            /\ UNCHANGED <<manner, handle, table, slot, calls, pending, watched, running,
                           owned, heard>>

\* Faulty: shutdown was written by copying write.
MutStoreShared(k) ==
  /\ made' = made + 1
  /\ kindOf' = Append(kindOf, k)
  /\ slot' = [slot EXCEPT ![IF k = "shutdown" THEN "write" ELSE k] = made + 1]

\* callbacks::store: the callback that was there is destroyed.
Store(k) == /\ made' = made + 1
            /\ kindOf' = Append(kindOf, k)
            /\ slot' = [slot EXCEPT ![k] = made + 1]

\* write, shutdown and connect; libuv may refuse, and does once the handle is closing.
\* A refused call has stored its callback, and its request is not deleted; only connect
\* may fail before it has one, at an address that is none.
Call(k) ==
  /\ MayCall("stream", k) /\ handle # "freed"
  /\ Store(k)
  /\ \/ UNCHANGED <<pending, asked>> /\ owned' = owned \cup {made + 1}
     \/ k = "connect" /\ UNCHANGED <<pending, asked, owned>>
     \/ /\ handle = "open"
        /\ pending' = Append(pending, made + 1)
        /\ asked' = asked \cup {made + 1} /\ owned' = owned \cup {made + 1}
  /\ UNCHANGED <<manner, handle, table, watched, running, heard, fault>>

\* The event of a call that libuv takes replaces that of an earlier one.
Watching == {c \in on : kindOf[c] # "listen"}

\* listen and read_start
Watch(k) ==
  /\ MayCall("stream", k) /\ handle # "freed"
  /\ Store(k)
  /\ \/ UNCHANGED on
     \/ handle = "open" /\ on' = {c \in on : kindOf[c] # k} \cup {made + 1}
  /\ UNCHANGED <<manner, handle, table, pending, asked, repeats, caught, running, owned,
                 heard, fault>>

\* Faulty: a timer that is armed keeps its time and its callback's number.
MutStartIdle(repeat) ==
  /\ MayCall("timer", "timer") /\ handle # "freed"
  /\ Store("timer")
  /\ on' = IF handle = "open" /\ on = {} THEN {made + 1} ELSE on
  /\ repeats' = IF repeat THEN repeats \cup {made + 1} ELSE repeats
  /\ UNCHANGED <<manner, handle, table, pending, asked, caught, running, owned, heard, fault>>

\* Timer::start.  libuv stops the timer first, and refuses a handle that is closing.
Start(repeat) ==
  /\ MayCall("timer", "timer") /\ handle # "freed"
  /\ Store("timer")
  /\ on' = IF handle = "open" THEN {made + 1} ELSE on
  /\ repeats' = IF repeat THEN repeats \cup {made + 1} ELSE repeats
  /\ UNCHANGED <<manner, handle, table, pending, asked, caught, running, owned, heard, fault>>

\* Signal::bind.  A handle watches one number: libuv gives up the old one before it asks
\* for the new, which the system may refuse; the number it watches is not asked for again.
Bind(n) ==
  /\ MayCall("signal", n) /\ handle = "open"
  /\ Store(n)
  /\ \/ on' = {made + 1}
     \/ on' = {} /\ \A c \in on : kindOf[c] # n
  /\ UNCHANGED <<manner, handle, table, pending, asked, repeats, caught, running, owned,
                 heard, fault>>

\* ... of a handle that is closing: libuv asserts that it is not, and the program ends.
BindClosing(n) ==
  /\ ~careful /\ MayCall("signal", n) /\ handle = "closing"
  /\ fault' = "asserted"
  /\ UNCHANGED <<manner, handle, table, slot, calls, pending, watched, running, owned, heard>>

\* read_stop, Timer::stop and Signal::cancel
Unwatch == /\ fault = "none" /\ Watching # {}
           /\ on' = on \ Watching
           /\ UNCHANGED <<manner, handle, table, slot, calls, pending, repeats, caught,
                          running, owned, heard, fault>>

\* Faulty: deletes the table at once.
MutCloseDeletes ==
  /\ MayCall(type, "close") /\ handle = "open"
  /\ Store("close")
  /\ handle' = "closing" /\ table' = "deleted" /\ on' = {}
  /\ asked' = asked \cup {made + 1}
  /\ UNCHANGED <<manner, pending, repeats, caught, running, owned, heard, fault>>

\* A close of a handle that is closing returns early and forgets its callback.
Close ==
  /\ MayCall(type, "close") /\ handle = "open"
  /\ Store("close")
  /\ handle' = "closing" /\ on' = {}
  /\ asked' = asked \cup {made + 1}
  /\ UNCHANGED <<manner, table, pending, repeats, caught, running, owned, heard, fault>>

-----------------------------------------------------------------------------
(* The loop *)

InLoop == fault = "none" /\ running = Idle /\ handle # "freed"

\* callbacks::invoke for an answer to call r
Invoke(k, r) ==
  /\ fault' = IF table = "deleted" THEN "freed" ELSE IF slot[k] = 0 THEN "null" ELSE "none"
  /\ running' = [kind |-> k, req |-> r, call |-> slot[k]]
  /\ heard' = IF k \in EventKinds THEN heard ELSE Append(heard, <<r, slot[k]>>)

\* A connection to accept, or a read, of which the end of the stream is the last; or the
\* time of a timer, which is armed again before its callback runs if it repeats.
Event(c) ==
  /\ InLoop /\ c \in on /\ type # "signal"
  /\ Invoke(kindOf[c], c)
  /\ CASE kindOf[c] = "read" -> on' \in {on, on \ {c}}
       [] kindOf[c] = "timer" /\ c \notin repeats -> on' = on \ {c}
       [] OTHER -> UNCHANGED on
  /\ UNCHANGED <<manner, handle, table, slot, calls, pending, repeats, caught, owned>>

\* The process gets a signal that the handle watches.
Catch(c) ==
  /\ fault = "none" /\ type = "signal" /\ c \in on /\ Len(caught) < MaxCaught
  /\ caught' = Append(caught, c)
  /\ UNCHANGED <<manner, handle, table, slot, calls, pending, on, repeats, running, owned,
                 heard, fault>>

\* The loop passes a signal on if the handle still, or again, watches its number.
Deliver ==
  /\ InLoop /\ caught # << >>
  /\ caught' = Tail(caught)
  /\ LET n == kindOf[Head(caught)]
     IN  IF \E c \in on : kindOf[c] = n THEN Invoke(n, Head(caught))
         ELSE UNCHANGED <<running, heard, fault>>
  /\ UNCHANGED <<manner, handle, table, slot, calls, pending, on, repeats, owned>>

\* The oldest request is done, has failed, or is cancelled by close.
Answer == /\ InLoop /\ pending # << >>
          /\ pending' = Tail(pending)
          /\ Invoke(kindOf[Head(pending)], Head(pending))
          /\ UNCHANGED <<manner, handle, table, slot, calls, watched, owned>>

\* libuv calls the close callback when the requests have been cancelled and the signals
\* it had caught for the handle have been seen.
AnswerClose == /\ InLoop /\ handle = "closing" /\ pending = << >> /\ caught = << >>
               /\ Invoke("close", slot["close"])
               /\ UNCHANGED <<manner, handle, table, slot, calls, pending, watched, owned>>

\* Faulty: only an answer without error deletes its request.
MutReturnNoDelete ==
  /\ fault = "none" /\ running # Idle /\ running.kind # "close"
  /\ running' = Idle
  /\ owned' = IF handle = "closing" THEN owned ELSE owned \ {running.req}
  /\ UNCHANGED <<manner, handle, table, slot, calls, pending, watched, heard, fault>>

\* The callback returns, and its request is deleted.
Return == /\ fault = "none" /\ running # Idle /\ running.kind # "close"
          /\ running' = Idle
          /\ owned' = owned \ {running.req}
          /\ UNCHANGED <<manner, handle, table, slot, calls, pending, watched, heard, fault>>

\* Faulty: forgets the handle.
MutCloseReturnKeeps ==
  /\ fault = "none" /\ running.kind = "close"
  /\ running' = Idle
  /\ table' = "deleted"
  /\ slot' = [k \in SlotKinds |-> 0]
  /\ UNCHANGED <<manner, handle, calls, pending, watched, owned, heard, fault>>

\* The close callback returns: the table and the handle are deleted.
CloseReturn == /\ fault = "none" /\ running.kind = "close"
               /\ running' = Idle
               /\ handle' = "freed" /\ table' = "deleted"
               /\ slot' = [k \in SlotKinds |-> 0]
               /\ UNCHANGED <<manner, calls, pending, watched, owned, heard, fault>>

\* The exception leaves uv_run; only a Libra exception takes the request along.
Throw == /\ ~careful /\ fault = "none" /\ running # Idle
         /\ \E e \in Throws : owned' = IF e = "libra" THEN owned \ {running.req} ELSE owned
         /\ fault' = "thrown"
         /\ UNCHANGED <<manner, handle, table, slot, calls, pending, watched, running, heard>>

Next == \/ \E k \in RequestKinds : Call(k)
        \/ \E k \in StreamEvents : Watch(k)
        \/ \E repeat \in BOOLEAN : Start(repeat)
        \/ \E n \in Signals : Bind(n) \/ BindClosing(n)
        \/ \E c \in 1 .. MaxCalls : Event(c) \/ Catch(c)
        \/ Unwatch \/ Close \/ UseFreed
        \/ Deliver \/ Answer \/ AnswerClose \/ Return \/ CloseReturn \/ Throw

Spec == Init /\ [][Next]_vars

\* libuv answers the requests of a handle that is closing, whatever its peer does, reads
\* its pipe, and callbacks return.
FairSpec == /\ Spec
            /\ WF_vars(handle = "closing" /\ (Answer \/ Deliver))
            /\ WF_vars(AnswerClose) /\ WF_vars(Return) /\ WF_vars(CloseReturn)

-----------------------------------------------------------------------------
(* However the application calls *)

\* assert(x) in callbacks::invoke: a callback is there, in a table that lives, for all
\* that libuv still has to say.
SomethingToInvoke ==
  \A k \in PendingKinds \cup {kindOf[c] : c \in on}
             \cup (IF handle = "closing" THEN {"close"} ELSE {}) :
    table = "live" /\ slot[k] # 0

\* Only refused calls, and callbacks that throw what is no Libra::Exception, leak their
\* requests: all others are deleted when they have been answered.
LeakForCause ==
  \A r \in owned \cap asked :
    \/ \E i \in 1 .. Len(pending) : pending[i] = r
    \/ r = running.req

\* What libuv holds of the program is alive, and nothing else is kept for it.
HandleSound == TypeOK /\ SomethingToInvoke /\ LeakForCause

\* A call that is not answered by its own callback is answered by that of a later call of
\* the same kind, made before the answer; never by that of an earlier one or of another
\* kind.  A timer, whose start always replaces the one before, only calls its own.
MisheardForCause ==
  /\ \A i \in 1 .. Len(heard) :
       /\ heard[i][2] >= heard[i][1]
       /\ kindOf[heard[i][2]] = kindOf[heard[i][1]]
  /\ running.kind \in EventKinds =>
       /\ running.call >= running.req
       /\ kindOf[running.call] = kindOf[running.req]
       /\ running.kind = "timer" => running.call = running.req

-----------------------------------------------------------------------------
(* A careful application *)

\* No callback destroys itself by storing another one in its slot.
RunningIntact == running # Idle => table = "live" /\ slot[running.kind] = running.call

\* A careful application uses nothing that was freed and destroys no running callback.
CarefulIsSafe == careful => fault = "none" /\ RunningIntact

\* Each request of a careful application is answered once, by its own callback.
Promise == INSTANCE Completion
             WITH Requests <- 1 .. MaxCalls,
                  asked <- IF careful THEN asked ELSE {},
                  heard <- IF careful THEN heard ELSE << >>
ImplementsCompletion == Promise!Spec

\* Once a careful application has called close, each of its requests is answered and the
\* handle is freed.
CloseReleases ==
  careful /\ handle = "closing" ~>
    handle = "freed" /\ \A r \in asked : \E i \in 1 .. Len(heard) : heard[i][1] = r
=============================================================================
