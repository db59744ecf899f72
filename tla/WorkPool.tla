------------------------------ MODULE WorkPool ------------------------------
(***************************************************************************)
(* pool::run: work that a thread of libuv's pool does, and the callback    *)
(* that the loop calls when it is done.  A request owns three allocations, *)
(* which pass from the loop to a worker and back: the parameters of the    *)
(* work, its result, and the uv_work_t with the table of both callbacks.   *)
(***************************************************************************)
EXTENDS Integers, Sequences

CONSTANTS Requests,     \* the calls of run
          Workers,      \* the threads of the pool
          WorkEnds,     \* how work ends: "value", "void" (a result type of void), "throws"
          OverEnds,     \* how over_cb ends: "returns", "libra" (throws an Exception), "other"
          QueueErrors,  \* TRUE: uv_queue_work may fail
          None          \* no request

ASSUME PoolAssumption == /\ WorkEnds \subseteq {"value", "void", "throws"}
                         /\ OverEnds \subseteq {"returns", "libra", "other"}
                         /\ QueueErrors \in BOOLEAN
                         /\ None \notin Requests

VARIABLES stage,    \* "new", "refused", "queued", "working", "finished", "over" or "done"
          params,   \* the tuple of arguments: "none", "live" or "freed"
          result,   \* what the work returned, likewise
          req,      \* the uv_work_t, likewise
          outcome,  \* history: how the work ended, "none" until it has
          queue,    \* requests no worker has taken
          working,  \* the request of each worker, or None
          finished, \* requests worked off, of which the loop has yet to hear
          heard,    \* history: <<request, request of the over_cb called>>
          broken    \* what ended the run: "none", "double free" or "escaped"

memory == <<params, result, req>>
poolVars == <<stage, memory, outcome, queue, working, finished, heard, broken>>

Memory == {"none", "live", "freed"}

PoolTypeOK ==
  /\ stage \in [Requests -> {"new", "refused", "queued", "working",
                             "finished", "over", "done"}]
  /\ {params, result, req} \subseteq [Requests -> Memory]
  /\ outcome \in [Requests -> {"none", "value", "void", "throws"}]
  /\ queue \in Seq(Requests) /\ finished \in Seq(Requests)
  /\ working \in [Workers -> Requests \cup {None}]
  /\ heard \in Seq(Requests \X Requests)
  /\ broken \in {"none", "double free", "escaped"}

PoolInit ==
  /\ stage = [r \in Requests |-> "new"]
  /\ params = [r \in Requests |-> "none"]
  /\ result = params /\ req = params
  /\ outcome = [r \in Requests |-> "none"]
  /\ queue = << >> /\ finished = << >>
  /\ working = [w \in Workers |-> None]
  /\ heard = << >>
  /\ broken = "none"

-----------------------------------------------------------------------------
(* The loop's thread: run, called from anywhere in it, over callbacks included *)

Allocate(r) == /\ broken = "none" /\ stage[r] = "new"
             /\ params' = [params EXCEPT ![r] = "live"]
             /\ req' = [req EXCEPT ![r] = "live"]
             /\ UNCHANGED <<result, outcome, working, finished, heard, broken>>

\* Faulty: queues the request again.
MutRunTwice(r) == /\ Allocate(r)
                  /\ queue' = queue \o <<r, r>>
                  /\ stage' = [stage EXCEPT ![r] = "queued"]

Run(r) == /\ Allocate(r)
          /\ queue' = Append(queue, r)
          /\ stage' = [stage EXCEPT ![r] = "queued"]

\* UVLibException leaves the request behind.
RunThrows(r) == /\ QueueErrors /\ Allocate(r)
                /\ stage' = [stage EXCEPT ![r] = "refused"]
                /\ UNCHANGED queue

-----------------------------------------------------------------------------
(* The workers *)

Take(w) == /\ broken = "none" /\ working[w] = None /\ queue # << >>
           /\ working' = [working EXCEPT ![w] = Head(queue)]
           /\ stage' = [stage EXCEPT ![Head(queue)] = "working"]
           /\ queue' = Tail(queue)
           /\ UNCHANGED <<memory, outcome, finished, heard, broken>>

\* Faulty: the object made for the result is passed on although the work threw.
MutInvokeWorkPasses(r, how) ==
  /\ outcome' = [outcome EXCEPT ![r] = how]
  /\ result' = [result EXCEPT ![r] = IF how = "void" THEN @ ELSE "live"]
  /\ params' = [params EXCEPT ![r] = "freed"]

\* invoke_work, which lets no exception out: work that throws has no result.
InvokeWork(r, how) ==
  /\ outcome' = [outcome EXCEPT ![r] = how]
  /\ result' = [result EXCEPT ![r] = IF how = "value" THEN "live" ELSE @]
  /\ params' = [params EXCEPT ![r] = "freed"]

Work(w) == /\ broken = "none" /\ working[w] # None
           /\ \E how \in WorkEnds : InvokeWork(working[w], how)
           /\ working' = [working EXCEPT ![w] = None]
           /\ stage' = [stage EXCEPT ![working[w]] = "finished"]
           /\ finished' = Append(finished, working[w])
           /\ UNCHANGED <<req, queue, heard, broken>>

-----------------------------------------------------------------------------
(* The loop's thread: invoke_over *)

InOver(r) == stage[r] = "over"

\* libuv calls over for the requests worked off, in that order, with error 0.
Over == /\ broken = "none" /\ finished # << >>
        /\ \A r \in Requests : ~InOver(r)
        /\ stage' = [stage EXCEPT ![Head(finished)] = "over"]
        /\ heard' = Append(heard, <<Head(finished), Head(finished)>>)
        /\ finished' = Tail(finished)
        /\ UNCHANGED <<memory, outcome, queue, working, broken>>

Delete(r) ==
  /\ stage' = [stage EXCEPT ![r] = "done"]
  /\ result' = [result EXCEPT ![r] = IF @ = "live" THEN "freed" ELSE @]
  /\ req' = [req EXCEPT ![r] = "freed"]
  /\ broken' = "none"

OverReturns(r) == /\ "returns" \in OverEnds /\ broken = "none" /\ InOver(r)
                  /\ Delete(r)
                  /\ UNCHANGED <<params, outcome, queue, working, finished, heard>>

\* The Exception is caught and logged; but a result is deleted three times.
OverThrowsLibra(r) ==
  /\ "libra" \in OverEnds /\ broken = "none" /\ InOver(r)
  /\ IF result[r] = "live"
     THEN /\ result' = [result EXCEPT ![r] = "freed"]
          /\ broken' = "double free"
          /\ UNCHANGED <<stage, req>>
     ELSE Delete(r)
  /\ UNCHANGED <<params, outcome, queue, working, finished, heard>>

\* Nothing catches it: it goes through libuv, and nothing is deleted.
OverThrowsOther(r) ==
  /\ "other" \in OverEnds /\ broken = "none" /\ InOver(r)
  /\ broken' = "escaped"
  /\ UNCHANGED <<stage, memory, outcome, queue, working, finished, heard>>

PoolNext == \/ \E r \in Requests : \/ Run(r) \/ RunThrows(r)
                               \/ OverReturns(r) \/ OverThrowsLibra(r) \/ OverThrowsOther(r)
        \/ \E w \in Workers : Take(w) \/ Work(w)
        \/ Over

PoolSpec == PoolInit /\ [][PoolNext]_poolVars

\* The threads of the pool and the loop run, and the application's code returns.
PoolFairness ==
  /\ \A w \in Workers : WF_poolVars(Take(w)) /\ WF_poolVars(Work(w))
  /\ WF_poolVars(Over) /\ \A r \in Requests : WF_poolVars(OverReturns(r))

-----------------------------------------------------------------------------
\* What the worker and the over callback use is theirs: the parameters live until the
\* work is done, the request and the result until over_cb has returned.
UsedIsLive ==
  \A r \in Requests :
    /\ stage[r] \in {"queued", "working"} => params[r] = "live"
    /\ stage[r] \in {"queued", "working", "finished", "over"} => req[r] = "live"
    /\ stage[r] \in {"finished", "over"} /\ outcome[r] = "value" => result[r] # "none"

\* over_cb gets a null pointer only for work without a result: its error is 0 for
\* work that threw, too, and the pointer all that tells (if the type is not void).
NullForCause ==
  \A r \in Requests : InOver(r) => (result[r] = "none" <=> outcome[r] \in {"void", "throws"})

\* Of a request that is over nothing is left, whatever the work and over_cb threw;
\* only one that could not be queued, or whose over_cb let out what is no Exception,
\* leaks.
LeakForCause ==
  \A r \in Requests :
    /\ stage[r] = "done" => "live" \notin {params[r], result[r], req[r]}
    /\ stage[r] \in {"finished", "over"} => params[r] = "freed"

\* A result is deleted twice only when over_cb of a request with a result throws.
FaultForCause ==
  broken = "double free" => \E r \in Requests : InOver(r) /\ outcome[r] = "value"

\* Whatever work and over callbacks throw, each allocation of a request has one owner,
\* who frees it; what is missing, left or freed twice has its reason.
OwnershipSound == /\ PoolTypeOK
                  /\ UsedIsLive
                  /\ NullForCause
                  /\ LeakForCause
                  /\ FaultForCause

Promise == INSTANCE Completion
             WITH asked <- {r \in Requests : stage[r] \notin {"new", "refused"}}

\* Each request that was queued is answered at most once, by its own callback; and in
\* the end it is, unless an over callback has broken the run by what it threw.
Answered == /\ Promise!Spec
            /\ \A r \in Requests : stage[r] = "queued" ~> Promise!Heard(r) \/ broken # "none"
=============================================================================
