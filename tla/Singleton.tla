------------------------------ MODULE Singleton ------------------------------
(***************************************************************************)
(* Singleton::instance and destory, called by several threads: a pointer   *)
(* that is tested without the mutex, and again with it.                    *)
(*                                                                         *)
(* The unlocked accesses race.  What the race may show of a store to the   *)
(* pointer is the choice Reorders: the store may come before those of the  *)
(* object's constructor.                                                   *)
(***************************************************************************)
EXTENDS Integers

CONSTANTS Threads,
          NoThread,
          MaxCalls,   \* bound: calls of each thread
          Reorders,   \* TRUE: the pointer may be seen before the object
          Throws      \* TRUE: create() may throw

ASSUME SingletonAssumption ==
  /\ NoThread \notin Threads
  /\ MaxCalls \in Nat /\ Reorders \in BOOLEAN /\ Throws \in BOOLEAN

VARIABLES ptr,    \* ptr_: an object, 0 for nullptr
          made,   \* objects allocated
          state,  \* of each object: "raw" (no constructor yet), "built" or "freed"
          m,      \* the thread that has locked m_, or NoThread
          pc,     \* where each thread is
          got,    \* what its last call of instance() returned, 0: nothing yet
          calls,  \* calls it has begun
          found,  \* history: its calls of destory that found an object
          fault   \* "none" or "double free"

vars == <<ptr, made, state, m, pc, got, calls, found, fault>>

\* The steps of instance() after the call, then those of destory().
Steps == {"idle", "test", "lock", "retest", "create", "publish", "construct", "unlock",
          "give_up", "return",
          "d_test", "d_lock", "d_retest", "d_unlock"}

TypeOK == /\ made \in Nat
          /\ ptr \in 0 .. made
          /\ state \in [1 .. made -> {"raw", "built", "freed"}]
          /\ m \in Threads \cup {NoThread}
          /\ pc \in [Threads -> Steps]
          /\ got \in [Threads -> 0 .. made]
          /\ calls \in [Threads -> 0 .. MaxCalls]
          /\ found \in [Threads -> Nat]
          /\ fault \in {"none", "double free"}

Init == /\ ptr = 0 /\ made = 0
        /\ state = << >>
        /\ m = NoThread
        /\ pc = [t \in Threads |-> "idle"]
        /\ got = [t \in Threads |-> 0]
        /\ calls = [t \in Threads |-> 0]
        /\ found = [t \in Threads |-> 0]
        /\ fault = "none"

At(t, here) == fault = "none" /\ pc[t] = here
Goto(t, there) == pc' = [pc EXCEPT ![t] = there]

Enter(t, there) == /\ At(t, "idle") /\ calls[t] < MaxCalls
                   /\ calls' = [calls EXCEPT ![t] = @ + 1]
                   /\ Goto(t, there)
                   /\ UNCHANGED <<ptr, made, state, m, got, found, fault>>

Instance(t) == Enter(t, "test")
Destory(t) == Enter(t, "d_test")

\* if (nullptr == ptr_), without the mutex
Test(t) == /\ At(t, "test")
           /\ Goto(t, IF ptr = 0 THEN "lock" ELSE "return")
           /\ UNCHANGED <<ptr, made, state, m, got, calls, found, fault>>

\* Faulty: destory gives up when another thread has the mutex.
MutLockTries(t) ==
  /\ At(t, "lock") \/ At(t, "d_lock")
  /\ \/ /\ m = NoThread
        /\ m' = t
        /\ Goto(t, IF pc[t] = "lock" THEN "retest" ELSE "d_retest")
     \/ m # NoThread /\ pc[t] = "d_lock" /\ UNCHANGED m /\ Goto(t, "idle")
  /\ UNCHANGED <<ptr, made, state, got, calls, found, fault>>

\* std::lock_guard in either function
Lock(t) == /\ At(t, "lock") \/ At(t, "d_lock")
           /\ m = NoThread
           /\ m' = t
           /\ Goto(t, IF pc[t] = "lock" THEN "retest" ELSE "d_retest")
           /\ UNCHANGED <<ptr, made, state, got, calls, found, fault>>

Retest(t) == /\ At(t, "retest")
             /\ Goto(t, IF ptr = 0 THEN "create" ELSE "unlock")
             /\ UNCHANGED <<ptr, made, state, m, got, calls, found, fault>>

\* CreateUsingNew::create
Create(t) ==
  /\ At(t, "create")
  /\ made' = made + 1
  /\ \E s \in {"built"} \cup (IF Reorders THEN {"raw"} ELSE {}) :
       state' = [o \in 1 .. made + 1 |-> IF o > made THEN s ELSE state[o]]
  /\ Goto(t, "publish")
  /\ UNCHANGED <<ptr, m, got, calls, found, fault>>

\* The exception unlocks, and leaves instance().
CreateThrows(t) == /\ Throws /\ At(t, "create")
                   /\ Goto(t, "give_up")
                   /\ UNCHANGED <<ptr, made, state, m, got, calls, found, fault>>

\* ptr_ = ...
Publish(t) == /\ At(t, "publish")
              /\ ptr' = made
              /\ Goto(t, IF state[made] = "raw" THEN "construct" ELSE "unlock")
              /\ UNCHANGED <<made, state, m, got, calls, found, fault>>

\* The constructor's stores, when they come late.
Construct(t) == /\ At(t, "construct")
                /\ state' = [state EXCEPT ![ptr] = "built"]
                /\ Goto(t, "unlock")
                /\ UNCHANGED <<ptr, made, m, got, calls, found, fault>>

\* Faulty: a creation that throws keeps the mutex.
MutUnlockNotOnThrow(t) ==
  /\ \E s \in {"unlock", "give_up", "d_unlock"} : At(t, s)
  /\ m' = IF pc[t] = "give_up" THEN m ELSE NoThread
  /\ Goto(t, IF pc[t] = "unlock" THEN "return" ELSE "idle")
  /\ UNCHANGED <<ptr, made, state, got, calls, found, fault>>

Unlock(t) == /\ \E s \in {"unlock", "give_up", "d_unlock"} : At(t, s)
             /\ m' = NoThread
             /\ Goto(t, IF pc[t] = "unlock" THEN "return" ELSE "idle")
             /\ UNCHANGED <<ptr, made, state, got, calls, found, fault>>

\* return ptr_, which is read once more, without the mutex
Return(t) == /\ At(t, "return")
             /\ got' = [got EXCEPT ![t] = ptr]
             /\ Goto(t, "idle")
             /\ UNCHANGED <<ptr, made, state, m, calls, found, fault>>

\* Faulty: destroys without the mutex.
MutDestoryTestUnlocked(t) ==
  /\ At(t, "d_test")
  /\ Goto(t, IF ptr = 0 THEN "idle" ELSE "d_retest")
  /\ found' = IF ptr = 0 THEN found ELSE [found EXCEPT ![t] = @ + 1]
  /\ UNCHANGED <<ptr, made, state, m, got, calls, fault>>

DestoryTest(t) == /\ At(t, "d_test")
                  /\ Goto(t, IF ptr = 0 THEN "idle" ELSE "d_lock")
                  /\ found' = IF ptr = 0 THEN found ELSE [found EXCEPT ![t] = @ + 1]
                  /\ UNCHANGED <<ptr, made, state, m, got, calls, fault>>

\* CreateUsingNew::destroy.  The pointer stays as it is.
Destroy(t) == /\ At(t, "d_retest")
              /\ IF ptr # 0 /\ state[ptr] = "freed"
                 THEN fault' = "double free" /\ UNCHANGED state
                 ELSE /\ state' = [o \in 1 .. made |-> IF o = ptr THEN "freed" ELSE state[o]]
                      /\ UNCHANGED fault
              /\ Goto(t, "d_unlock")
              /\ UNCHANGED <<ptr, made, m, got, calls, found>>

Step(t) == \/ Test(t) \/ Lock(t) \/ Retest(t) \/ Create(t) \/ CreateThrows(t)
           \/ Publish(t) \/ Construct(t) \/ Unlock(t) \/ Return(t)
           \/ DestoryTest(t) \/ Destroy(t)

Next == \E t \in Threads : Instance(t) \/ Destory(t) \/ Step(t)

Spec == Init /\ [][Next]_vars

\* Each thread goes on with a call it has begun.  Calls are few, so it is enough that
\* a mutex is taken by someone when it is free.
Fairness == \A t \in Threads : WF_vars(Step(t))

-----------------------------------------------------------------------------
\* Whatever the threads do, creations that throw and calls of destory included, one
\* object is made, and every call of instance() returns it, never a null pointer.
SameForAll ==
  /\ made <= 1
  /\ \A t \in Threads : pc[t] = "return" => ptr = 1

\* A caller can hold an object without its constructor's stores only while its
\* maker is still in the critical section, and only where stores are seen reordered.
RawForCause ==
  \A o \in 1 .. made :
    state[o] = "raw" => Reorders /\ \E t \in Threads : pc[t] \in {"publish", "construct"} /\ m = t

\* destory waits for the constructor: no object is freed that is not built.
FreesBuiltOnly == [][\A o \in 1 .. made : state[o] = "raw" => state'[o] # "freed"]_vars

\* The calls of destory by t that found an object and have had it deleted.
Ended(t) == found[t] - (IF pc[t] \in {"d_lock", "d_retest"} THEN 1 ELSE 0)

\* The object is freed as soon as one call of destory that found it has deleted it, and
\* by nothing else; from then on instance() returns it freed, and makes no other, since
\* ptr_ is kept.  It is freed twice when a second call has come so far, of the same
\* thread or of another, one at a time or both past the first test at once, and never
\* otherwise: while one call of destory at most finds the object, there is no double free.
FreedForCause ==
  /\ \A o \in 1 .. made : state[o] = "freed" <=> \E t \in Threads : Ended(t) > 0
  /\ fault = "double free" <=>
       \/ \E t \in Threads : Ended(t) > 1
       \/ \E t, u \in Threads : t # u /\ Ended(t) > 0 /\ Ended(u) > 0

\* All calls of instance(), by whatever threads, return the one object: about to be built
\* by the thread that has the mutex, built, or, exactly from the first destory that found
\* it on, freed.  destory frees nothing that is not built, and nothing twice unless two
\* calls of it have found the object.
SingletonSound ==
  [](TypeOK /\ SameForAll /\ RawForCause /\ FreedForCause) /\ FreesBuiltOnly

\* Every call returns or throws, however the threads meet at the mutex, unless the
\* run has ended in a fault.
CallsEnd == \A t \in Threads : pc[t] # "idle" ~> pc[t] = "idle" \/ fault # "none"
=============================================================================
