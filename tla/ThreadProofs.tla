----------------------------- MODULE ThreadProofs -----------------------------
(***************************************************************************)
(* For any set of requests and workers: who owns what a request has        *)
(* allocated, when a result is missing or deleted twice, and that each     *)
(* request is answered by its own callback, once.                          *)
(*                                                                         *)
(* For any number of threads and calls: one singleton is made, all callers *)
(* get it, an unfinished one is seen only while its maker holds the mutex, *)
(* and none is freed before it is built.                                   *)
(***************************************************************************)
EXTENDS WorkPool, Singleton, SequenceTheorems, TLAPS

-----------------------------------------------------------------------------
(* Lines of requests *)

Members(s) == {s[i] : i \in 1 .. Len(s)}
Distinct(s) == \A i, j \in 1 .. Len(s) : s[i] = s[j] => i = j

\* A request that joins a line it is not in stands in it once.
LEMMA Join ==
  ASSUME NEW s \in Seq(Requests), NEW r \in Requests, Distinct(s), r \notin Members(s)
  PROVE  /\ Append(s, r) \in Seq(Requests)
         /\ Distinct(Append(s, r))
         /\ Members(Append(s, r)) = Members(s) \cup {r}
<1> DEFINE a == Append(s, r)
<1>1. /\ a \in Seq(Requests) /\ Len(a) = Len(s) + 1
      /\ \A i \in 1 .. Len(s) : a[i] = s[i]
      /\ a[Len(s) + 1] = r
      /\ Len(s) \in Nat
  BY AppendProperties
<1> HIDE DEF a
<1>2. 1 .. Len(a) = (1 .. Len(s)) \cup {Len(s) + 1}
  BY <1>1
<1>3. Members(a) = Members(s) \cup {r}
  BY <1>1, <1>2 DEF Members
<1>4. Distinct(a)
  BY <1>1, <1>2 DEF Distinct, Members
<1> QED  BY <1>1, <1>3, <1>4 DEF a

\* The first of a line leaves it.
LEMMA Leave ==
  ASSUME NEW s \in Seq(Requests), s # << >>, Distinct(s)
  PROVE  /\ Head(s) \in Requests /\ Head(s) \in Members(s)
         /\ Tail(s) \in Seq(Requests)
         /\ Distinct(Tail(s))
         /\ Members(Tail(s)) = Members(s) \ {Head(s)}
<1> DEFINE t == Tail(s)
<1>1. /\ Head(s) \in Requests /\ Head(s) = s[1]
      /\ t \in Seq(Requests) /\ Len(t) = Len(s) - 1
      /\ \A i \in 1 .. Len(t) : t[i] = s[i + 1]
      /\ Len(s) \in Nat /\ Len(s) >= 1
  BY HeadTailProperties, EmptySeq
<1> HIDE DEF t
<1>2. \A i \in 1 .. Len(t) : i + 1 \in 1 .. Len(s) /\ i + 1 # 1
  BY <1>1
<1>3. \A i \in 1 .. Len(s) : i = 1 \/ (i - 1 \in 1 .. Len(t) /\ t[i - 1] = s[i])
  BY <1>1
<1>4. Distinct(t)
  BY <1>1, <1>2 DEF Distinct
<1>5. Members(t) \subseteq Members(s) \ {s[1]}
  BY <1>1, <1>2 DEF Distinct, Members
<1>6. Members(s) \ {s[1]} \subseteq Members(t)
  BY <1>3 DEF Members
<1>7. s[1] \in Members(s)
  BY <1>1 DEF Members
<1> QED  BY <1>1, <1>4, <1>5, <1>6, <1>7 DEF t

-----------------------------------------------------------------------------
\* A request is in one place, which is where its stage says.
Placed == /\ Distinct(queue) /\ Members(queue) = {r \in Requests : stage[r] = "queued"}
          /\ Distinct(finished) /\ Members(finished) = {r \in Requests : stage[r] = "finished"}
          /\ \A w \in Workers : working[w] # None => stage[working[w]] = "working"
          /\ \A v, w \in Workers : working[v] = working[w] /\ working[w] # None => v = w
          /\ \A i \in 1 .. Len(heard) : stage[heard[i][1]] \in {"over", "done"}

\* The memory a request has on its way.
HasResult(r) == outcome[r] = "value"

Owns(r) ==
  /\ stage[r] = "new" => params[r] = "none" /\ req[r] = "none"
  /\ stage[r] \in {"refused", "queued", "working"} => params[r] = "live" /\ req[r] = "live"
  /\ stage[r] \in {"new", "refused", "queued", "working"} => result[r] = "none"
  /\ stage[r] \in {"finished", "over", "done"} => params[r] = "freed" /\ outcome[r] # "none"
  /\ stage[r] \in {"finished", "over"} =>
       /\ req[r] = "live"
       /\ ~HasResult(r) => result[r] = "none"
       /\ HasResult(r) =>
            result[r] = "live" \/ (stage[r] = "over" /\ broken = "double free" /\ result[r] = "freed")
  /\ stage[r] = "done" => req[r] = "freed" /\ result[r] # "live"

PoolIInv == /\ PoolTypeOK
            /\ Placed
            /\ \A r \in Requests : Owns(r)
            /\ FaultForCause

LEMMA PoolInitIInv == PoolInit => PoolIInv
<1> SUFFICES ASSUME PoolInit PROVE PoolIInv
  OBVIOUS
<1>1. PoolTypeOK
  <2>1. << >> \in Seq(Requests) /\ << >> \in Seq(Requests \X Requests)
    BY EmptySeq
  <2>2. {params, result, req} \subseteq [Requests -> Memory]
    BY DEF PoolInit, Memory
  <2> QED  BY <2>1, <2>2 DEF PoolInit, PoolTypeOK
<1>2. Placed
  BY PoolAssumption DEF PoolInit, Placed, Members, Distinct
<1>3. \A r \in Requests : Owns(r)
  BY DEF PoolInit, Owns, HasResult
<1> QED  BY <1>1, <1>2, <1>3 DEF PoolIInv, PoolInit, FaultForCause

\* What the lines, the workers and the history name are requests.
LEMMA Named ==
  ASSUME PoolTypeOK
  PROVE  /\ \A v \in Workers : working[v] # None => working[v] \in Requests
         /\ \A i \in 1 .. Len(heard) :
              heard[i] \in Requests \X Requests /\ heard[i][1] \in Requests
<1>1. \A v \in Workers : working[v] # None => working[v] \in Requests
  BY DEF PoolTypeOK
<1>2. ASSUME NEW i \in 1 .. Len(heard) PROVE heard[i] \in Requests \X Requests
  <2>1. heard \in Seq(Requests \X Requests)
    BY DEF PoolTypeOK
  <2> QED  BY <2>1, ElementOfSeq
<1> QED  BY <1>1, <1>2

-----------------------------------------------------------------------------
LEMMA RunIInv ==
  ASSUME PoolIInv, NEW r \in Requests, Run(r) \/ RunThrows(r)
  PROVE  PoolIInv'
<1> USE DEF PoolIInv
<1>1. /\ broken = "none" /\ stage[r] = "new"
      /\ params' = [params EXCEPT ![r] = "live"] /\ req' = [req EXCEPT ![r] = "live"]
      /\ UNCHANGED <<result, outcome, working, finished, heard, broken>>
  BY DEF Run, RunThrows, Allocate
<1>2. PICK there \in {"queued", "refused"} :
        /\ stage' = [stage EXCEPT ![r] = there]
        /\ there = "queued" => queue' = Append(queue, r)
        /\ there = "refused" => queue' = queue
  BY DEF Run, RunThrows
<1>3. Owns(r) /\ r \notin Members(queue) /\ queue \in Seq(Requests) /\ Distinct(queue)
  BY <1>1 DEF Placed, PoolTypeOK
<1>4. /\ Append(queue, r) \in Seq(Requests)
      /\ Distinct(Append(queue, r))
      /\ Members(Append(queue, r)) = Members(queue) \cup {r}
  BY <1>3, Join
<1>5. /\ stage'[r] = there /\ params'[r] = "live" /\ req'[r] = "live"
      /\ \A q \in Requests : q # r =>
           stage'[q] = stage[q] /\ params'[q] = params[q] /\ req'[q] = req[q]
  BY <1>1, <1>2 DEF PoolTypeOK
<1>6. PoolTypeOK'
  <2>1. params' \in [Requests -> Memory] /\ req' \in [Requests -> Memory]
    BY <1>1 DEF PoolTypeOK, Memory
  <2>2. queue' \in Seq(Requests)
    BY <1>2, <1>3, <1>4
  <2> QED  BY <1>1, <1>2, <2>1, <2>2 DEF PoolTypeOK
<1>7. Placed'
  <2>1. Distinct(queue') /\ Members(queue') = {q \in Requests : stage'[q] = "queued"}
    <3>1. Members(queue) = {q \in Requests : stage[q] = "queued"}
      BY DEF Placed
    <3>2. CASE there = "queued"
      BY <3>1, <3>2, <1>2, <1>4, <1>5
    <3>3. CASE there = "refused"
      BY <3>1, <3>3, <1>1, <1>2, <1>3, <1>5
    <3> QED  BY <3>2, <3>3
  <2>2. Distinct(finished') /\ Members(finished') = {q \in Requests : stage'[q] = "finished"}
    BY <1>1, <1>2, <1>5 DEF Placed
  <2>3. \A w \in Workers : working[w] # None => working[w] \in Requests /\ working[w] # r
    BY <1>1, Named DEF Placed
  <2>4. \A i \in 1 .. Len(heard) : heard[i][1] \in Requests /\ heard[i][1] # r
    BY <1>1, Named DEF Placed
  <2> QED  BY <1>1, <1>5, <2>1, <2>2, <2>3, <2>4 DEF Placed
<1>8. ASSUME NEW q \in Requests PROVE Owns(q)'
  BY <1>1, <1>2, <1>3, <1>5 DEF Owns, HasResult
<1>9. FaultForCause'
  BY <1>1 DEF FaultForCause
<1> QED  BY <1>6, <1>7, <1>8, <1>9

LEMMA TakeIInv ==
  ASSUME PoolIInv, NEW w \in Workers, Take(w)
  PROVE  PoolIInv'
<1> USE DEF PoolIInv
<1> DEFINE r == Head(queue)
<1>1. /\ broken = "none" /\ working[w] = None /\ queue # << >>
      /\ working' = [working EXCEPT ![w] = r]
      /\ stage' = [stage EXCEPT ![r] = "working"]
      /\ queue' = Tail(queue)
      /\ UNCHANGED <<params, result, req, outcome, finished, heard, broken>>
  BY DEF Take, memory
<1>2. /\ r \in Requests /\ r \in Members(queue)
      /\ Tail(queue) \in Seq(Requests)
      /\ Distinct(Tail(queue))
      /\ Members(Tail(queue)) = Members(queue) \ {r}
  BY <1>1, Leave DEF PoolTypeOK, Placed
<1>3. stage[r] = "queued"
  BY <1>2 DEF Placed
<1> HIDE DEF r
<1>5. /\ stage'[r] = "working"
      /\ \A q \in Requests : q # r => stage'[q] = stage[q]
      /\ working'[w] = r /\ \A v \in Workers : v # w => working'[v] = working[v]
  BY <1>1, <1>2 DEF PoolTypeOK
<1>6. PoolTypeOK'
  BY <1>1, <1>2 DEF PoolTypeOK
<1>7. Placed'
  <2>1. Distinct(queue') /\ Members(queue') = {q \in Requests : stage'[q] = "queued"}
    BY <1>1, <1>2, <1>5 DEF Placed
  <2>2. Distinct(finished') /\ Members(finished') = {q \in Requests : stage'[q] = "finished"}
    BY <1>1, <1>2, <1>3, <1>5 DEF Placed
  <2>3. \A v \in Workers : working[v] # None => working[v] \in Requests /\ working[v] # r
    BY <1>3, Named DEF Placed
  <2>4. \A i \in 1 .. Len(heard) : heard[i][1] \in Requests /\ heard[i][1] # r
    BY <1>3, Named DEF Placed
  <2> QED  BY <1>1, <1>5, <2>1, <2>2, <2>3, <2>4 DEF Placed
<1>8. ASSUME NEW q \in Requests PROVE Owns(q)'
  BY <1>1, <1>2, <1>3, <1>5 DEF Owns, HasResult
<1>9. FaultForCause'
  BY <1>1 DEF FaultForCause
<1> QED  BY <1>6, <1>7, <1>8, <1>9

LEMMA WorkIInv ==
  ASSUME PoolIInv, NEW w \in Workers, Work(w)
  PROVE  PoolIInv'
<1> USE DEF PoolIInv
<1> DEFINE r == working[w]
<1>1. /\ broken = "none" /\ r # None
      /\ working' = [working EXCEPT ![w] = None]
      /\ stage' = [stage EXCEPT ![r] = "finished"]
      /\ finished' = Append(finished, r)
      /\ UNCHANGED <<req, queue, heard, broken>>
  BY DEF Work
<1>2. PICK how \in WorkEnds :
        /\ outcome' = [outcome EXCEPT ![r] = how]
        /\ result' = [result EXCEPT ![r] = IF how = "value" THEN "live" ELSE result[r]]
        /\ params' = [params EXCEPT ![r] = "freed"]
  BY DEF Work, InvokeWork
<1>3. /\ r \in Requests /\ stage[r] = "working"
      /\ how \in {"value", "void", "throws"}
      /\ \A v \in Workers : v # w => working[v] # r
  BY <1>1, PoolAssumption DEF Placed, PoolTypeOK
<1>4. Owns(r)
  BY <1>3
<1> HIDE DEF r
<1>5. /\ Append(finished, r) \in Seq(Requests)
      /\ Distinct(Append(finished, r))
      /\ Members(Append(finished, r)) = Members(finished) \cup {r}
  BY <1>3, Join DEF Placed, PoolTypeOK
<1>6. /\ stage'[r] = "finished" /\ params'[r] = "freed" /\ outcome'[r] = how
      /\ result'[r] = IF how = "value" THEN "live" ELSE result[r]
      /\ \A q \in Requests : q # r =>
           /\ stage'[q] = stage[q] /\ params'[q] = params[q]
           /\ outcome'[q] = outcome[q] /\ result'[q] = result[q]
      /\ working'[w] = None /\ \A v \in Workers : v # w => working'[v] = working[v]
  BY <1>1, <1>2, <1>3 DEF PoolTypeOK
<1>7. PoolTypeOK'
  <2>1. result' \in [Requests -> Memory] /\ params' \in [Requests -> Memory]
    BY <1>2, <1>3 DEF PoolTypeOK, Memory
  <2> QED  BY <1>1, <1>2, <1>3, <1>5, <2>1 DEF PoolTypeOK
<1>8. Placed'
  <2>1. Distinct(queue') /\ Members(queue') = {q \in Requests : stage'[q] = "queued"}
    BY <1>1, <1>3, <1>6 DEF Placed
  <2>2. Distinct(finished') /\ Members(finished') = {q \in Requests : stage'[q] = "finished"}
    BY <1>1, <1>3, <1>5, <1>6 DEF Placed
  <2>4. \A i \in 1 .. Len(heard) : heard[i][1] \in Requests /\ heard[i][1] # r
    BY <1>3, Named DEF Placed
  <2>5. \A v \in Workers : working'[v] # None => stage'[working'[v]] = "working"
    <3>1. ASSUME NEW v \in Workers, v # w, working[v] # None PROVE stage'[working[v]] = "working"
      <4>1. working[v] \in Requests /\ working[v] # r /\ stage[working[v]] = "working"
        BY <3>1, <1>3, Named DEF Placed
      <4> QED  BY <4>1, <1>6
    <3> QED  BY <3>1, <1>6
  <2>6. \A u, v \in Workers : working'[u] = working'[v] /\ working'[u] # None => u = v
    BY <1>6 DEF Placed
  <2> QED  BY <1>1, <1>6, <2>1, <2>2, <2>4, <2>5, <2>6 DEF Placed
<1>9. ASSUME NEW q \in Requests PROVE Owns(q)'
  BY <1>1, <1>3, <1>4, <1>6 DEF Owns, HasResult
<1>10. FaultForCause'
  BY <1>1 DEF FaultForCause
<1> QED  BY <1>7, <1>8, <1>9, <1>10

LEMMA OverIInv ==
  ASSUME PoolIInv, Over
  PROVE  PoolIInv'
<1> USE DEF PoolIInv
<1> DEFINE r == Head(finished)
<1>1. /\ broken = "none" /\ finished # << >>
      /\ stage' = [stage EXCEPT ![r] = "over"]
      /\ heard' = Append(heard, <<r, r>>)
      /\ finished' = Tail(finished)
      /\ UNCHANGED <<params, result, req, outcome, queue, working, broken>>
  BY DEF Over, memory
<1>2. /\ r \in Requests /\ r \in Members(finished)
      /\ Tail(finished) \in Seq(Requests)
      /\ Distinct(Tail(finished))
      /\ Members(Tail(finished)) = Members(finished) \ {r}
  BY <1>1, Leave DEF PoolTypeOK, Placed
<1>3. stage[r] = "finished"
  BY <1>2 DEF Placed
<1>4. Owns(r)
  BY <1>2
<1> HIDE DEF r
<1>5. /\ stage'[r] = "over"
      /\ \A q \in Requests : q # r => stage'[q] = stage[q]
  BY <1>1, <1>2 DEF PoolTypeOK
<1>6. /\ heard' \in Seq(Requests \X Requests) /\ Len(heard') = Len(heard) + 1
      /\ \A i \in 1 .. Len(heard) : heard'[i] = heard[i]
      /\ heard'[Len(heard) + 1] = <<r, r>>
      /\ Len(heard) \in Nat
  BY <1>1, <1>2, AppendProperties DEF PoolTypeOK
<1>7. PoolTypeOK'
  BY <1>1, <1>2, <1>6 DEF PoolTypeOK
<1>8. Placed'
  <2>1. Distinct(queue') /\ Members(queue') = {q \in Requests : stage'[q] = "queued"}
    BY <1>1, <1>2, <1>3, <1>5 DEF Placed
  <2>2. Distinct(finished') /\ Members(finished') = {q \in Requests : stage'[q] = "finished"}
    BY <1>1, <1>2, <1>3, <1>5 DEF Placed
  <2>3. \A v \in Workers : working[v] # None => working[v] \in Requests /\ working[v] # r
    BY <1>3, Named DEF Placed
  <2>4. ASSUME NEW i \in 1 .. Len(heard') PROVE stage'[heard'[i][1]] \in {"over", "done"}
    <3>1. CASE i = Len(heard) + 1
      BY <3>1, <1>5, <1>6
    <3>2. CASE i \in 1 .. Len(heard)
      <4>1. heard[i] \in Requests \X Requests
        BY <3>2, Named
      <4> QED  BY <3>2, <4>1, <1>5, <1>6 DEF Placed
    <3> QED  BY <3>1, <3>2, <1>6
  <2> QED  BY <1>1, <1>5, <2>1, <2>2, <2>3, <2>4 DEF Placed
<1>9. ASSUME NEW q \in Requests PROVE Owns(q)'
  BY <1>1, <1>2, <1>3, <1>4, <1>5 DEF Owns, HasResult
<1>10. FaultForCause'
  BY <1>1 DEF FaultForCause
<1> QED  BY <1>7, <1>8, <1>9, <1>10

LEMMA OverEndsIInv ==
  ASSUME PoolIInv, NEW r \in Requests, OverReturns(r) \/ OverThrowsLibra(r) \/ OverThrowsOther(r)
  PROVE  PoolIInv'
<1> USE DEF PoolIInv
<1>1. /\ broken = "none" /\ stage[r] = "over" /\ Owns(r)
      /\ UNCHANGED <<params, outcome, queue, working, finished, heard>>
  BY DEF OverReturns, OverThrowsLibra, OverThrowsOther, InOver, memory
<1>2. CASE Delete(r)
  <2>1. /\ stage' = [stage EXCEPT ![r] = "done"]
        /\ result' = [result EXCEPT ![r] = IF result[r] = "live" THEN "freed" ELSE result[r]]
        /\ req' = [req EXCEPT ![r] = "freed"]
        /\ broken' = "none"
    BY <1>2 DEF Delete
  <2>2. /\ stage'[r] = "done" /\ result'[r] # "live" /\ req'[r] = "freed"
        /\ \A q \in Requests : q # r =>
             stage'[q] = stage[q] /\ result'[q] = result[q] /\ req'[q] = req[q]
    BY <2>1 DEF PoolTypeOK
  <2>3. PoolTypeOK'
    <3>1. result' \in [Requests -> Memory] /\ req' \in [Requests -> Memory]
      BY <2>1 DEF PoolTypeOK, Memory
    <3> QED  BY <1>1, <2>1, <3>1 DEF PoolTypeOK
  <2>4. Placed'
    <3>1. Members(queue') = {q \in Requests : stage'[q] = "queued"}
      BY <1>1, <2>2 DEF Placed
    <3>2. Members(finished') = {q \in Requests : stage'[q] = "finished"}
      BY <1>1, <2>2 DEF Placed
    <3>3. \A v \in Workers : working[v] # None => working[v] \in Requests /\ working[v] # r
      BY <1>1, Named DEF Placed
    <3>4. \A i \in 1 .. Len(heard) : heard[i][1] \in Requests
      BY Named
    <3> QED  BY <1>1, <2>2, <3>1, <3>2, <3>3, <3>4 DEF Placed
  <2>5. ASSUME NEW q \in Requests PROVE Owns(q)'
    BY <1>1, <2>1, <2>2 DEF Owns, HasResult
  <2> QED  BY <2>1, <2>3, <2>4, <2>5 DEF FaultForCause
<1>3. CASE /\ OverThrowsLibra(r)
           /\ result[r] = "live" /\ result' = [result EXCEPT ![r] = "freed"]
           /\ broken' = "double free" /\ UNCHANGED <<stage, req>>
  <2>1. result'[r] = "freed" /\ \A q \in Requests : q # r => result'[q] = result[q]
    BY <1>3 DEF PoolTypeOK
  <2>2. PoolTypeOK'
    <3>1. result' \in [Requests -> Memory]
      BY <1>3 DEF PoolTypeOK, Memory
    <3> QED  BY <1>1, <1>3, <3>1 DEF PoolTypeOK
  <2>3. Placed'
    BY <1>1, <1>3 DEF Placed
  <2>4. HasResult(r)
    BY <1>1, <1>3 DEF Owns
  <2>5. ASSUME NEW q \in Requests PROVE Owns(q)'
    <3>0. Owns(q)
      OBVIOUS
    <3>1. CASE q = r
      BY <3>0, <3>1, <1>1, <1>3, <2>1, <2>4 DEF Owns, HasResult
    <3>2. CASE q # r
      BY <3>0, <3>2, <1>1, <1>3, <2>1 DEF Owns, HasResult
    <3> QED  BY <3>1, <3>2
  <2>6. FaultForCause'
    BY <1>1, <1>3, <2>4 DEF FaultForCause, InOver, HasResult
  <2> QED  BY <2>2, <2>3, <2>5, <2>6
<1>4. CASE OverThrowsOther(r)
  <2>1. broken' = "escaped" /\ UNCHANGED <<stage, params, result, req, outcome>>
    BY <1>4 DEF OverThrowsOther, memory
  <2>2. PoolTypeOK'
    BY <1>1, <2>1 DEF PoolTypeOK
  <2>3. Placed'
    BY <1>1, <2>1 DEF Placed
  <2>4. ASSUME NEW q \in Requests PROVE Owns(q)'
    BY <1>1, <2>1 DEF Owns, HasResult
  <2> QED  BY <2>1, <2>2, <2>3, <2>4 DEF FaultForCause
<1> QED  BY <1>2, <1>3, <1>4 DEF OverReturns, OverThrowsLibra, OverThrowsOther

LEMMA PoolNextIInv == PoolIInv /\ [PoolNext]_poolVars => PoolIInv'
<1> SUFFICES ASSUME PoolIInv, [PoolNext]_poolVars PROVE PoolIInv'
  OBVIOUS
<1>1. CASE UNCHANGED poolVars
  <2>1. PoolTypeOK'
    BY <1>1 DEF poolVars, memory, PoolIInv, PoolTypeOK
  <2>2. Placed'
    BY <1>1 DEF poolVars, PoolIInv, Placed, Members, Distinct
  <2>3. ASSUME NEW r \in Requests PROVE Owns(r)'
    BY <1>1 DEF poolVars, memory, PoolIInv, Owns, HasResult
  <2>4. FaultForCause'
    BY <1>1 DEF poolVars, PoolIInv, FaultForCause, InOver
  <2> QED  BY <2>1, <2>2, <2>3, <2>4 DEF PoolIInv
<1> QED
  BY <1>1, RunIInv, TakeIInv, WorkIInv, OverIInv, OverEndsIInv DEF PoolNext

\* PoolIInv is inductive: it holds throughout every behaviour.
THEOREM PoolInvariance == PoolSpec => []PoolIInv
  BY PoolInitIInv, PoolNextIInv, PTL DEF PoolSpec

-----------------------------------------------------------------------------
\* Stages, memory and lines are of their types.
THEOREM PoolTypeCorrect == PoolSpec => []PoolTypeOK
<1>1. PoolIInv => PoolTypeOK
  BY DEF PoolIInv
<1> QED  BY <1>1, PoolInvariance, PTL

\* A worker finds the parameters of its work, and the loop the request and its result,
\* whatever the other requests throw.
THEOREM UsedStaysLive == PoolSpec => []UsedIsLive
<1>1. PoolIInv => UsedIsLive
  BY DEF PoolIInv, UsedIsLive, Owns, HasResult
<1> QED  BY <1>1, PoolInvariance, PTL

\* over_cb gets a null pointer for work that threw or has no result, and for no other.
THEOREM NullWhenThrown == PoolSpec => []NullForCause
<1>1. ASSUME PoolIInv, NEW r \in Requests, InOver(r)
      PROVE  result[r] = "none" <=> outcome[r] \in {"void", "throws"}
  <2>1. Owns(r) /\ stage[r] = "over" /\ outcome[r] \in {"none", "value", "void", "throws"}
    BY <1>1 DEF PoolIInv, InOver, PoolTypeOK
  <2> QED  BY <2>1 DEF Owns, HasResult
<1>2. PoolIInv => NullForCause
  BY <1>1 DEF NullForCause
<1> QED  BY <1>2, PoolInvariance, PTL

\* Nothing is left of a request that is over.
THEOREM NoLeak == PoolSpec => []LeakForCause
<1>1. ASSUME PoolIInv, NEW r \in Requests
      PROVE  /\ stage[r] = "done" => "live" \notin {params[r], result[r], req[r]}
             /\ stage[r] \in {"finished", "over"} => params[r] = "freed"
  BY <1>1 DEF PoolIInv, Owns
<1>2. PoolIInv => LeakForCause
  BY <1>1 DEF LeakForCause
<1> QED  BY <1>2, PoolInvariance, PTL

\* The only double free is that of a result whose over_cb threw.
THEOREM DoubleFreeForCause == PoolSpec => []FaultForCause
<1>1. PoolIInv => FaultForCause
  BY DEF PoolIInv
<1> QED  BY <1>1, PoolInvariance, PTL

\* For any set of requests and workers, the memory of each request has one owner who
\* frees it, and what is missing or freed twice has its reason.
THEOREM Ownership == PoolSpec => []OwnershipSound
<1>1. PoolTypeOK /\ UsedIsLive /\ NullForCause /\ LeakForCause /\ FaultForCause => OwnershipSound
  BY DEF OwnershipSound
<1> QED
  BY <1>1, PoolTypeCorrect, UsedStaysLive, NullWhenThrown, NoLeak, DoubleFreeForCause, PTL

\* The pool implements the completion of requests: each that was queued is answered at
\* most once, and by its own callback.
THEOREM PoolIsCompletion == PoolSpec => Promise!Spec
<1> DEFINE taken == {r \in Requests : stage[r] \notin {"new", "refused"}}
<1>1. PoolInit => Promise!Init
  BY DEF PoolInit, Promise!Init
<1>2. PoolIInv /\ [PoolNext]_poolVars => [Promise!Next]_<<taken, heard>>
  <2> SUFFICES ASSUME PoolIInv, [PoolNext]_poolVars
               PROVE  Promise!Next \/ UNCHANGED <<taken, heard>>
    OBVIOUS
  <2>t. stage \in [Requests -> {"new", "refused", "queued", "working", "finished", "over", "done"}]
    BY DEF PoolIInv, PoolTypeOK
  <2>1. CASE UNCHANGED poolVars
    BY <2>1 DEF poolVars
  <2>2. ASSUME NEW r \in Requests, Run(r) PROVE Promise!Next
    <3>1. /\ stage[r] = "new" /\ stage' = [stage EXCEPT ![r] = "queued"] /\ heard' = heard
      BY <2>2 DEF Run, Allocate
    <3>2. r \notin taken /\ taken' = taken \cup {r}
      BY <3>1, <2>t
    <3> QED  BY <3>1, <3>2 DEF Promise!Next, Promise!Ask
  <2>3. ASSUME NEW r \in Requests, RunThrows(r) PROVE UNCHANGED <<taken, heard>>
    <3>1. /\ stage[r] = "new" /\ stage' = [stage EXCEPT ![r] = "refused"] /\ heard' = heard
      BY <2>3 DEF RunThrows, Allocate
    <3> QED  BY <3>1, <2>t
  <2>4. ASSUME NEW r, heard' = heard, r \in taken,
               \E s \in {"working", "finished", "done"} : stage' = [stage EXCEPT ![r] = s]
        PROVE  UNCHANGED <<taken, heard>>
    BY <2>4, <2>t
  <2>5. ASSUME NEW w \in Workers, Take(w) PROVE UNCHANGED <<taken, heard>>
    <3>1. Head(queue) \in Requests /\ Head(queue) \in Members(queue)
      BY <2>5, Leave DEF Take, PoolIInv, PoolTypeOK, Placed
    <3>2. Head(queue) \in taken
      BY <3>1 DEF PoolIInv, Placed
    <3> QED  BY <2>4, <2>5, <3>2 DEF Take
  <2>6. ASSUME NEW w \in Workers, Work(w) PROVE UNCHANGED <<taken, heard>>
    <3>1. working[w] \in taken
      BY <2>6, Named DEF Work, PoolIInv, Placed
    <3> QED  BY <2>4, <2>6, <3>1 DEF Work
  <2>7. ASSUME NEW r \in Requests, OverReturns(r) \/ OverThrowsLibra(r) \/ OverThrowsOther(r)
        PROVE  UNCHANGED <<taken, heard>>
    <3>1. heard' = heard /\ r \in taken
      BY <2>7 DEF OverReturns, OverThrowsLibra, OverThrowsOther, InOver
    <3>2. stage' = [stage EXCEPT ![r] = "done"] \/ stage' = stage
      BY <2>7 DEF OverReturns, OverThrowsLibra, OverThrowsOther, Delete
    <3> QED  BY <2>4, <3>1, <3>2
  <2>8. ASSUME Over PROVE Promise!Next
    <3> DEFINE r == Head(finished)
    <3>1. r \in Requests /\ r \in Members(finished)
      BY <2>8, Leave DEF Over, PoolIInv, PoolTypeOK, Placed
    <3>2. r \in taken /\ stage[r] = "finished"
      BY <3>1 DEF PoolIInv, Placed
    <3>3. ~Promise!Heard(r)
      BY <3>2 DEF PoolIInv, Placed, Promise!Heard
    <3>4. heard' = Append(heard, <<r, r>>) /\ stage' = [stage EXCEPT ![r] = "over"]
      BY <2>8 DEF Over
    <3> HIDE DEF r
    <3>5. taken' = taken
      BY <3>1, <3>2, <3>4, <2>t
    <3> QED  BY <3>1, <3>2, <3>3, <3>4, <3>5 DEF Promise!Next, Promise!Answer
  <2> QED  BY <2>1, <2>2, <2>3, <2>5, <2>6, <2>7, <2>8 DEF PoolNext
<1> QED  BY <1>1, <1>2, PoolInvariance, PTL DEF PoolSpec, Promise!Spec

-----------------------------------------------------------------------------
(* The singleton *)

\* Where a thread holds the mutex.
Critical == {"retest", "create", "publish", "construct", "unlock", "give_up",
             "d_retest", "d_unlock"}

\* A thread in a critical section is the one the mutex belongs to.
Exclusion == \A t \in Threads : pc[t] \in Critical => m = t

\* At most one object.  Between its creation and the store to ptr_ its maker is in the
\* critical section, and until its constructor's stores are seen, too.
OneObject == /\ made <= 1
             /\ ptr < made => \E t \in Threads : pc[t] = "publish"
             /\ \A o \in 1 .. made :
                  state[o] = "raw" =>
                    Reorders /\ \E t \in Threads : pc[t] \in {"publish", "construct"}

\* What a thread knows where it is: that there is no object yet, that there is one
\* and ptr_ does not show it yet, or that ptr_ does.
Knows(t) == /\ pc[t] = "create" => made = 0
            /\ pc[t] = "publish" => made = 1 /\ ptr = 0
            /\ pc[t] \in {"construct", "unlock", "return", "d_lock", "d_retest"} => ptr = 1
            /\ pc[t] = "construct" => state[1] = "raw"

\* A call of destory that is past its test has counted itself, and only an object that
\* is there is found.
Counted(t) == /\ pc[t] \in {"d_lock", "d_retest"} => found[t] > 0
              /\ found[t] > 0 => ptr = 1

SingletonIInv == /\ TypeOK
                 /\ Exclusion
                 /\ OneObject
                 /\ \A t \in Threads : Knows(t)
                 /\ \A t \in Threads : Counted(t)
                 /\ FreedForCause

LEMMA SingletonInitIInv == Init => SingletonIInv
<1> SUFFICES ASSUME Init PROVE SingletonIInv
  OBVIOUS
<1>1. TypeOK /\ Exclusion /\ OneObject /\ \A t \in Threads : Knows(t)
  BY SingletonAssumption, SMT DEF Init, TypeOK, Steps, Exclusion, Critical, OneObject, Knows
<1>2. \A t \in Threads : Counted(t) /\ Ended(t) = 0
  BY DEF Init, Counted, Ended
<1>3. FreedForCause
  BY <1>2 DEF Init, FreedForCause
<1> QED  BY <1>1, <1>2, <1>3 DEF SingletonIInv

\* As many calls of destory have deleted as have found the object and are past the mutex.
LEMMA EndedIs ==
  ASSUME SingletonIInv
  PROVE  /\ \A t \in Threads : Ended(t) \in Nat
         /\ ptr = 0 => \A t \in Threads : Ended(t) = 0 /\ found[t] = 0
<1> SUFFICES ASSUME NEW t \in Threads
             PROVE  Ended(t) \in Nat /\ (ptr = 0 => Ended(t) = 0 /\ found[t] = 0)
  OBVIOUS
<1>1. found[t] \in Nat /\ Counted(t)
  BY DEF SingletonIInv, TypeOK
<1> QED  BY <1>1 DEF Counted, Ended

\* A step of one thread counts a call that finds the object when it passes the test.
LEMMA EndedSame ==
  ASSUME SingletonIInv, NEW t \in Threads, NEW there \in Steps,
         pc' = [pc EXCEPT ![t] = there],
         \/ found' = found
              /\ (there \in {"d_lock", "d_retest"} <=> pc[t] \in {"d_lock", "d_retest"})
         \/ found' = [found EXCEPT ![t] = @ + 1]
              /\ there \in {"d_lock", "d_retest"} /\ pc[t] \notin {"d_lock", "d_retest"}
  PROVE  /\ found' \in [Threads -> Nat]
         /\ \A u \in Threads : Ended(u)' = Ended(u)
         /\ there \in {"d_lock", "d_retest"} => found'[t] > 0
         /\ \A u \in Threads \ {t} : found'[u] = found[u] /\ pc'[u] = pc[u]
         /\ found'[t] > 0 => found[t] > 0 \/ there \in {"d_lock", "d_retest"}
<1>1. /\ found \in [Threads -> Nat] /\ pc \in [Threads -> Steps]
      /\ pc[t] \in {"d_lock", "d_retest"} => found[t] > 0
  BY DEF SingletonIInv, TypeOK, Counted
<1>2. /\ pc'[t] = there
      /\ \A u \in Threads \ {t} : found'[u] = found[u] /\ pc'[u] = pc[u]
  BY <1>1
<1>3. CASE found' = found
             /\ (there \in {"d_lock", "d_retest"} <=> pc[t] \in {"d_lock", "d_retest"})
  BY <1>1, <1>2, <1>3 DEF Ended
<1>4. CASE found' = [found EXCEPT ![t] = @ + 1]
             /\ there \in {"d_lock", "d_retest"} /\ pc[t] \notin {"d_lock", "d_retest"}
  <2>1. found'[t] = found[t] + 1 /\ found[t] \in Nat /\ found' \in [Threads -> Nat]
    BY <1>1, <1>4
  <2>2. Ended(t)' = Ended(t)
    BY <1>2, <1>4, <2>1 DEF Ended
  <2>3. \A u \in Threads \ {t} : Ended(u)' = Ended(u)
    BY <1>2 DEF Ended
  <2> QED  BY <1>2, <1>4, <2>1, <2>2, <2>3
<1> QED  BY <1>3, <1>4

\* A step after which each thread has ended as many calls, and the object is as it was.
LEMMA FreedSame ==
  ASSUME FreedForCause, UNCHANGED <<made, state, fault>>,
         \A u \in Threads : Ended(u)' = Ended(u)
  PROVE  FreedForCause'
<1>1. \A u \in Threads : (Ended(u)' > 0 <=> Ended(u) > 0) /\ (Ended(u)' > 1 <=> Ended(u) > 1)
  OBVIOUS
<1>2. \A o \in 1 .. made' : state'[o] = "freed" <=> \E t \in Threads : Ended(t)' > 0
  BY <1>1 DEF FreedForCause
<1>3. fault' = "double free" <=>
        \/ \E t \in Threads : Ended(t)' > 1
        \/ \E t, u \in Threads : t # u /\ Ended(t)' > 0 /\ Ended(u)' > 0
  BY <1>1 DEF FreedForCause
<1> QED  BY <1>2, <1>3 DEF FreedForCause

\* ptr_ and the number of objects go together: two threads cannot disagree.
LEMMA Pointer ==
  ASSUME SingletonIInv
  PROVE  /\ made \in {0, 1} /\ ptr \in {0, 1} /\ ptr <= made
         /\ \A t \in Threads :
              m = t /\ pc[t] # "publish" /\ ptr = 0 => made = 0
         /\ \A t, u \in Threads : pc[t] \in Critical /\ pc[u] \in Critical => t = u
<1>1. made \in {0, 1} /\ ptr \in {0, 1} /\ ptr <= made
  <2>1. made \in Nat /\ ptr \in 0 .. made /\ made <= 1
    BY DEF SingletonIInv, TypeOK, OneObject
  <2> QED  BY <2>1
<1>2. \A t, u \in Threads : pc[t] \in Critical /\ pc[u] \in Critical => t = u
  BY DEF SingletonIInv, Exclusion
<1>3. ASSUME NEW t \in Threads, m = t, pc[t] # "publish", ptr = 0, made # 0
      PROVE  FALSE
  <2>1. PICK u \in Threads : pc[u] = "publish"
    BY <1>1, <1>3 DEF SingletonIInv, OneObject
  <2>2. m = u
    BY <2>1 DEF SingletonIInv, Exclusion, Critical
  <2> QED  BY <1>3, <2>1, <2>2
<1> QED  BY <1>1, <1>2, <1>3

-----------------------------------------------------------------------------
\* A step that moves one thread, and changes neither the pointer nor an object.
LEMMA MoveIInv ==
  ASSUME SingletonIInv, NEW t \in Threads, NEW there \in Steps,
         pc' = [pc EXCEPT ![t] = there],
         pc[t] \notin {"publish", "construct"},
         UNCHANGED <<ptr, made, state>>,
         m' \in Threads \cup {NoThread},
         \A u \in Threads : pc'[u] \in Critical => m' = u,
         got' \in [Threads -> 0 .. made], calls' \in [Threads -> 0 .. MaxCalls],
         fault' = fault,
         \/ found' = found
              /\ (there \in {"d_lock", "d_retest"} <=> pc[t] \in {"d_lock", "d_retest"})
         \/ found' = [found EXCEPT ![t] = @ + 1]
              /\ there \in {"d_lock", "d_retest"} /\ pc[t] \notin {"d_lock", "d_retest"},
         there = "create" => made = 0,
         there \notin {"publish", "construct"},
         there \in {"unlock", "return", "d_lock", "d_retest"} => ptr = 1
  PROVE  SingletonIInv'
<1>0. /\ found' \in [Threads -> Nat]
      /\ \A u \in Threads : Ended(u)' = Ended(u)
      /\ there \in {"d_lock", "d_retest"} => found'[t] > 0
      /\ \A u \in Threads \ {t} : found'[u] = found[u] /\ pc'[u] = pc[u]
      /\ found'[t] > 0 => found[t] > 0 \/ there \in {"d_lock", "d_retest"}
  BY EndedSame
<1> USE DEF SingletonIInv
<1>1. TypeOK'
  BY <1>0 DEF TypeOK
<1>2. Exclusion'
  BY DEF Exclusion
<1>3. \A u \in Threads : u # t => pc'[u] = pc[u]
  BY DEF TypeOK
<1>4. pc'[t] = there
  BY DEF TypeOK
<1>5. \A u \in Threads : pc[u] \in {"publish", "construct"} => u # t /\ pc'[u] = pc[u]
  BY <1>3
<1>6. OneObject'
  BY <1>5 DEF OneObject
<1>7. ASSUME NEW u \in Threads PROVE Knows(u)'
  <2>1. CASE u = t
    BY <2>1, <1>4 DEF Knows
  <2>2. CASE u # t
    BY <2>2, <1>3 DEF Knows
  <2> QED  BY <2>1, <2>2
<1>8. ASSUME NEW u \in Threads PROVE Counted(u)'
  <2>1. CASE u = t
    BY <2>1, <1>0, <1>4 DEF Counted
  <2>2. CASE u # t
    BY <2>2, <1>0 DEF Counted
  <2> QED  BY <2>1, <2>2
<1>9. FreedForCause'
  BY <1>0, FreedSame
<1> QED  BY <1>1, <1>2, <1>6, <1>7, <1>8, <1>9

LEMMA SingletonNextIInv == SingletonIInv /\ [Next]_vars => SingletonIInv'
<1> SUFFICES ASSUME SingletonIInv, [Next]_vars PROVE SingletonIInv'
  OBVIOUS
<1> USE DEF SingletonIInv
<1>0. CASE UNCHANGED vars
  <2>1. UNCHANGED <<ptr, made, state, m, pc, got, calls, found, fault>>
    BY <1>0 DEF vars
  <2>2. TypeOK' /\ Exclusion' /\ OneObject'
    BY <2>1 DEF TypeOK, Exclusion, OneObject
  <2>3. \A t \in Threads : Knows(t)' /\ Counted(t)' /\ Ended(t)' = Ended(t)
    BY <2>1 DEF Knows, Counted, Ended
  <2>4. FreedForCause'
    BY <2>1, <2>3, FreedSame
  <2> QED  BY <2>2, <2>3, <2>4
<1> SUFFICES ASSUME NEW t \in Threads, Instance(t) \/ Destory(t) \/ Step(t) PROVE SingletonIInv'
  BY <1>0 DEF Next
<1>p. /\ made \in {0, 1} /\ ptr \in {0, 1} /\ ptr <= made
      /\ m = t /\ pc[t] # "publish" /\ ptr = 0 => made = 0
      /\ \A u \in Threads : pc[t] \in Critical /\ pc[u] \in Critical => t = u
  BY Pointer
<1>t. /\ pc \in [Threads -> Steps] /\ m \in Threads \cup {NoThread}
      /\ found \in [Threads -> Nat]
      /\ got \in [Threads -> 0 .. made] /\ calls \in [Threads -> 0 .. MaxCalls]
      /\ state \in [1 .. made -> {"raw", "built", "freed"}]
      /\ fault \in {"none", "double free"} /\ ptr \in 0 .. made
  BY DEF TypeOK
<1>k. Knows(t)
  OBVIOUS
<1>o. 1 .. 1 = {1}
  OBVIOUS
<1>x. \A u \in Threads : pc[u] \in Critical => m = u
  BY DEF Exclusion
\* The caller enters, and tests without the mutex.
<1>1. CASE Instance(t) \/ Destory(t)
  <2>1. PICK there \in {"test", "d_test"} : Enter(t, there)
    BY <1>1 DEF Instance, Destory
  <2>2. calls' \in [Threads -> 0 .. MaxCalls]
    <3>1. /\ calls[t] \in 0 .. MaxCalls /\ calls[t] < MaxCalls
          /\ calls' = [calls EXCEPT ![t] = calls[t] + 1]
      BY <2>1, <1>t DEF Enter
    <3>2. calls[t] + 1 \in 0 .. MaxCalls
      BY <3>1, SingletonAssumption
    <3> QED  BY <3>1, <3>2, <1>t
  <2>3. \A u \in Threads : pc'[u] \in Critical => m' = u
    BY <2>1, <1>t, <1>x DEF Enter, Goto, Critical
  <2>4. /\ pc[t] = "idle" /\ pc' = [pc EXCEPT ![t] = there] /\ got' = got
        /\ UNCHANGED <<ptr, made, state, m, found, fault>>
    BY <2>1 DEF Enter, At, Goto
  <2> QED  BY <2>1, <2>2, <2>3, <2>4, <1>t, MoveIInv DEF Steps
<1>2. CASE Test(t) \/ DestoryTest(t)
  <2>1. PICK there \in {"lock", "return", "idle", "d_lock"} :
          /\ Goto(t, there)
          /\ there \in {"return", "d_lock"} => ptr = 1
          /\ \/ found' = found /\ there # "d_lock"
             \/ found' = [found EXCEPT ![t] = @ + 1] /\ there = "d_lock"
    BY <1>2, <1>p DEF Test, DestoryTest
  <2>2. UNCHANGED <<ptr, made, state, m, got, calls, fault>>
    BY <1>2 DEF Test, DestoryTest
  <2>3. \A u \in Threads : pc'[u] \in Critical => m' = u
    BY <2>1, <2>2, <1>t, <1>x DEF Goto, Critical
  <2>4. pc[t] \in {"test", "d_test"}
    BY <1>2 DEF Test, DestoryTest, At
  <2>5. pc' = [pc EXCEPT ![t] = there]
    BY <2>1 DEF Goto
  <2> QED  BY <2>1, <2>2, <2>3, <2>4, <2>5, <1>t, MoveIInv DEF Steps
\* The critical section.
<1>3. CASE Lock(t)
  <2>1. PICK there \in {"retest", "d_retest"} :
          /\ Goto(t, there)
          /\ there = "d_retest" <=> pc[t] = "d_lock"
          /\ there = "d_retest" => ptr = 1
    BY <1>3, <1>k DEF Lock, At, Knows
  <2>2. \A u \in Threads : pc[u] \notin Critical
    BY <1>3, <1>x, SingletonAssumption DEF Lock
  <2>3. \A u \in Threads : pc'[u] \in Critical => m' = u
    BY <1>3, <2>1, <2>2, <1>t DEF Lock, Goto
  <2>4. pc[t] \in {"lock", "d_lock"}
    BY <1>3 DEF Lock, At
  <2>5. /\ pc' = [pc EXCEPT ![t] = there] /\ m' = t
        /\ UNCHANGED <<ptr, made, state, got, calls, found, fault>>
    BY <1>3, <2>1 DEF Lock, Goto
  <2> QED  BY <2>1, <2>3, <2>4, <2>5, <1>t, MoveIInv DEF Steps
<1>4. CASE Retest(t)
  <2>1. pc[t] = "retest" /\ m = t
    BY <1>4, <1>x DEF Retest, At, Critical
  <2>2. PICK there \in {"create", "unlock"} :
          /\ Goto(t, there)
          /\ there = "create" => made = 0
          /\ there = "unlock" => ptr = 1
    BY <1>4, <2>1, <1>p DEF Retest
  <2>3. \A u \in Threads : pc'[u] \in Critical => m' = u
    BY <1>4, <2>1, <2>2, <1>t, <1>x DEF Retest, Goto, Critical
  <2>5. /\ pc' = [pc EXCEPT ![t] = there]
        /\ UNCHANGED <<ptr, made, state, m, got, calls, found, fault>>
    BY <1>4, <2>2 DEF Retest, Goto
  <2> QED  BY <2>1, <2>2, <2>3, <2>5, <1>t, MoveIInv DEF Steps
<1>5. CASE Create(t)
  <2>1. /\ pc[t] = "create" /\ made = 0 /\ ptr = 0 /\ m = t
        /\ made' = 1 /\ ptr' = 0 /\ m' = m
        /\ UNCHANGED <<got, calls, found, fault>> /\ fault = "none"
    BY <1>5, <1>k, <1>t, <1>x DEF Create, At, Knows, Critical
  <2>2. PICK s \in {"raw", "built"} :
          /\ state' = [o \in 1 .. 1 |-> IF o > 0 THEN s ELSE state[o]]
          /\ s = "raw" => Reorders
    BY <1>5, <2>1 DEF Create
  <2>3. state' \in [1 .. 1 -> {"raw", "built", "freed"}] /\ state'[1] = s
    <3>1. state' = [o \in {1} |-> s]
      BY <2>2, <1>o
    <3> QED  BY <3>1, <1>o
  <2>4. pc' = [pc EXCEPT ![t] = "publish"]
    BY <1>5 DEF Create, Goto
  <2>5. got' \in [Threads -> 0 .. 1]
    <3>1. 0 .. made \subseteq 0 .. 1
      BY <2>1
    <3> QED  BY <2>1, <3>1, <1>t
  <2>6. TypeOK'
    <3>1. pc' \in [Threads -> Steps]
      BY <2>4, <1>t DEF Steps
    <3>2. made' \in Nat /\ ptr' \in 0 .. made' /\ 0 .. made' = 0 .. 1 /\ 1 .. made' = 1 .. 1
      BY <2>1
    <3> QED  BY <2>1, <2>3, <2>5, <3>1, <3>2, <1>t DEF TypeOK
  <2>7. Exclusion'
    BY <2>1, <2>4, <1>t, <1>x DEF Exclusion, Critical
  <2>8. OneObject'
    <3>1. pc'[t] = "publish"
      BY <2>4, <1>t
    <3>2. \A o \in 1 .. made' : state'[o] = "raw" => Reorders
      BY <2>1, <2>2, <2>3, <1>o
    <3> QED  BY <2>1, <3>1, <3>2 DEF OneObject
  <2>9. ASSUME NEW u \in Threads PROVE Knows(u)'
    <3>1. Knows(u) /\ (pc[u] \in Critical => u = t)
      BY <2>1, <1>p DEF Critical
    <3> QED  BY <2>1, <2>4, <3>1, <1>t DEF Knows, Critical
  <2>10. \A u \in Threads : Ended(u)' = 0 /\ Counted(u)'
    <3>1. \A u \in Threads : Ended(u) = 0 /\ found[u] = 0
      BY <2>1, EndedIs DEF SingletonIInv
    <3>2. \A u \in Threads : Ended(u)' = Ended(u)
      BY <2>1, <2>4, <1>t DEF Ended
    <3> QED  BY <2>1, <3>1, <3>2, <2>4, <1>t DEF Counted, Ended
  <2>11. FreedForCause'
    <3>1. \A o \in 1 .. made' : state'[o] # "freed"
      BY <2>1, <2>3, <1>o
    <3> QED  BY <2>1, <2>10, <3>1 DEF FreedForCause
  <2> QED  BY <2>6, <2>7, <2>8, <2>9, <2>10, <2>11
<1>6. CASE CreateThrows(t)
  <2>1. pc[t] = "create" /\ m = t
    BY <1>6, <1>x DEF CreateThrows, At, Critical
  <2>2. \A u \in Threads : pc'[u] \in Critical => m' = u
    BY <1>6, <2>1, <1>t, <1>x DEF CreateThrows, Goto, Critical
  <2>5. /\ pc' = [pc EXCEPT ![t] = "give_up"]
        /\ UNCHANGED <<ptr, made, state, m, got, calls, found, fault>>
    BY <1>6 DEF CreateThrows, Goto
  <2> QED  BY <2>1, <2>2, <2>5, <1>t, MoveIInv DEF Steps
<1>7. CASE Publish(t)
  <2>1. /\ pc[t] = "publish" /\ made = 1 /\ ptr = 0 /\ m = t
        /\ ptr' = 1
        /\ UNCHANGED <<made, state, m, got, calls, found, fault>>
    BY <1>7, <1>k, <1>x DEF Publish, At, Knows, Critical
  <2>2. PICK there \in {"construct", "unlock"} :
          /\ pc' = [pc EXCEPT ![t] = there]
          /\ state[1] = "raw" <=> there = "construct"
    BY <1>7, <2>1 DEF Publish, Goto
  <2>3. TypeOK'
    <3>1. pc' \in [Threads -> Steps]
      BY <2>2, <1>t DEF Steps
    <3>2. made' \in Nat /\ ptr' \in 0 .. made'
      BY <2>1
    <3> QED  BY <2>1, <3>1, <3>2, <1>t DEF TypeOK
  <2>4. Exclusion'
    BY <2>1, <2>2, <1>t, <1>x DEF Exclusion, Critical
  <2>5. OneObject'
    <3>1. ASSUME state[1] = "raw" PROVE Reorders /\ pc'[t] = "construct"
      BY <3>1, <2>1, <2>2, <1>t, <1>o DEF OneObject
    <3> QED  BY <2>1, <3>1, <1>o DEF OneObject
  <2>6. ASSUME NEW u \in Threads PROVE Knows(u)'
    <3>1. u # t => pc'[u] = pc[u] /\ pc[u] \notin Critical
      BY <2>1, <2>2, <1>p, <1>t DEF Critical
    <3>2. u = t => pc'[u] = there
      BY <2>2, <1>t
    <3> QED  BY <3>1, <3>2, <2>1, <2>2 DEF Knows, Critical
  <2>7. \A u \in Threads : Ended(u)' = Ended(u) /\ Counted(u)'
    BY <2>1, <2>2, <1>t DEF Ended, Counted
  <2>8. FreedForCause'
    BY <2>1, <2>7, FreedSame
  <2> QED  BY <2>3, <2>4, <2>5, <2>6, <2>7, <2>8
<1>8. CASE Construct(t)
  <2>1. /\ pc[t] = "construct" /\ ptr = 1 /\ made = 1 /\ m = t
        /\ state' = [state EXCEPT ![1] = "built"]
        /\ pc' = [pc EXCEPT ![t] = "unlock"]
        /\ UNCHANGED <<ptr, made, m, got, calls, found, fault>>
        /\ state[1] = "raw"
    BY <1>8, <1>k, <1>p, <1>x DEF Construct, At, Goto, Knows, Critical
  <2>2. state' \in [1 .. 1 -> {"raw", "built", "freed"}] /\ state'[1] = "built"
    <3>1. state \in [{1} -> {"raw", "built", "freed"}]
      BY <2>1, <1>t, <1>o
    <3> QED  BY <2>1, <3>1, <1>o
  <2>3. TypeOK'
    BY <2>1, <2>2, <1>t DEF TypeOK, Steps
  <2>4. Exclusion'
    BY <2>1, <1>t, <1>x DEF Exclusion, Critical
  <2>5. OneObject'
    BY <2>1, <2>2 DEF OneObject
  <2>6. ASSUME NEW u \in Threads PROVE Knows(u)'
    <3>1. Knows(u) /\ (pc[u] \in Critical => u = t)
      BY <2>1, <1>p DEF Critical
    <3> QED  BY <2>1, <3>1, <1>t DEF Knows, Critical
  <2>7. \A u \in Threads : Ended(u)' = Ended(u) /\ Counted(u)'
    BY <2>1, <1>t DEF Ended, Counted
  <2>8. FreedForCause'
    <3>1. state[1] # "freed" /\ state'[1] # "freed"
      BY <2>1, <2>2
    <3>2. \A o \in 1 .. made : o = 1
      BY <2>1
    <3>3. 1 \in 1 .. made
      BY <2>1
    <3>4. \A u \in Threads : ~(Ended(u) > 0)
      BY <3>1, <3>3 DEF FreedForCause
    <3>5. \A o \in 1 .. made' : state'[o] = "freed" <=> \E u \in Threads : Ended(u)' > 0
      BY <2>1, <2>7, <3>1, <3>2, <3>4
    <3> QED  BY <2>1, <2>7, <3>5 DEF FreedForCause
  <2> QED  BY <2>3, <2>4, <2>5, <2>6, <2>7, <2>8
<1>9. CASE Unlock(t)
  <2>1. /\ pc[t] \in {"unlock", "give_up", "d_unlock"} /\ m = t
        /\ pc[t] = "unlock" => ptr = 1
    BY <1>9, <1>x, <1>k DEF Unlock, At, Critical, Knows
  <2>2. PICK there \in {"return", "idle"} :
          /\ Goto(t, there)
          /\ there = "return" => ptr = 1
    BY <1>9, <2>1 DEF Unlock
  <2>3. \A u \in Threads : pc'[u] \notin Critical
    BY <2>1, <2>2, <1>p, <1>t DEF Goto, Critical
  <2>4. /\ pc' = [pc EXCEPT ![t] = there] /\ m' = NoThread
        /\ UNCHANGED <<ptr, made, state, got, calls, found, fault>>
    BY <1>9, <2>2 DEF Unlock, Goto
  <2> QED  BY <2>1, <2>2, <2>3, <2>4, <1>t, MoveIInv DEF Steps
<1>10. CASE Return(t)
  <2>1. got' \in [Threads -> 0 .. made]
    BY <1>10, <1>t DEF Return
  <2>2. \A u \in Threads : pc'[u] \in Critical => m' = u
    BY <1>10, <1>t, <1>x DEF Return, Goto, Critical
  <2>3. pc[t] = "return"
    BY <1>10 DEF Return, At
  <2>4. /\ pc' = [pc EXCEPT ![t] = "idle"]
        /\ UNCHANGED <<ptr, made, state, m, calls, found, fault>>
    BY <1>10 DEF Return, Goto
  <2> QED  BY <2>1, <2>2, <2>3, <2>4, <1>t, MoveIInv DEF Steps
<1>11. CASE Destroy(t)
  <2>0. pc[t] = "d_retest"
    BY <1>11 DEF Destroy, At
  <2>1. /\ pc[t] = "d_retest" /\ ptr = 1 /\ made = 1 /\ m = t
        /\ pc' = [pc EXCEPT ![t] = "d_unlock"]
        /\ UNCHANGED <<ptr, made, m, got, calls, found>> /\ fault = "none"
    <3>1. ptr = 1 /\ made = 1
      BY <2>0, <1>k, <1>p DEF Knows
    <3>2. m = t
      BY <2>0, <1>x DEF Critical
    <3> QED  BY <1>11, <2>0, <3>1, <3>2 DEF Destroy, Goto, At
  <2>2. /\ state' \in [1 .. 1 -> {"raw", "built", "freed"}]
        /\ state'[1] = "raw" => state[1] = "raw"
        /\ fault' \in {"none", "double free"}
    BY <1>11, <2>1, <1>t DEF Destroy
  <2>3. TypeOK'
    BY <2>1, <2>2, <1>t DEF TypeOK, Steps
  <2>4. Exclusion'
    BY <2>1, <1>t, <1>x DEF Exclusion, Critical
  <2>5. OneObject'
    <3>1. state[1] # "raw"
      <4>1. \A u \in Threads : pc[u] \notin {"publish", "construct"}
        BY <2>1, <1>p DEF Critical
      <4> QED  BY <4>1, <2>1, <1>o DEF OneObject
    <3>2. \A o \in 1 .. made' : state'[o] # "raw"
      BY <2>1, <2>2, <3>1, <1>o
    <3>3. ~(ptr' < made') /\ made' <= 1
      BY <2>1
    <3> QED  BY <3>2, <3>3 DEF OneObject
  <2>6. ASSUME NEW u \in Threads PROVE Knows(u)'
    <3>1. Knows(u) /\ (pc[u] \in Critical => u = t)
      BY <2>1, <1>p DEF Critical
    <3> QED  BY <2>1, <3>1, <1>t DEF Knows, Critical
  <2>7. /\ \A u \in Threads \ {t} : Ended(u)' = Ended(u)
        /\ Ended(t)' = Ended(t) + 1
        /\ \A u \in Threads : Ended(u) \in Nat /\ Counted(u)'
    <3>1. \A u \in Threads : Ended(u) \in Nat
      BY EndedIs DEF SingletonIInv
    <3> QED  BY <2>1, <3>1, <1>t DEF Ended, Counted
  <2>8. state'[1] = "freed" /\ (fault' = "double free" <=> state[1] = "freed")
    <3>1. CASE state[1] = "freed"
      <4>1. fault' = "double free" /\ UNCHANGED state
        <5>1. ptr # 0 /\ state[ptr] = "freed"
          BY <2>1, <3>1
        <5> QED  BY <1>11, <5>1, Zenon DEF Destroy
      <4> QED  BY <3>1, <4>1
    <3>2. CASE state[1] # "freed"
      <4>1. /\ state' = [o \in 1 .. 1 |-> IF o = 1 THEN "freed" ELSE state[o]]
            /\ fault' = "none"
        <5>1. ~(ptr # 0 /\ state[ptr] = "freed")
          BY <2>1, <3>2
        <5>2. /\ state' = [o \in 1 .. made |-> IF o = ptr THEN "freed" ELSE state[o]]
              /\ fault' = fault
          BY <1>11, <5>1, Zenon DEF Destroy
        <5> QED  BY <2>1, <5>2
      <4>2. state' = [o \in {1} |-> IF o = 1 THEN "freed" ELSE state[o]]
        BY <4>1, <1>o
      <4>3. state'[1] = "freed"
        BY <4>2
      <4> QED  BY <3>2, <4>1, <4>3
    <3> QED  BY <3>1, <3>2
  <2>9. state[1] = "freed" <=> \E u \in Threads : Ended(u) > 0
    <3>1. 1 \in 1 .. made
      BY <2>1
    <3> QED  BY <3>1 DEF FreedForCause
  <2>10. fault # "double free" => \A u \in Threads : ~(Ended(u) > 1)
    BY DEF FreedForCause
  <2>11. Ended(t)' > 0 /\ (Ended(t)' > 1 <=> Ended(t) > 0)
    BY <2>7
  <2>12. FreedForCause'
    <3>1. \A o \in 1 .. made' : state'[o] = "freed" <=> \E u \in Threads : Ended(u)' > 0
      <4>1. \A o \in 1 .. made' : o = 1
        BY <2>1
      <4> QED  BY <2>8, <2>11, <4>1
    <3>2. ASSUME fault' = "double free"
          PROVE  \/ \E u \in Threads : Ended(u)' > 1
                 \/ \E u, v \in Threads : u # v /\ Ended(u)' > 0 /\ Ended(v)' > 0
      <4>1. PICK u \in Threads : Ended(u) > 0
        BY <2>8, <2>9, <3>2
      <4>2. CASE u = t
        BY <2>11, <4>1, <4>2
      <4>3. CASE u # t
        BY <2>7, <2>11, <4>1, <4>3
      <4> QED  BY <4>2, <4>3
    <3>3. ASSUME NEW u \in Threads, Ended(u)' > 1 PROVE fault' = "double free"
      <4>1. CASE u = t
        BY <2>8, <2>9, <2>11, <3>3, <4>1
      <4>2. CASE u # t
        BY <2>1, <2>7, <2>10, <3>3, <4>2
      <4> QED  BY <4>1, <4>2
    <3>4. ASSUME NEW u \in Threads, NEW v \in Threads, u # v, Ended(u)' > 0, Ended(v)' > 0
          PROVE  fault' = "double free"
      <4>1. CASE u # t
        BY <2>7, <2>8, <2>9, <3>4, <4>1
      <4>2. CASE v # t
        BY <2>7, <2>8, <2>9, <3>4, <4>2
      <4> QED  BY <3>4, <4>1, <4>2
    <3> QED  BY <3>1, <3>2, <3>3, <3>4, Zenon DEF FreedForCause
  <2> QED  BY <2>3, <2>4, <2>5, <2>6, <2>7, <2>12
<1> QED
  BY <1>1, <1>2, <1>3, <1>4, <1>5, <1>6, <1>7, <1>8, <1>9, <1>10, <1>11 DEF Step

\* SingletonIInv is inductive: it holds throughout every behaviour.
THEOREM SingletonInvariance == Spec => []SingletonIInv
  BY SingletonInitIInv, SingletonNextIInv, PTL DEF Spec

-----------------------------------------------------------------------------
\* Pointer, mutex and threads are of their types.
THEOREM SingletonTypeCorrect == Spec => []TypeOK
<1>1. SingletonIInv => TypeOK
  BY DEF SingletonIInv
<1> QED  BY <1>1, SingletonInvariance, PTL

\* Every call of instance(), by whatever thread, returns the one object.
THEOREM OneForAll == Spec => []SameForAll
<1>1. SingletonIInv => SameForAll
  BY DEF SingletonIInv, OneObject, Knows, SameForAll
<1> QED  BY <1>1, SingletonInvariance, PTL

\* An object without its constructor's stores is seen only while its maker is in the
\* critical section, and only where stores are reordered.
THEOREM RawWhileMade == Spec => []RawForCause
<1>1. SingletonIInv => RawForCause
  BY DEF SingletonIInv, Exclusion, Critical, OneObject, RawForCause
<1> QED  BY <1>1, SingletonInvariance, PTL

\* destory frees no object that is not built.
THEOREM FreedWhenBuilt == Spec => FreesBuiltOnly
<1>1. SingletonIInv /\ [Next]_vars => [\A o \in 1 .. made : state[o] = "raw" => state'[o] # "freed"]_vars
  <2> SUFFICES ASSUME SingletonIInv, Next, NEW o \in 1 .. made, state[o] = "raw", state'[o] = "freed"
               PROVE  FALSE
    OBVIOUS
  <2>1. PICK t \in Threads : Instance(t) \/ Destory(t) \/ Step(t)
    BY DEF Next
  <2>2. Destroy(t)
    <3>1. ASSUME UNCHANGED state PROVE FALSE
      BY <3>1
    <3>2. made = 0 => FALSE
      OBVIOUS
    <3>3. Create(t) => made = 0
      BY DEF SingletonIInv, Knows, Create, At
    <3>4. Construct(t) => state'[o] # "freed"
      BY DEF SingletonIInv, TypeOK, Construct
    <3> QED
      BY <2>1, <3>1, <3>2, <3>3, <3>4
         DEF Step, Instance, Destory, Enter, Test, Lock, Retest, CreateThrows, Publish,
             Unlock, Return, DestoryTest
  <2>3. PICK u \in Threads : pc[u] \in {"publish", "construct"}
    BY DEF SingletonIInv, OneObject
  <2>4. pc[t] = "d_retest"
    BY <2>2 DEF Destroy, At
  <2> QED  BY <2>3, <2>4, Pointer DEF Critical
<1> QED  BY <1>1, SingletonInvariance, PTL DEF Spec, FreesBuiltOnly

\* The object is freed exactly from the first destory on that found it, and freed twice
\* exactly when a second one has.
THEOREM FreedWhenFound == Spec => []FreedForCause
<1>1. SingletonIInv => FreedForCause
  BY DEF SingletonIInv
<1> QED  BY <1>1, SingletonInvariance, PTL

\* For any number of threads and calls, whatever stores are reordered and creations
\* throw: the one object is returned by all, about to be built, built or, from the first
\* destory that found it on, freed; and nothing is freed unbuilt, or twice for less than
\* two such calls.
THEOREM SingletonIsSound == Spec => SingletonSound
<1>1. Spec => [](TypeOK /\ SameForAll /\ RawForCause /\ FreedForCause)
  BY SingletonTypeCorrect, OneForAll, RawWhileMade, FreedWhenFound, PTL
<1> QED  BY <1>1, FreedWhenBuilt, PTL DEF SingletonSound
=============================================================================
