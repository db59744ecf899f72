--------------------------- MODULE UvHandleProofs ---------------------------
(***************************************************************************)
(* For any bounds, any numbers of signals and whatever callbacks throw: a  *)
(* callback is there for all that libuv has to say, it is the one of its   *)
(* call or of a later call of the same kind, and a careful application     *)
(* uses nothing freed and has each request answered once by its own.       *)
(***************************************************************************)
EXTENDS UvHandle, SequenceTheorems, TLAPS

-----------------------------------------------------------------------------
(* Lines of calls *)

Members(s) == {s[i] : i \in 1 .. Len(s)}
Distinct(s) == \A i, j \in 1 .. Len(s) : s[i] = s[j] => i = j

\* What joins a line it is not in stands in it once.
LEMMA Join ==
  ASSUME NEW S, NEW s \in Seq(S), NEW e \in S
  PROVE  /\ Append(s, e) \in Seq(S)
         /\ Members(Append(s, e)) = Members(s) \cup {e}
         /\ Distinct(s) /\ e \notin Members(s) => Distinct(Append(s, e))
<1> DEFINE a == Append(s, e)
<1>1. /\ a \in Seq(S) /\ Len(a) = Len(s) + 1
      /\ \A i \in 1 .. Len(s) : a[i] = s[i]
      /\ a[Len(s) + 1] = e
      /\ Len(s) \in Nat
  BY AppendProperties
<1> HIDE DEF a
<1>2. 1 .. Len(a) = (1 .. Len(s)) \cup {Len(s) + 1}
  BY <1>1
<1>3. Members(a) = Members(s) \cup {e}
  BY <1>1, <1>2 DEF Members
<1>4. ASSUME Distinct(s), e \notin Members(s) PROVE Distinct(a)
  BY <1>1, <1>2, <1>4 DEF Distinct, Members
<1> QED  BY <1>1, <1>3, <1>4 DEF a

\* The first of a line without duplicates leaves it for good.
LEMMA Leave ==
  ASSUME NEW S, NEW s \in Seq(S), s # << >>
  PROVE  /\ Head(s) \in Members(s)
         /\ Tail(s) \in Seq(S)
         /\ Members(Tail(s)) \subseteq Members(s)
         /\ Distinct(s) => Distinct(Tail(s)) /\ Members(Tail(s)) = Members(s) \ {Head(s)}
<1> DEFINE t == Tail(s)
<1>1. /\ Head(s) \in S /\ Head(s) = s[1]
      /\ t \in Seq(S) /\ Len(t) = Len(s) - 1
      /\ \A i \in 1 .. Len(t) : t[i] = s[i + 1]
      /\ Len(s) \in Nat /\ Len(s) >= 1
  BY HeadTailProperties, EmptySeq
<1> HIDE DEF t
<1>2. \A i \in 1 .. Len(t) : i + 1 \in 1 .. Len(s) /\ i + 1 # 1
  BY <1>1
<1>3. \A i \in 1 .. Len(s) : i = 1 \/ (i - 1 \in 1 .. Len(t) /\ t[i - 1] = s[i])
  BY <1>1
<1>4. Head(s) \in Members(s) /\ Members(t) \subseteq Members(s)
  BY <1>1, <1>2 DEF Members
<1>5. ASSUME Distinct(s) PROVE Distinct(t) /\ Members(t) = Members(s) \ {Head(s)}
  <2>1. Distinct(t)
    BY <1>1, <1>2, <1>5 DEF Distinct
  <2>2. Members(t) \subseteq Members(s) \ {s[1]}
    BY <1>1, <1>2, <1>5 DEF Distinct, Members
  <2>3. Members(s) \ {s[1]} \subseteq Members(t)
    BY <1>3 DEF Members
  <2> QED  BY <1>1, <2>1, <2>2, <2>3
<1> QED  BY <1>1, <1>4, <1>5 DEF t

\* The members of a line of S are in S, and a line of S is one of any larger set.
LEMMA InLine ==
  ASSUME NEW S, NEW T, NEW s \in Seq(S), S \subseteq T
  PROVE  Members(s) \subseteq S /\ s \in Seq(T) /\ (s = << >> <=> Members(s) = {})
<1>1. Len(s) \in Nat /\ \A i \in 1 .. Len(s) : s[i] \in S
  BY ElementOfSeq, LenProperties
<1>2. s = << >> <=> Len(s) = 0
  BY EmptySeq
<1>3. s \in Seq(T)
  BY SeqMonotonic
<1>4. Members(s) \subseteq S
  BY <1>1 DEF Members
<1>5. Len(s) # 0 => s[1] \in Members(s)
  BY <1>1 DEF Members
<1>6. Len(s) = 0 => Members(s) = {}
  BY DEF Members
<1> QED  BY <1>2, <1>3, <1>4, <1>5, <1>6

-----------------------------------------------------------------------------
(* The inductive invariant *)

\* What can be called on a handle of each type.
KindsOf(t) == CASE t = "stream" -> RequestKinds \cup StreamEvents \cup {"close"}
                [] t = "timer" -> {"timer", "close"}
                [] t = "signal" -> Signals \cup {"close"}

Calls == 1 .. made

\* While the table lives, a slot has the last call of its kind.
SlotIsLast ==
  /\ \A c \in Calls : kindOf[c] \in KindsOf(type)
  /\ \A k \in SlotKinds : slot[k] # 0 => kindOf[slot[k]] = k
  /\ table = "live" => \A c \in Calls : c <= slot[kindOf[c]]

\* The life of the handle, which ends when its close callback returns.
Life ==
  /\ table = "deleted" <=> handle = "freed"
  /\ handle # "open" => on = {}
  /\ handle = "open" => \A c \in Calls : kindOf[c] # "close"
  /\ handle = "closing" => slot["close"] # 0
  /\ handle = "freed" => pending = << >> /\ caught = << >> /\ running = Idle
  /\ running.kind = "close" => handle = "closing" /\ pending = << >> /\ caught = << >>
  /\ fault \in {"none", "freed", "thrown", "asserted"}
  /\ fault = "freed" => handle = "freed"

\* A callback runs for a call, as its own or that of a later call.
RunningFits ==
  \/ running = Idle
  \/ /\ running \in [kind : SlotKinds, req : Calls, call : Calls]
     /\ running.call >= running.req
     /\ kindOf[running.req] = running.kind /\ kindOf[running.call] = running.kind
     /\ running.kind = "timer" => running.call = running.req

\* What libuv holds.
Held ==
  /\ Distinct(pending)
  /\ \A r \in Members(pending) : r \in asked /\ kindOf[r] \in RequestKinds
  /\ \A c \in on : kindOf[c] \in EventKinds
  /\ type = "timer" => on \subseteq {slot["timer"]}
  /\ \A c \in Members(caught) : kindOf[c] \in Signals
  /\ \A c \in Calls : kindOf[c] = "close" => c \in asked

\* Requests, unlike events and closes, are allocated.
Allocated ==
  /\ \A r \in owned : kindOf[r] \in RequestKinds
  /\ owned \cap asked \subseteq Members(pending) \cup {running.req}

\* What was answered is not pending; the close is answered last.
Answered ==
  \A i \in 1 .. Len(heard) :
    /\ heard[i][1] \in asked \ Members(pending)
    /\ heard[i][2] >= heard[i][1]
    /\ kindOf[heard[i][2]] = kindOf[heard[i][1]]
    /\ kindOf[heard[i][1]] \in RequestKinds \cup {"close"}
    /\ kindOf[heard[i][1]] = "close" => handle = "freed" \/ running.kind = "close"

\* A careful application leaves the callbacks of its requests in their slots.
Careful ==
  careful =>
    /\ fault = "none"
    /\ RunningIntact
    /\ \A r \in Members(pending) : slot[kindOf[r]] = r

IInv == /\ TypeOK
        /\ SlotIsLast
        /\ Life
        /\ RunningFits
        /\ Held
        /\ Allocated
        /\ Answered
        /\ Careful

LEMMA InitIInv == Init => IInv
<1> SUFFICES ASSUME Init PROVE IInv
  OBVIOUS
<1>1. TypeOK
  <2>1. << >> \in Seq(1 .. made) /\ << >> \in Seq((1 .. made) \X (1 .. made))
    BY EmptySeq
  <2>2. kindOf \in [1 .. made -> SlotKinds]
    BY DEF Init
  <2> QED  BY <2>1, <2>2, HandleAssumption DEF Init, TypeOK, Idle
<1>2. SlotIsLast /\ Life /\ RunningFits
  BY DEF Init, SlotIsLast, Life, RunningFits, Calls, Idle
<1>3. Held /\ Allocated /\ Answered /\ Careful
  BY DEF Init, Held, Allocated, Answered, Careful, Distinct, Members, RunningIntact, Calls, Idle
<1> QED  BY <1>1, <1>2, <1>3 DEF IInv

-----------------------------------------------------------------------------
(* Calls of the application *)

\* A call gets the next number, and its slot; all others keep theirs.
LEMMA Stored ==
  ASSUME TypeOK, NEW k \in SlotKinds, Store(k), made < MaxCalls
  PROVE  /\ made \in Nat /\ made' = made + 1 /\ made' \in 0 .. MaxCalls
         /\ Calls \subseteq Calls' /\ Calls' = Calls \cup {made'} /\ made' \notin Calls
         /\ kindOf' \in [Calls' -> SlotKinds]
         /\ \A c \in Calls : kindOf'[c] = kindOf[c]
         /\ kindOf'[made'] = k
         /\ slot' \in [SlotKinds -> 0 .. made']
         /\ slot'[k] = made'
         /\ \A j \in SlotKinds \ {k} : slot'[j] = slot[j]
<1>1. made \in Nat /\ made' = made + 1 /\ made' \in 0 .. MaxCalls
  BY HandleAssumption DEF Store, TypeOK
<1>2. Calls \subseteq Calls' /\ Calls' = Calls \cup {made'} /\ made' \notin Calls
  BY <1>1 DEF Calls
<1>3. kindOf \in Seq(SlotKinds) /\ Len(kindOf) = made
  BY <1>1 DEF TypeOK
<1>4. /\ kindOf' \in Seq(SlotKinds) /\ Len(kindOf') = made'
      /\ \A c \in 1 .. made : kindOf'[c] = kindOf[c]
      /\ kindOf'[made'] = k
  BY <1>1, <1>3, AppendProperties DEF Store
<1>5. kindOf' \in [1 .. made' -> SlotKinds]
  BY <1>4, LenProperties
<1>6. slot \in [SlotKinds -> 0 .. made] /\ slot' = [slot EXCEPT ![k] = made']
  BY <1>1 DEF TypeOK, Store
<1>7. slot' \in [SlotKinds -> 0 .. made']
  BY <1>1, <1>6
<1> QED  BY <1>1, <1>2, <1>4, <1>5, <1>6, <1>7 DEF Calls

\* So the slots still have the last calls.
LEMMA StoredIsLast ==
  ASSUME TypeOK, SlotIsLast, NEW k \in SlotKinds, Store(k), made < MaxCalls,
         k \in KindsOf(type), UNCHANGED <<type, table>>
  PROVE  SlotIsLast'
<1>1. /\ made \in Nat /\ made' = made + 1 /\ Calls' = Calls \cup {made'} /\ made' \notin Calls
      /\ \A c \in Calls : kindOf'[c] = kindOf[c] /\ kindOf[c] \in SlotKinds
      /\ kindOf'[made'] = k
      /\ slot' \in [SlotKinds -> 0 .. made'] /\ slot'[k] = made'
      /\ \A j \in SlotKinds \ {k} : slot'[j] = slot[j]
  BY Stored DEF TypeOK, Calls
<1>2. slot \in [SlotKinds -> 0 .. made]
  BY DEF TypeOK
<1>3. \A j \in SlotKinds : slot'[j] # 0 => kindOf'[slot'[j]] = j
  <2> SUFFICES ASSUME NEW j \in SlotKinds, slot'[j] # 0 PROVE kindOf'[slot'[j]] = j
    OBVIOUS
  <2>1. CASE j = k
    BY <1>1, <2>1
  <2>2. CASE j # k
    <3>1. slot'[j] = slot[j] /\ slot[j] \in Calls
      BY <1>1, <1>2, <2>2 DEF Calls
    <3> QED  BY <1>1, <3>1 DEF SlotIsLast
  <2> QED  BY <2>1, <2>2
<1>4. \A c \in Calls' : kindOf'[c] \in KindsOf(type')
  BY <1>1 DEF SlotIsLast, KindsOf
<1>5. ASSUME table = "live", NEW c \in Calls' PROVE c <= slot'[kindOf'[c]]
  <2>1. CASE c = made'
    BY <1>1, <2>1
  <2>2. CASE c \in Calls
    <3>1. c <= slot[kindOf[c]] /\ c \in 1 .. made
      BY <1>5, <2>2 DEF SlotIsLast, Calls
    <3>2. CASE kindOf[c] = k
      BY <1>1, <2>2, <3>1, <3>2
    <3>3. CASE kindOf[c] # k
      BY <1>1, <2>2, <3>1, <3>3
    <3> QED  BY <3>2, <3>3
  <2> QED  BY <1>1, <2>1, <2>2
<1> QED  BY <1>3, <1>4, <1>5 DEF SlotIsLast

\* What was well typed before a call is after it.
LEMMA StillTyped ==
  ASSUME TypeOK, NEW m \in Nat, made <= m
  PROVE  /\ pending \in Seq(1 .. m) /\ caught \in Seq(1 .. m)
         /\ {on, repeats, owned, asked} \subseteq SUBSET (1 .. m)
         /\ {running.req, running.call} \subseteq 0 .. m
         /\ heard \in Seq((1 .. m) \X (1 .. m))
<1>1. made \in Nat /\ 1 .. made \subseteq 1 .. m /\ 0 .. made \subseteq 0 .. m
  BY DEF TypeOK
<1>2. (1 .. made) \X (1 .. made) \subseteq (1 .. m) \X (1 .. m)
  BY <1>1
<1>3. pending \in Seq(1 .. m) /\ caught \in Seq(1 .. m)
  BY <1>1, SeqMonotonic DEF TypeOK
<1>4. heard \in Seq((1 .. m) \X (1 .. m))
  BY <1>2, SeqMonotonic DEF TypeOK
<1> QED  BY <1>1, <1>3, <1>4 DEF TypeOK

\* The calls that what libuv holds, and the history, are about.
LEMMA Named ==
  ASSUME TypeOK
  PROVE  /\ Members(pending) \subseteq Calls /\ Members(caught) \subseteq Calls
         /\ \A i \in 1 .. Len(heard) : heard[i][1] \in Calls /\ heard[i][2] \in Calls
<1>1. Members(pending) \subseteq Calls /\ Members(caught) \subseteq Calls
  BY InLine DEF TypeOK, Calls
<1>2. heard \in Seq(Calls \X Calls)
  BY DEF TypeOK, Calls
<1>3. ASSUME NEW i \in 1 .. Len(heard) PROVE heard[i] \in Calls \X Calls
  BY <1>2, ElementOfSeq
<1> QED  BY <1>1, <1>3

\* The invariant after a call that has stored its callback, as far as only what is
\* stored changes.
LEMMA StoreKeeps ==
  ASSUME IInv, NEW k \in SlotKinds, Store(k), made < MaxCalls, k \in KindsOf(type),
         careful => k # running.kind, handle # "freed",
         k = "close" => handle' # "open",
         handle' \in {handle, "closing"},
         handle' = "closing" => k = "close" \/ handle = "closing",
         UNCHANGED <<manner, table, running, fault>>
  PROVE  /\ SlotIsLast' /\ RunningFits'
         /\ table' = "live"
         /\ handle' = "open" => \A c \in Calls' : kindOf'[c] # "close"
         /\ handle' = "closing" => slot'["close"] # 0
         /\ careful => fault' = "none" /\ RunningIntact'
<1> USE DEF IInv
<1>1. /\ made \in Nat /\ made' = made + 1 /\ Calls' = Calls \cup {made'}
      /\ \A c \in Calls : kindOf'[c] = kindOf[c]
      /\ kindOf'[made'] = k
      /\ slot'[k] = made'
      /\ \A j \in SlotKinds \ {k} : slot'[j] = slot[j]
  BY Stored
<1>2. SlotIsLast'
  BY StoredIsLast DEF manner
<1>3. table' = "live"
  BY DEF TypeOK, Life
<1>4. RunningFits'
  <2>1. CASE running = Idle
    BY <2>1 DEF RunningFits
  <2>2. CASE running # Idle
    BY <1>1, <2>2 DEF RunningFits
  <2> QED  BY <2>1, <2>2
<1>5. handle' = "open" => \A c \in Calls' : kindOf'[c] # "close"
  BY <1>1 DEF Life
<1>6. "close" \in SlotKinds
  BY DEF SlotKinds
<1>7. handle' = "closing" => slot'["close"] # 0
  BY <1>1, <1>6 DEF Life
<1>8. ASSUME careful PROVE fault' = "none" /\ RunningIntact'
  <2>1. fault' = "none" /\ RunningIntact /\ k # running.kind
    BY <1>8 DEF Careful
  <2>2. CASE running = Idle
    BY <2>1, <2>2 DEF RunningIntact
  <2>3. CASE running # Idle
    <3>1. running.kind \in SlotKinds
      BY <2>3 DEF RunningFits
    <3>2. slot'[running.kind] = slot[running.kind]
      BY <1>1, <2>1, <3>1
    <3> QED  BY <1>3, <2>1, <2>3, <3>2 DEF RunningIntact
  <2> QED  BY <2>1, <2>2, <2>3
<1> QED  BY <1>2, <1>3, <1>4, <1>5, <1>7, <1>8

\* ... and what of the rest is unchanged.
LEMMA StoreKeepsHeld ==
  ASSUME IInv, NEW k \in SlotKinds, Store(k), made < MaxCalls,
         careful => k \notin PendingKinds
  PROVE  /\ \A r \in Members(pending) : kindOf'[r] \in RequestKinds
         /\ \A c \in on : kindOf'[c] = kindOf[c] /\ kindOf'[c] \in EventKinds
         /\ \A c \in Members(caught) : kindOf'[c] \in Signals
         /\ \A r \in owned : kindOf'[r] \in RequestKinds
         /\ careful => \A r \in Members(pending) : slot'[kindOf'[r]] = r
         /\ \A i \in 1 .. Len(heard) :
              /\ kindOf'[heard[i][1]] = kindOf[heard[i][1]]
              /\ kindOf'[heard[i][2]] = kindOf[heard[i][2]]
<1> USE DEF IInv
<1>1. /\ \A c \in Calls : kindOf'[c] = kindOf[c] /\ kindOf[c] \in SlotKinds
      /\ \A j \in SlotKinds \ {k} : slot'[j] = slot[j]
  BY Stored DEF TypeOK, Calls
<1>2. /\ Members(pending) \subseteq Calls /\ Members(caught) \subseteq Calls
      /\ \A i \in 1 .. Len(heard) : heard[i][1] \in Calls /\ heard[i][2] \in Calls
  BY Named
<1>3. on \subseteq Calls /\ owned \subseteq Calls
  BY DEF TypeOK, Calls
<1>4. ASSUME careful, NEW r \in Members(pending) PROVE slot'[kindOf'[r]] = r
  <2>1. slot[kindOf[r]] = r /\ kindOf[r] \in PendingKinds
    BY <1>4 DEF Careful, Members, PendingKinds
  <2> QED  BY <1>1, <1>2, <1>4, <2>1
<1> QED  BY <1>1, <1>2, <1>3, <1>4 DEF Held, Allocated

-----------------------------------------------------------------------------
LEMMA CallIInv ==
  ASSUME IInv, NEW k \in RequestKinds, Call(k)
  PROVE  IInv'
<1> USE DEF IInv
<1>1. /\ k \in SlotKinds /\ k # "close" /\ type = "stream" /\ k \in KindsOf(type)
      /\ handle # "freed" /\ made < MaxCalls /\ fault = "none" /\ Store(k)
      /\ careful => k \notin PendingKinds /\ k # running.kind
      /\ UNCHANGED <<manner, handle, table, watched, running, heard, fault>>
  BY DEF Call, MayCall, SlotKinds, RequestKinds, KindsOf
<1>2. /\ made \in Nat /\ made' = made + 1 /\ made' \in 0 .. MaxCalls
      /\ Calls' = Calls \cup {made'} /\ made' \notin Calls
      /\ kindOf' \in [Calls' -> SlotKinds] /\ kindOf'[made'] = k
      /\ slot' \in [SlotKinds -> 0 .. made'] /\ slot'[k] = made'
      /\ \A c \in Calls : kindOf'[c] = kindOf[c]
  BY <1>1, Stored
<1>3. /\ asked \subseteq asked' /\ asked' \subseteq asked \cup {made'}
      /\ owned \subseteq owned' /\ owned' \subseteq owned \cup {made'}
      /\ \/ UNCHANGED <<pending, asked>>
         \/ handle = "open" /\ pending' = Append(pending, made') /\ asked' = asked \cup {made'}
  BY <1>2 DEF Call
<1>4. /\ pending' \in Seq(1 .. made')
      /\ Distinct(pending')
      /\ Members(pending') \subseteq asked'
      /\ \/ Members(pending') = Members(pending) /\ UNCHANGED <<pending, asked>>
         \/ Members(pending') = Members(pending) \cup {made'} /\ handle = "open"
  <2>1. made' \in Nat /\ made <= made' /\ made' \in 1 .. made'
    BY <1>2
  <2>2. pending \in Seq(1 .. made')
    BY <2>1, StillTyped
  <2>3. made' \notin Members(pending)
    BY <1>2, Named
  <2>4. Distinct(pending) /\ Members(pending) \subseteq asked
    BY DEF Held
  <2>5. /\ Append(pending, made') \in Seq(1 .. made')
        /\ Distinct(Append(pending, made'))
        /\ Members(Append(pending, made')) = Members(pending) \cup {made'}
    BY <2>1, <2>2, <2>3, <2>4, Join
  <2> QED  BY <1>3, <2>2, <2>4, <2>5
<1>5. TypeOK'
  <2>1. made' \in Nat /\ made <= made' /\ made' \in 1 .. made'
    BY <1>2
  <2>2. /\ caught \in Seq(1 .. made')
        /\ {on, repeats, owned, asked} \subseteq SUBSET (1 .. made')
        /\ {running.req, running.call} \subseteq 0 .. made'
        /\ heard \in Seq((1 .. made') \X (1 .. made'))
    BY <2>1, StillTyped
  <2>3. {on', repeats', owned', asked'} \subseteq SUBSET (1 .. made')
    BY <1>1, <1>3, <2>1, <2>2 DEF watched
  <2> QED  BY <1>1, <1>2, <1>4, <2>2, <2>3 DEF TypeOK, manner, watched, Calls
<1>6. /\ SlotIsLast' /\ RunningFits' /\ table' = "live"
      /\ handle' = "open" => \A c \in Calls' : kindOf'[c] # "close"
      /\ handle' = "closing" => slot'["close"] # 0
      /\ careful => fault' = "none" /\ RunningIntact'
  BY <1>1, StoreKeeps DEF TypeOK
<1>7. /\ \A r \in Members(pending) : kindOf'[r] \in RequestKinds
      /\ \A c \in on : kindOf'[c] \in EventKinds
      /\ \A c \in Members(caught) : kindOf'[c] \in Signals
      /\ \A r \in owned : kindOf'[r] \in RequestKinds
      /\ careful => \A r \in Members(pending) : slot'[kindOf'[r]] = r
      /\ \A i \in 1 .. Len(heard) : /\ kindOf'[heard[i][1]] = kindOf[heard[i][1]]
                                    /\ kindOf'[heard[i][2]] = kindOf[heard[i][2]]
  BY <1>1, StoreKeepsHeld
<1>8. Life'
  BY <1>1, <1>4, <1>6 DEF Life, watched, manner
<1>9. Held'
  <2>1. \A c \in Calls' : kindOf'[c] = "close" => c \in asked'
    BY <1>1, <1>2, <1>3 DEF Held
  <2> QED  BY <1>1, <1>2, <1>4, <1>7, <2>1 DEF Held, watched, manner
<1>10. Allocated'
  <2>1. asked \subseteq Calls /\ owned \subseteq Calls /\ running' = running
    BY <1>1 DEF TypeOK, Calls
  <2>2. ASSUME NEW r \in owned' PROVE kindOf'[r] \in RequestKinds
    BY <1>2, <1>3, <1>7, <2>2
  <2>3. ASSUME NEW r \in owned' \cap asked' PROVE r \in Members(pending') \cup {running.req}
    <3>1. CASE r = made'
      BY <1>2, <1>4, <2>1, <2>3, <3>1
    <3>2. CASE r # made'
      <4>1. r \in owned \cap asked
        BY <1>3, <2>3, <3>2
      <4>2. r \in Members(pending) \cup {running.req}
        BY <4>1 DEF Allocated
      <4> QED  BY <1>4, <4>2
    <3> QED  BY <3>1, <3>2
  <2> QED  BY <2>1, <2>2, <2>3 DEF Allocated
<1>11. Answered'
  <2>1. heard' = heard /\ handle' = handle /\ running' = running
    BY <1>1
  <2>2. ASSUME NEW i \in 1 .. Len(heard) PROVE heard[i][1] \in asked' \ Members(pending')
    BY <1>2, <1>3, <1>4, Named DEF Answered
  <2> QED  BY <1>7, <2>1, <2>2 DEF Answered
<1>12. Careful'
  BY <1>1, <1>2, <1>4, <1>6, <1>7 DEF Careful, manner
<1> QED  BY <1>5, <1>6, <1>8, <1>9, <1>10, <1>11, <1>12

\* A call that libuv makes no request of: only what it watches for may change.
WatchStep(k) ==
  /\ k \in EventKinds /\ k \in KindsOf(type)
  /\ made < MaxCalls /\ handle # "freed"
  /\ careful => k \notin PendingKinds /\ k # running.kind
  /\ Store(k)
  /\ on' \subseteq on \cup {made + 1}
  /\ handle # "open" => on' \subseteq on
  /\ k = "timer" /\ on # {} => on' = {made + 1}
  /\ repeats' \subseteq repeats \cup {made + 1}
  /\ UNCHANGED <<manner, handle, table, pending, asked, caught, running, owned, heard, fault>>

LEMMA WatchSteps ==
  ASSUME IInv
  PROVE  /\ \A k \in StreamEvents : Watch(k) => WatchStep(k)
         /\ \A repeat \in BOOLEAN : Start(repeat) => WatchStep("timer")
         /\ \A n \in Signals : Bind(n) => WatchStep(n)
<1>1. ASSUME NEW k \in StreamEvents, Watch(k) PROVE WatchStep(k)
  BY <1>1 DEF Watch, WatchStep, MayCall, KindsOf, EventKinds, StreamEvents
<1>2. ASSUME NEW repeat \in BOOLEAN, Start(repeat) PROVE WatchStep("timer")
  BY <1>2 DEF Start, WatchStep, MayCall, KindsOf, EventKinds, IInv, Life
<1>3. ASSUME NEW n \in Signals, Bind(n) PROVE WatchStep(n)
  BY <1>3, HandleAssumption DEF Bind, WatchStep, MayCall, KindsOf, EventKinds, IInv, TypeOK
<1> QED  BY <1>1, <1>2, <1>3

LEMMA WatchIInv ==
  ASSUME IInv, NEW k, WatchStep(k)
  PROVE  IInv'
<1> USE DEF IInv
<1>1. /\ k \in SlotKinds /\ k # "close" /\ k \in KindsOf(type)
      /\ handle # "freed" /\ made < MaxCalls /\ Store(k)
      /\ careful => k \notin PendingKinds /\ k # running.kind
      /\ UNCHANGED <<manner, handle, table, pending, asked, caught, running, owned, heard,
                     fault>>
  BY HandleAssumption DEF WatchStep, SlotKinds, EventKinds, StreamEvents
<1>2. /\ made \in Nat /\ made' = made + 1 /\ made' \in 0 .. MaxCalls
      /\ Calls' = Calls \cup {made'} /\ made' \notin Calls
      /\ kindOf' \in [Calls' -> SlotKinds] /\ kindOf'[made'] = k
      /\ slot' \in [SlotKinds -> 0 .. made'] /\ slot'[k] = made'
      /\ \A c \in Calls : kindOf'[c] = kindOf[c]
      /\ \A j \in SlotKinds \ {k} : slot'[j] = slot[j]
  BY <1>1, Stored
<1>3. /\ on' \subseteq on \cup {made'} /\ repeats' \subseteq repeats \cup {made'}
      /\ handle # "open" => on' \subseteq on
      /\ k = "timer" /\ on # {} => on' = {made'}
  BY <1>2 DEF WatchStep
<1>4. TypeOK'
  <2>1. made' \in Nat /\ made <= made' /\ made' \in 1 .. made'
    BY <1>2
  <2>2. /\ pending \in Seq(1 .. made') /\ caught \in Seq(1 .. made')
        /\ {on, repeats, owned, asked} \subseteq SUBSET (1 .. made')
        /\ {running.req, running.call} \subseteq 0 .. made'
        /\ heard \in Seq((1 .. made') \X (1 .. made'))
    BY <2>1, StillTyped
  <2>3. {on', repeats', owned', asked'} \subseteq SUBSET (1 .. made')
    BY <1>1, <1>3, <2>1, <2>2
  <2> QED  BY <1>1, <1>2, <2>2, <2>3 DEF TypeOK, manner, Calls
<1>5. /\ SlotIsLast' /\ RunningFits' /\ table' = "live"
      /\ handle' = "open" => \A c \in Calls' : kindOf'[c] # "close"
      /\ handle' = "closing" => slot'["close"] # 0
      /\ careful => fault' = "none" /\ RunningIntact'
  BY <1>1, StoreKeeps DEF TypeOK
<1>6. /\ \A r \in Members(pending) : kindOf'[r] \in RequestKinds
      /\ \A c \in on : kindOf'[c] \in EventKinds
      /\ \A c \in Members(caught) : kindOf'[c] \in Signals
      /\ \A r \in owned : kindOf'[r] \in RequestKinds
      /\ careful => \A r \in Members(pending) : slot'[kindOf'[r]] = r
      /\ \A i \in 1 .. Len(heard) : /\ kindOf'[heard[i][1]] = kindOf[heard[i][1]]
                                    /\ kindOf'[heard[i][2]] = kindOf[heard[i][2]]
  BY <1>1, StoreKeepsHeld
<1>7. Life'
  BY <1>1, <1>3, <1>5 DEF Life, manner
<1>8. Held'
  <2>1. \A c \in on' : kindOf'[c] \in EventKinds
    BY <1>2, <1>3, <1>6 DEF WatchStep
  <2>2. ASSUME type = "timer" PROVE on' \subseteq {slot'["timer"]}
    <3>1. k = "timer"
      BY <1>1, <2>2 DEF KindsOf
    <3> QED  BY <1>2, <1>3, <3>1
  <2>3. \A c \in Calls' : kindOf'[c] = "close" => c \in asked'
    BY <1>1, <1>2 DEF Held
  <2> QED  BY <1>1, <1>6, <2>1, <2>2, <2>3 DEF Held, manner
<1>9. Allocated' /\ Answered' /\ Careful'
  BY <1>1, <1>5, <1>6 DEF Allocated, Answered, Careful, manner
<1> QED  BY <1>4, <1>5, <1>7, <1>8, <1>9

\* A close of a handle that is open.
LEMMA CloseIInv ==
  ASSUME IInv, Close
  PROVE  IInv'
<1> USE DEF IInv
<1>1. /\ "close" \in SlotKinds /\ "close" \in KindsOf(type) /\ made < MaxCalls
      /\ handle = "open" /\ handle' = "closing" /\ on' = {} /\ fault = "none"
      /\ Store("close")
      /\ careful => "close" \notin PendingKinds /\ "close" # running.kind
      /\ UNCHANGED <<manner, table, pending, repeats, caught, running, owned, heard, fault>>
  BY DEF Close, MayCall, SlotKinds, KindsOf, TypeOK
<1>2. /\ made \in Nat /\ made' = made + 1 /\ made' \in 0 .. MaxCalls
      /\ Calls' = Calls \cup {made'} /\ made' \notin Calls
      /\ kindOf' \in [Calls' -> SlotKinds] /\ kindOf'[made'] = "close"
      /\ slot' \in [SlotKinds -> 0 .. made']
      /\ \A c \in Calls : kindOf'[c] = kindOf[c]
  BY <1>1, Stored
<1>3. asked' = asked \cup {made'}
  BY <1>2 DEF Close
<1>4. TypeOK'
  <2>1. made' \in Nat /\ made <= made' /\ made' \in 1 .. made'
    BY <1>2
  <2>2. /\ pending \in Seq(1 .. made') /\ caught \in Seq(1 .. made')
        /\ {on, repeats, owned, asked} \subseteq SUBSET (1 .. made')
        /\ {running.req, running.call} \subseteq 0 .. made'
        /\ heard \in Seq((1 .. made') \X (1 .. made'))
    BY <2>1, StillTyped
  <2>3. {on', repeats', owned', asked'} \subseteq SUBSET (1 .. made')
    BY <1>1, <1>3, <2>1, <2>2
  <2> QED  BY <1>1, <1>2, <2>2, <2>3 DEF TypeOK, manner, Calls
<1>5. /\ SlotIsLast' /\ RunningFits' /\ table' = "live"
      /\ slot'["close"] # 0
      /\ careful => fault' = "none" /\ RunningIntact'
  BY <1>1, StoreKeeps
<1>6. /\ \A r \in Members(pending) : kindOf'[r] \in RequestKinds
      /\ \A c \in Members(caught) : kindOf'[c] \in Signals
      /\ \A r \in owned : kindOf'[r] \in RequestKinds
      /\ careful => \A r \in Members(pending) : slot'[kindOf'[r]] = r
      /\ \A i \in 1 .. Len(heard) : /\ kindOf'[heard[i][1]] = kindOf[heard[i][1]]
                                    /\ kindOf'[heard[i][2]] = kindOf[heard[i][2]]
  BY <1>1, StoreKeepsHeld
<1>7. Life'
  BY <1>1, <1>5 DEF Life, TypeOK
<1>8. Held'
  <2>1. \A c \in Calls' : kindOf'[c] = "close" => c \in asked'
    BY <1>2, <1>3 DEF Held
  <2> QED  BY <1>1, <1>3, <1>6, <2>1 DEF Held, manner
<1>9. Allocated'
  BY <1>1, <1>2, <1>3, <1>6 DEF Allocated, TypeOK, Calls
<1>10. Answered'
  <2>1. heard' = heard /\ running' = running /\ pending' = pending /\ handle # "freed"
    BY <1>1
  <2> QED  BY <1>3, <1>6, <2>1 DEF Answered
<1>11. Careful'
  BY <1>1, <1>5, <1>6 DEF Careful, manner
<1> QED  BY <1>4, <1>5, <1>7, <1>8, <1>9, <1>10, <1>11

\* read_stop, stop and cancel.
LEMMA UnwatchIInv ==
  ASSUME IInv, Unwatch
  PROVE  IInv'
<1> USE DEF IInv
<1>1. /\ on' \subseteq on
      /\ UNCHANGED <<manner, handle, table, slot, calls, pending, repeats, caught, running,
                     owned, heard, fault>>
  BY DEF Unwatch
<1>2. TypeOK' /\ SlotIsLast'
  BY <1>1 DEF TypeOK, SlotIsLast, manner, calls, Calls
<1>3. Life' /\ RunningFits'
  BY <1>1 DEF Life, RunningFits, manner, calls, Calls
<1>4. Held' /\ Allocated'
  BY <1>1 DEF Held, Allocated, manner, calls, Calls
<1>5. Answered' /\ Careful'
  BY <1>1 DEF Answered, Careful, RunningIntact, manner, calls
<1> QED  BY <1>2, <1>3, <1>4, <1>5

-----------------------------------------------------------------------------
(* The loop *)

\* What libuv passes on reaches a callback of its kind, given with this call or a later
\* one of the kind; a timer's is its own.
LEMMA Invoked ==
  ASSUME IInv, InLoop, NEW r \in Calls, Invoke(kindOf[r], r),
         kindOf[r] = "timer" => r \in on,
         UNCHANGED <<manner, handle, table, slot, calls>>
  PROVE  /\ kindOf[r] \in SlotKinds /\ slot[kindOf[r]] \in Calls
         /\ running' = [kind |-> kindOf[r], req |-> r, call |-> slot[kindOf[r]]]
         /\ running' # Idle
         /\ fault' = "none" /\ table = "live"
         /\ SlotIsLast' /\ RunningFits' /\ RunningIntact'
         /\ slot[kindOf[r]] >= r /\ kindOf[slot[kindOf[r]]] = kindOf[r]
         /\ heard' \in Seq(Calls \X Calls)
<1> DEFINE k == kindOf[r]
           c == slot[k]
<1> USE DEF IInv
<1>1. k \in SlotKinds /\ k \in KindsOf(type) /\ table = "live" /\ made \in Nat
  BY DEF TypeOK, Calls, SlotIsLast, InLoop, Life
<1>2. c \in Calls /\ c >= r
  <2>1. c \in 0 .. made /\ r \in 1 .. made /\ r <= c
    BY <1>1 DEF TypeOK, Calls, SlotIsLast
  <2> QED  BY <2>1 DEF Calls
<1>3. kindOf[c] = k
  <2>1. c # 0
    BY <1>1, <1>2 DEF Calls
  <2> QED  BY <1>1, <2>1 DEF SlotIsLast
<1>4. running' = [kind |-> k, req |-> r, call |-> c] /\ fault' = "none"
  <2>1. c # 0
    BY <1>1, <1>2 DEF Calls
  <2> QED  BY <1>1, <2>1 DEF Invoke
<1>5. k = "timer" => c = r
  <2> SUFFICES ASSUME k = "timer" PROVE c = r
    OBVIOUS
  <2>1. type = "timer"
    BY <1>1, HandleAssumption DEF KindsOf, RequestKinds, StreamEvents, TypeOK
  <2> QED  BY <2>1 DEF Held
<1>6. kindOf' = kindOf /\ slot' = slot /\ table' = table /\ type' = type /\ Calls' = Calls
      /\ made' = made
  BY DEF calls, manner, Calls
<1>7. SlotIsLast'
  BY <1>6 DEF SlotIsLast
<1>8. RunningFits'
  BY <1>1, <1>2, <1>3, <1>4, <1>5, <1>6 DEF RunningFits
<1>9. running' # Idle
  <2>1. running'.req = r /\ Idle.req = 0 /\ r # 0
    BY <1>1, <1>4 DEF Idle, Calls
  <2> QED  BY <2>1
<1>10. RunningIntact'
  BY <1>1, <1>4, <1>6 DEF RunningIntact
<1>11. heard' \in Seq(Calls \X Calls)
  <2>1. heard \in Seq(Calls \X Calls) /\ <<r, c>> \in Calls \X Calls
    BY <1>2 DEF TypeOK, Calls
  <2>2. Append(heard, <<r, c>>) \in Seq(Calls \X Calls)
    BY <2>1, AppendProperties
  <2> QED  BY <2>1, <2>2 DEF Invoke
<1> QED  BY <1>1, <1>2, <1>3, <1>4, <1>7, <1>8, <1>9, <1>10, <1>11

\* An event changes what libuv watches for and has caught, and is no answer.
LEMMA EventPassedOn ==
  ASSUME IInv, InLoop, NEW r \in Calls, kindOf[r] \in EventKinds, Invoke(kindOf[r], r),
         kindOf[r] = "timer" => r \in on,
         on' \subseteq on, caught' \in Seq(Calls), Members(caught') \subseteq Members(caught),
         UNCHANGED <<manner, handle, table, slot, calls, pending, repeats, owned>>
  PROVE  IInv'
<1> USE DEF IInv
<1>1. /\ running' \in [kind : SlotKinds, req : Calls, call : Calls] /\ running' # Idle
      /\ running'.kind = kindOf[r] /\ fault' = "none" /\ table = "live"
      /\ SlotIsLast' /\ RunningFits' /\ RunningIntact'
  <2>1. /\ kindOf[r] \in SlotKinds /\ slot[kindOf[r]] \in Calls
        /\ running' = [kind |-> kindOf[r], req |-> r, call |-> slot[kindOf[r]]]
        /\ running' # Idle /\ fault' = "none" /\ table = "live"
        /\ SlotIsLast' /\ RunningFits' /\ RunningIntact'
    BY Invoked
  <2> QED  BY <2>1
<1>2. heard' = heard /\ kindOf' = kindOf /\ made' = made /\ asked' = asked
  BY DEF Invoke, calls
<1>3. running = Idle /\ handle # "freed" /\ kindOf[r] # "close"
  BY HandleAssumption DEF InLoop, EventKinds, StreamEvents
<1>4. TypeOK'
  <2>1. /\ running'.kind \in SlotKinds /\ {running'.req, running'.call} \subseteq 0 .. made
        /\ made \in Nat
    <3>1. made \in Nat /\ Calls \subseteq 0 .. made
      BY DEF TypeOK, Calls
    <3>2. running'.kind \in SlotKinds /\ running'.req \in Calls /\ running'.call \in Calls
      BY <1>1
    <3> QED  BY <3>1, <3>2
  <2>2. caught' \in Seq(1 .. made) /\ on' \subseteq 1 .. made
    BY DEF TypeOK, Calls
  <2>3. {on', repeats', owned', asked'} \subseteq SUBSET (1 .. made)
    BY <1>2, <2>2 DEF TypeOK
  <2>4. slot' = slot /\ pending' = pending
    BY DEF calls
  <2> QED  BY <1>1, <1>2, <2>1, <2>2, <2>3, <2>4 DEF TypeOK, manner
<1>5. Life'
  BY <1>1, <1>2, <1>3 DEF Life, manner, Calls
<1>6. Held'
  BY <1>2 DEF Held, manner, Calls
<1>7. Allocated'
  BY <1>2, <1>3 DEF Allocated, Idle, TypeOK
<1>8. Answered'
  BY <1>2, <1>3 DEF Answered, Idle
<1>9. Careful'
  BY <1>1, <1>2 DEF Careful, manner
<1> QED  BY <1>1, <1>4, <1>5, <1>6, <1>7, <1>8, <1>9

LEMMA EventIInv ==
  ASSUME IInv, NEW c, Event(c)
  PROVE  IInv'
<1>1. /\ InLoop /\ c \in on /\ on' \subseteq on /\ Invoke(kindOf[c], c)
      /\ UNCHANGED <<manner, handle, table, slot, calls, pending, repeats, caught, owned>>
  BY DEF Event
<1>2. c \in Calls /\ kindOf[c] \in EventKinds /\ caught \in Seq(Calls)
  BY <1>1 DEF IInv, TypeOK, Held, Calls
<1> QED  BY <1>1, <1>2, EventPassedOn

LEMMA CatchIInv ==
  ASSUME IInv, NEW c, Catch(c)
  PROVE  IInv'
<1> USE DEF IInv
<1>1. /\ type = "signal" /\ c \in on /\ caught' = Append(caught, c)
      /\ UNCHANGED <<manner, handle, table, slot, calls, pending, on, repeats, running,
                     owned, heard, fault>>
  BY DEF Catch
<1>2. caught \in Seq(Calls) /\ c \in Calls
  BY <1>1 DEF TypeOK, Calls
<1>3. caught' \in Seq(Calls) /\ Members(caught') = Members(caught) \cup {c}
  BY <1>1, <1>2, Join
<1>4. kindOf[c] \in Signals
  <2>1. kindOf[c] \in EventKinds /\ kindOf[c] \in Signals \cup {"close"}
    BY <1>1, <1>2 DEF Held, SlotIsLast, KindsOf, Calls
  <2> QED  BY <2>1, HandleAssumption DEF EventKinds, StreamEvents
<1>5. handle = "open" /\ running.kind # "close"
  BY <1>1 DEF Life, TypeOK
<1>6. TypeOK' /\ SlotIsLast'
  BY <1>1, <1>3 DEF TypeOK, SlotIsLast, manner, calls, Calls
<1>7. Life' /\ RunningFits'
  BY <1>1, <1>5 DEF Life, RunningFits, manner, calls, Calls
<1>8. Held' /\ Allocated'
  BY <1>1, <1>3, <1>4 DEF Held, Allocated, manner, calls, Calls
<1>9. Answered' /\ Careful'
  BY <1>1 DEF Answered, Careful, RunningIntact, manner, calls
<1> QED  BY <1>6, <1>7, <1>8, <1>9

LEMMA DeliverIInv ==
  ASSUME IInv, Deliver
  PROVE  IInv'
<1> USE DEF IInv
<1> DEFINE c == Head(caught)
<1>1. /\ InLoop /\ caught # << >> /\ caught' = Tail(caught)
      /\ \/ Invoke(kindOf[c], c)
         \/ UNCHANGED <<running, heard, fault>>
      /\ UNCHANGED <<manner, handle, table, slot, calls, pending, on, repeats, owned>>
  BY DEF Deliver
<1>2. caught \in Seq(Calls)
  BY DEF TypeOK, Calls
<1>3. /\ c \in Members(caught) /\ Members(caught) \subseteq Calls
      /\ caught' \in Seq(Calls) /\ Members(caught') \subseteq Members(caught)
  <2>1. c \in Members(caught) /\ caught' \in Seq(Calls) /\ Members(caught') \subseteq Members(caught)
    BY <1>1, <1>2, Leave
  <2> QED  BY <2>1, Named
<1>4. kindOf[c] \in EventKinds /\ kindOf[c] # "timer"
  BY <1>3, HandleAssumption DEF Held, EventKinds
<1> HIDE DEF c
<1>5. CASE Invoke(kindOf[c], c)
  BY <1>1, <1>3, <1>4, <1>5, EventPassedOn
<1>6. CASE UNCHANGED <<running, heard, fault>>
  <2>1. handle # "freed" /\ running.kind # "close"
    BY <1>1 DEF InLoop, Idle
  <2>2. TypeOK' /\ SlotIsLast'
    BY <1>1, <1>3, <1>6 DEF TypeOK, SlotIsLast, manner, calls, Calls
  <2>3. Life' /\ RunningFits'
    BY <1>1, <1>6, <2>1 DEF Life, RunningFits, manner, calls, Calls
  <2>4. Held' /\ Allocated'
    BY <1>1, <1>3, <1>6 DEF Held, Allocated, manner, calls, Calls
  <2>5. Answered' /\ Careful'
    BY <1>1, <1>6 DEF Answered, Careful, RunningIntact, manner, calls
  <2> QED  BY <2>2, <2>3, <2>4, <2>5
<1> QED  BY <1>1, <1>5, <1>6

\* The answer to a request, or to the close.
LEMMA HeardOnce ==
  ASSUME IInv, InLoop, NEW r \in Calls, kindOf[r] \in RequestKinds \cup {"close"},
         Invoke(kindOf[r], r), UNCHANGED <<manner, handle, table, slot, calls>>
  PROVE  /\ heard' = Append(heard, <<r, slot[kindOf[r]]>>)
         /\ Len(heard') = Len(heard) + 1 /\ Len(heard) \in Nat
         /\ \A i \in 1 .. Len(heard') :
              \/ i \in 1 .. Len(heard) /\ heard'[i] = heard[i]
              \/ heard'[i][1] = r /\ heard'[i][2] = slot[kindOf[r]]
<1>1. kindOf[r] \notin EventKinds
  BY HandleAssumption DEF RequestKinds, EventKinds, StreamEvents
<1>2. kindOf[r] # "timer"
  BY <1>1 DEF EventKinds
<1>3. slot[kindOf[r]] \in Calls
  BY <1>2, Invoked
<1>4. heard' = Append(heard, <<r, slot[kindOf[r]]>>)
  BY <1>1 DEF Invoke
<1>5. heard \in Seq(Calls \X Calls) /\ <<r, slot[kindOf[r]]>> \in Calls \X Calls
  BY <1>3 DEF IInv, TypeOK, Calls
<1>6. /\ Len(heard') = Len(heard) + 1 /\ Len(heard) \in Nat
      /\ \A i \in 1 .. Len(heard) : heard'[i] = heard[i]
      /\ heard'[Len(heard) + 1] = <<r, slot[kindOf[r]]>>
  BY <1>4, <1>5, AppendProperties
<1>7. ASSUME NEW i \in 1 .. Len(heard')
      PROVE  i \in 1 .. Len(heard) \/ i = Len(heard) + 1
  BY <1>6
<1> QED  BY <1>4, <1>6, <1>7

LEMMA AnswerIInv ==
  ASSUME IInv, Answer
  PROVE  IInv'
<1> USE DEF IInv
<1> DEFINE r == Head(pending)
<1>1. /\ InLoop /\ pending # << >> /\ pending' = Tail(pending) /\ Invoke(kindOf[r], r)
      /\ UNCHANGED <<manner, handle, table, slot, calls, watched, owned>>
  BY DEF Answer
<1>2. pending \in Seq(Calls) /\ Distinct(pending)
  BY DEF TypeOK, Held, Calls
<1>3. /\ r \in Members(pending)
      /\ pending' \in Seq(Calls) /\ Distinct(pending')
      /\ Members(pending') = Members(pending) \ {r}
  BY <1>1, <1>2, Leave
<1>4. r \in Calls /\ r \in asked /\ kindOf[r] \in RequestKinds /\ kindOf[r] # "timer"
  BY <1>3, Named DEF Held, RequestKinds
<1> HIDE DEF r
<1>5. /\ kindOf[r] \in SlotKinds /\ slot[kindOf[r]] \in Calls
      /\ running' = [kind |-> kindOf[r], req |-> r, call |-> slot[kindOf[r]]]
      /\ fault' = "none" /\ SlotIsLast' /\ RunningFits' /\ RunningIntact'
      /\ slot[kindOf[r]] >= r /\ kindOf[slot[kindOf[r]]] = kindOf[r]
      /\ heard' \in Seq(Calls \X Calls)
  BY <1>1, <1>4, Invoked
<1>6. running = Idle /\ handle # "freed" /\ kindOf[r] # "close"
  BY <1>1, <1>4 DEF InLoop, RequestKinds
<1>7. kindOf' = kindOf /\ made' = made /\ asked' = asked /\ slot' = slot /\ careful' = careful
  BY <1>1 DEF calls, manner
<1>8. TypeOK'
  <2>1. /\ running'.kind \in SlotKinds /\ {running'.req, running'.call} \subseteq 0 .. made
        /\ made \in Nat
    BY <1>4, <1>5 DEF TypeOK, Calls
  <2> QED  BY <1>1, <1>3, <1>5, <1>7, <2>1 DEF TypeOK, manner, watched, Calls
<1>9. Life'
  BY <1>1, <1>5, <1>6, <1>7 DEF Life, manner, watched, Calls
<1>10. Held'
  BY <1>1, <1>3, <1>7 DEF Held, manner, watched, Calls
<1>11. Allocated'
  BY <1>1, <1>3, <1>5, <1>6, <1>7 DEF Allocated, Idle, TypeOK
<1>12. Answered'
  <2>1. \A i \in 1 .. Len(heard') :
          \/ i \in 1 .. Len(heard) /\ heard'[i] = heard[i]
          \/ heard'[i][1] = r /\ heard'[i][2] = slot[kindOf[r]]
    BY <1>1, <1>4, HeardOnce
  <2> SUFFICES ASSUME NEW i \in 1 .. Len(heard')
               PROVE  /\ heard'[i][1] \in asked \ Members(pending')
                      /\ heard'[i][2] >= heard'[i][1]
                      /\ kindOf[heard'[i][2]] = kindOf[heard'[i][1]]
                      /\ kindOf[heard'[i][1]] \in RequestKinds \cup {"close"}
                      /\ kindOf[heard'[i][1]] # "close"
    BY <1>7 DEF Answered
  <2>2. CASE i \in 1 .. Len(heard) /\ heard'[i] = heard[i]
    BY <1>3, <1>6, <2>2 DEF Answered, Idle
  <2>3. CASE heard'[i][1] = r /\ heard'[i][2] = slot[kindOf[r]]
    BY <1>3, <1>4, <1>5, <1>6, <2>3
  <2> QED  BY <2>1, <2>2, <2>3
<1>13. Careful'
  BY <1>3, <1>5, <1>7 DEF Careful
<1> QED  BY <1>5, <1>8, <1>9, <1>10, <1>11, <1>12, <1>13

LEMMA AnswerCloseIInv ==
  ASSUME IInv, AnswerClose
  PROVE  IInv'
<1> USE DEF IInv
<1> DEFINE r == slot["close"]
<1>1. /\ InLoop /\ handle = "closing" /\ pending = << >> /\ caught = << >> /\ Invoke("close", r)
      /\ UNCHANGED <<manner, handle, table, slot, calls, pending, watched, owned>>
  BY DEF AnswerClose
<1>2. "close" \in SlotKinds
  BY DEF SlotKinds
<1>3. r \in Calls /\ kindOf[r] = "close"
  BY <1>1, <1>2 DEF TypeOK, Life, SlotIsLast, Calls
<1>4. r \in asked
  BY <1>3 DEF Held
<1> HIDE DEF r
<1>5. /\ r = slot[kindOf[r]]
      /\ running' = [kind |-> "close", req |-> r, call |-> r]
      /\ fault' = "none" /\ SlotIsLast' /\ RunningFits' /\ RunningIntact'
      /\ heard' \in Seq(Calls \X Calls)
  <2>1. r = slot[kindOf[r]] /\ Invoke(kindOf[r], r)
    BY <1>1, <1>3 DEF r
  <2> QED  BY <1>1, <1>3, <2>1, Invoked DEF watched
<1>6. running = Idle /\ \A c \in Members(pending) : FALSE
  BY <1>1 DEF InLoop, Members
<1>7. kindOf' = kindOf /\ made' = made /\ asked' = asked /\ slot' = slot /\ careful' = careful
  BY <1>1 DEF calls, manner
<1>8. TypeOK'
  <2>1. made \in Nat /\ r \in 0 .. made
    BY <1>3 DEF TypeOK, Calls
  <2> QED  BY <1>1, <1>2, <1>5, <1>7, <2>1 DEF TypeOK, manner, watched, Calls
<1>9. Life'
  BY <1>1, <1>5, <1>7 DEF Life, manner, watched, Calls
<1>10. Held'
  BY <1>1, <1>7 DEF Held, manner, watched, Calls
<1>11. Allocated'
  BY <1>1, <1>6, <1>7 DEF Allocated, Idle, TypeOK
<1>12. Answered'
  <2>1. \A i \in 1 .. Len(heard') :
          \/ i \in 1 .. Len(heard) /\ heard'[i] = heard[i]
          \/ heard'[i][1] = r /\ heard'[i][2] = r
    <3>1. kindOf[r] \in RequestKinds \cup {"close"} /\ Invoke(kindOf[r], r)
      BY <1>1, <1>3 DEF r
    <3>2. \A i \in 1 .. Len(heard') :
            \/ i \in 1 .. Len(heard) /\ heard'[i] = heard[i]
            \/ heard'[i][1] = r /\ heard'[i][2] = slot[kindOf[r]]
      BY <1>1, <1>3, <3>1, HeardOnce
    <3> QED  BY <1>5, <3>2
  <2>2. running'.kind = "close" /\ Members(pending') = {}
    BY <1>1, <1>5, <1>6
  <2>3. ASSUME NEW i \in 1 .. Len(heard')
        PROVE  /\ heard'[i][1] \in asked \ Members(pending')
               /\ heard'[i][2] >= heard'[i][1]
               /\ kindOf[heard'[i][2]] = kindOf[heard'[i][1]]
               /\ kindOf[heard'[i][1]] \in RequestKinds \cup {"close"}
    <3>1. CASE i \in 1 .. Len(heard) /\ heard'[i] = heard[i]
      BY <2>2, <3>1 DEF Answered
    <3>2. CASE heard'[i][1] = r /\ heard'[i][2] = r
      BY <1>3, <1>4, <2>2, <3>2 DEF Calls
    <3> QED  BY <2>1, <3>1, <3>2
  <2> QED  BY <1>7, <2>2, <2>3 DEF Answered
<1>13. Careful'
  BY <1>1, <1>5, <1>6, <1>7 DEF Careful
<1> QED  BY <1>5, <1>8, <1>9, <1>10, <1>11, <1>12, <1>13

LEMMA ReturnIInv ==
  ASSUME IInv, Return
  PROVE  IInv'
<1> USE DEF IInv
<1>1. /\ running # Idle /\ running.kind # "close" /\ running' = Idle
      /\ owned' = owned \ {running.req}
      /\ UNCHANGED <<manner, handle, table, slot, calls, pending, watched, heard, fault>>
  BY DEF Return
<1>2. handle # "freed"
  BY <1>1 DEF Life
<1>3. TypeOK' /\ SlotIsLast'
  BY <1>1 DEF TypeOK, SlotIsLast, manner, calls, watched, Calls, Idle
<1>4. Life' /\ RunningFits'
  BY <1>1, <1>2 DEF Life, RunningFits, manner, calls, watched, Calls, Idle
<1>5. Held' /\ Allocated'
  BY <1>1 DEF Held, Allocated, manner, calls, watched, Calls, Idle
<1>6. Answered' /\ Careful'
  BY <1>1, <1>2 DEF Answered, Careful, RunningIntact, manner, calls, Idle
<1> QED  BY <1>3, <1>4, <1>5, <1>6

LEMMA CloseReturnIInv ==
  ASSUME IInv, CloseReturn
  PROVE  IInv'
<1> USE DEF IInv
<1>1. /\ running.kind = "close" /\ running' = Idle
      /\ handle' = "freed" /\ table' = "deleted"
      /\ slot' = [k \in SlotKinds |-> 0]
      /\ fault = "none"
      /\ UNCHANGED <<manner, calls, pending, watched, owned, heard, fault>>
  BY DEF CloseReturn
<1>2. /\ handle = "closing" /\ pending = << >> /\ caught = << >> /\ on = {}
      /\ Members(pending) = {}
  BY <1>1 DEF Life, Members
<1>3. running.req \notin owned
  <2>1. running # Idle
    BY <1>1 DEF Idle
  <2>2. kindOf[running.req] = "close"
    BY <1>1, <2>1 DEF RunningFits
  <2> QED  BY <2>2 DEF Allocated, RequestKinds
<1>4. TypeOK' /\ SlotIsLast'
  BY <1>1 DEF TypeOK, SlotIsLast, manner, calls, watched, Calls, Idle
<1>5. Life' /\ RunningFits'
  BY <1>1, <1>2 DEF Life, RunningFits, manner, calls, watched, Calls, Idle
<1>6. Held' /\ Allocated'
  BY <1>1, <1>2, <1>3 DEF Held, Allocated, manner, calls, watched, Calls, Idle
<1>7. Answered' /\ Careful'
  BY <1>1, <1>2 DEF Answered, Careful, RunningIntact, manner, calls, Idle
<1> QED  BY <1>4, <1>5, <1>6, <1>7

\* The steps that end a run.
LEMMA FaultIInv ==
  ASSUME IInv, Throw \/ UseFreed \/ \E n \in Signals : BindClosing(n)
  PROVE  IInv'
<1> USE DEF IInv
<1>1. /\ ~careful /\ owned' \subseteq owned
      /\ fault' \in {"thrown", "asserted"} \/ (fault' = "freed" /\ handle = "freed")
      /\ UNCHANGED <<manner, handle, table, slot, calls, pending, watched, running, heard>>
  BY DEF Throw, UseFreed, BindClosing
<1>2. TypeOK' /\ SlotIsLast'
  <2>1. {on', repeats', owned', asked'} \subseteq SUBSET (1 .. made)
    BY <1>1 DEF TypeOK, calls, watched
  <2>2. TypeOK'
    BY <1>1, <2>1 DEF TypeOK, manner, calls, watched
  <2>3. SlotIsLast'
    BY <1>1 DEF SlotIsLast, manner, calls, Calls
  <2> QED  BY <2>2, <2>3
<1>3. Life' /\ RunningFits'
  <2>1. Life'
    BY <1>1 DEF Life, manner, calls, watched, Calls
  <2>2. RunningFits'
    BY <1>1 DEF RunningFits, manner, calls, Calls
  <2> QED  BY <2>1, <2>2
<1>4. Held' /\ Allocated'
  <2>1. Held'
    BY <1>1 DEF Held, manner, calls, watched, Calls
  <2>2. Allocated'
    BY <1>1 DEF Allocated, calls, watched
  <2> QED  BY <2>1, <2>2
<1>5. Answered' /\ Careful'
  BY <1>1 DEF Answered, Careful, manner, calls
<1> QED  BY <1>2, <1>3, <1>4, <1>5

LEMMA StutterIInv == IInv /\ UNCHANGED vars => IInv'
<1> SUFFICES ASSUME IInv, UNCHANGED vars PROVE IInv'
  OBVIOUS
<1> USE DEF IInv, vars, manner, calls, watched, Calls
<1>1. TypeOK' /\ SlotIsLast'
  BY DEF TypeOK, SlotIsLast
<1>2. Life' /\ RunningFits'
  BY DEF Life, RunningFits
<1>3. Held' /\ Allocated'
  BY DEF Held, Allocated
<1>4. Answered' /\ Careful'
  BY DEF Answered, Careful, RunningIntact
<1> QED  BY <1>1, <1>2, <1>3, <1>4

-----------------------------------------------------------------------------
LEMMA NextIInv == IInv /\ [Next]_vars => IInv'
<1> SUFFICES ASSUME IInv, [Next]_vars PROVE IInv'
  OBVIOUS
<1>1. CASE \E k \in RequestKinds : Call(k)
  BY <1>1, CallIInv
<1>2. CASE \E k \in StreamEvents : Watch(k)
  BY <1>2, WatchSteps, WatchIInv
<1>3. CASE \E repeat \in BOOLEAN : Start(repeat)
  BY <1>3, WatchSteps, WatchIInv
<1>4. CASE \E n \in Signals : Bind(n)
  BY <1>4, WatchSteps, WatchIInv
<1>5. CASE \E c \in 1 .. MaxCalls : Event(c) \/ Catch(c)
  BY <1>5, EventIInv, CatchIInv
<1>6. CASE Unwatch \/ Close
  BY <1>6, UnwatchIInv, CloseIInv
<1>7. CASE Deliver
  BY <1>7, DeliverIInv
<1>8. CASE Answer \/ AnswerClose
  BY <1>8, AnswerIInv, AnswerCloseIInv
<1>9. CASE Return \/ CloseReturn
  BY <1>9, ReturnIInv, CloseReturnIInv
<1>10. CASE Throw \/ UseFreed \/ \E n \in Signals : BindClosing(n)
  BY <1>10, FaultIInv
<1>11. CASE UNCHANGED vars
  BY <1>11, StutterIInv
<1> QED
  BY <1>1, <1>2, <1>3, <1>4, <1>5, <1>6, <1>7, <1>8, <1>9, <1>10, <1>11 DEF Next

\* The inductive invariant holds.
THEOREM Invariance == Spec => []IInv
  BY InitIInv, NextIInv, PTL DEF Spec

\* What libuv holds of the program is alive, and nothing else is kept for it: every
\* answer finds a callback, and only refused calls and foreign exceptions leak
\* (HandleSound).
THEOREM HandleIsSound == Spec => []HandleSound
<1>1. IInv => HandleSound
  <2> SUFFICES ASSUME IInv PROVE HandleSound
    OBVIOUS
  <2> USE DEF IInv
  <2>1. ASSUME NEW c \in Members(pending) \cup on
        PROVE  table = "live" /\ slot[kindOf[c]] # 0
    <3>1. handle # "freed"
      BY <2>1 DEF Life, Members
    <3>2. table = "live" /\ c \in Calls /\ made \in Nat
      BY <2>1, <3>1, Named DEF Life, TypeOK, Calls
    <3>3. c <= slot[kindOf[c]] /\ slot[kindOf[c]] \in 0 .. made
      BY <3>2 DEF SlotIsLast, TypeOK, Calls
    <3> QED  BY <3>2, <3>3 DEF Calls
  <2>2. handle = "closing" => table = "live" /\ slot["close"] # 0
    BY DEF Life, TypeOK
  <2>3. SomethingToInvoke
    BY <2>1, <2>2 DEF SomethingToInvoke, PendingKinds, Members
  <2>4. LeakForCause
    BY DEF LeakForCause, Allocated, Members
  <2> QED  BY <2>3, <2>4 DEF HandleSound
<1> QED  BY <1>1, Invariance, PTL

\* An answer goes to the callback of its call or of a later call of the same kind, and
\* that of a timer to its own (MisheardForCause).
THEOREM MisheardOnlyByLater == Spec => []MisheardForCause
<1>1. IInv => MisheardForCause
  <2> SUFFICES ASSUME IInv PROVE MisheardForCause
    OBVIOUS
  <2>1. CASE running = Idle
    BY <2>1, HandleAssumption DEF IInv, Answered, MisheardForCause, Idle, EventKinds, StreamEvents
  <2>2. CASE running # Idle
    BY <2>2 DEF IInv, Answered, RunningFits, MisheardForCause
  <2> QED  BY <2>1, <2>2
<1> QED  BY <1>1, Invariance, PTL

\* A careful application uses nothing that was freed and destroys no running callback
\* (CarefulIsSafe).
THEOREM CarefulNeverFaults == Spec => []CarefulIsSafe
<1>1. IInv => CarefulIsSafe
  BY DEF IInv, Careful, CarefulIsSafe
<1> QED  BY <1>1, Invariance, PTL

-----------------------------------------------------------------------------
(* The promise to a careful application *)

LEMMA InitPromise == Init => Promise!Init
  BY DEF Init, Promise!Init

\* A call that libuv takes is a request; no other call is one.
LEMMA AskPromise ==
  ASSUME IInv, careful, UNCHANGED <<careful, heard>>, made \in Nat, made < MaxCalls,
         asked' \in {asked, asked \cup {made + 1}}
  PROVE  Promise!Next \/ UNCHANGED <<IF careful THEN asked ELSE {}, IF careful THEN heard ELSE << >> >>
<1>1. CASE asked' = asked
  BY <1>1
<1>2. CASE asked' = asked \cup {made + 1}
  <2>1. made + 1 \in 1 .. MaxCalls /\ made + 1 \notin asked
    BY HandleAssumption DEF IInv, TypeOK
  <2> QED  BY <1>2, <2>1 DEF Promise!Next, Promise!Ask
<1> QED  BY <1>1, <1>2

\* The answer to a request of a careful application is its first, by its own callback.
LEMMA AnswerPromise ==
  ASSUME IInv, careful, UNCHANGED <<careful, asked>>, NEW r \in asked,
         \A i \in 1 .. Len(heard) : heard[i][1] # r,
         heard' = Append(heard, <<r, r>>)
  PROVE  Promise!Next
<1>1. r \in 1 .. MaxCalls
  BY HandleAssumption DEF IInv, TypeOK
<1>2. Promise!Answer(r)
  BY DEF Promise!Answer, Promise!Heard
<1> QED  BY <1>1, <1>2 DEF Promise!Next

LEMMA StepPromise ==
  IInv /\ [Next]_vars =>
    [Promise!Next]_<<IF careful THEN asked ELSE {}, IF careful THEN heard ELSE << >> >>
<1> SUFFICES ASSUME IInv, [Next]_vars
             PROVE  \/ Promise!Next
                    \/ UNCHANGED <<IF careful THEN asked ELSE {},
                                   IF careful THEN heard ELSE << >> >>
  OBVIOUS
<1>1. careful' = careful
  <2>1. UNCHANGED manner
    BY DEF Next, Call, Watch, Start, Bind, BindClosing, Event, Catch, Unwatch, Close, UseFreed, Deliver,
           Answer, AnswerClose, Return, CloseReturn, Throw, vars
  <2> QED  BY <2>1 DEF manner
<1>2. CASE ~careful
  BY <1>1, <1>2
<1>3. CASE careful /\ ((\E k \in RequestKinds : Call(k)) \/ Close)
  <2>1. made < MaxCalls /\ made \in Nat /\ UNCHANGED heard
        /\ asked' \in {asked, asked \cup {made + 1}}
    BY <1>3, HandleAssumption DEF Call, Close, MayCall, IInv, TypeOK
  <2> QED  BY <1>1, <1>3, <2>1, AskPromise
<1>4. CASE careful /\ Answer
  <2> DEFINE r == Head(pending)
  <2>1. /\ InLoop /\ pending # << >> /\ Invoke(kindOf[r], r)
        /\ UNCHANGED <<manner, handle, table, slot, calls>>
    BY <1>4 DEF Answer
  <2>2. pending \in Seq(Calls)
    BY DEF IInv, TypeOK, Calls
  <2>3. r \in Members(pending) /\ Members(pending) \subseteq Calls
    BY <2>1, <2>2, Leave, Named DEF IInv
  <2>4. /\ r \in asked /\ r \in Calls /\ kindOf[r] \in RequestKinds /\ slot[kindOf[r]] = r
        /\ \A i \in 1 .. Len(heard) : heard[i][1] # r
    BY <1>4, <2>3 DEF IInv, Held, Careful, Answered
  <2> HIDE DEF r
  <2>5. heard' = Append(heard, <<r, r>>)
    BY <2>1, <2>4, HeardOnce
  <2> QED  BY <1>1, <1>4, <2>1, <2>4, <2>5, AnswerPromise DEF calls
<1>5. CASE careful /\ AnswerClose
  <2> DEFINE r == slot["close"]
  <2>1. /\ InLoop /\ handle = "closing" /\ Invoke("close", r)
        /\ UNCHANGED <<manner, handle, table, slot, calls>>
    BY <1>5 DEF AnswerClose
  <2>2. "close" \in SlotKinds
    BY DEF SlotKinds
  <2>3. r \in Calls /\ kindOf[r] = "close"
    <3>1. r \in 0 .. made /\ r # 0 /\ made \in Nat
      BY <2>1, <2>2 DEF IInv, TypeOK, Life
    <3>2. kindOf[r] = "close"
      BY <2>2, <3>1 DEF IInv, SlotIsLast
    <3> QED  BY <3>1, <3>2 DEF Calls
  <2>4. r \in asked /\ \A i \in 1 .. Len(heard) : heard[i][1] # r
    BY <2>1, <2>3 DEF IInv, Held, Answered, InLoop, Idle
  <2>5. heard' = Append(heard, <<r, slot[kindOf[r]]>>)
    BY <2>1, <2>3, HeardOnce
  <2>6. slot[kindOf[r]] = r
    BY <2>3
  <2> HIDE DEF r
  <2> QED  BY <1>1, <1>5, <2>1, <2>4, <2>5, <2>6, AnswerPromise DEF calls
<1>6. CASE UNCHANGED <<asked, heard>>
  BY <1>1, <1>6
<1>7. (\E k \in StreamEvents : Watch(k)) \/ (\E repeat \in BOOLEAN : Start(repeat))
        \/ (\E n \in Signals : Bind(n) \/ BindClosing(n)) \/ (\E c \in 1 .. MaxCalls : Event(c) \/ Catch(c))
        \/ Unwatch \/ UseFreed \/ Deliver \/ Return \/ CloseReturn \/ Throw \/ UNCHANGED vars
      => UNCHANGED <<asked, heard>>
  <2>1. ASSUME NEW c, Event(c) PROVE UNCHANGED <<asked, heard>>
    <3>1. kindOf[c] \in EventKinds
      BY <2>1 DEF Event, IInv, Held
    <3> QED  BY <2>1, <3>1 DEF Event, Invoke, calls
  <2>2. ASSUME Deliver PROVE UNCHANGED <<asked, heard>>
    <3> DEFINE c == Head(caught)
    <3>1. caught # << >> /\ caught \in Seq(Calls)
      BY <2>2 DEF Deliver, IInv, TypeOK, Calls
    <3>2. c \in Members(caught)
      BY <3>1, Leave
    <3>3. kindOf[c] \in EventKinds
      BY <3>2 DEF IInv, Held, EventKinds
    <3> QED  BY <2>2, <3>3 DEF Deliver, Invoke, calls
  <2> QED
    BY <2>1, <2>2 DEF Watch, Start, Bind, BindClosing, Catch, Unwatch, UseFreed, Return, CloseReturn, Throw,
                      calls, vars
<1> QED  BY <1>2, <1>3, <1>4, <1>5, <1>6, <1>7 DEF Next

\* Each request of a careful application is answered once at most, and by its own
\* callback: the handle implements the promise (ImplementsCompletion).
THEOREM HandleIsCompletion == Spec => ImplementsCompletion
  BY InitPromise, StepPromise, Invariance, PTL DEF Spec, ImplementsCompletion, Promise!Spec
=============================================================================
