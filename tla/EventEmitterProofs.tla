------------------------- MODULE EventEmitterProofs -------------------------
(***************************************************************************)
(* For any bounds and any set of addresses, and whatever the listeners do: *)
(* emit calls them in order and all of them, a pointer removes its own     *)
(* listener, and emit goes on from an erased one for one cause only.       *)
(***************************************************************************)
EXTENDS EventEmitter, SequenceTheorems, TLAPS

-----------------------------------------------------------------------------
(* The inductive invariant *)

\* The listeners in the list are older ones before younger ones, at different addresses.
ListOK == /\ Ordered(Ids)
          /\ \A i \in DOMAIN entry : entry[i].id <= made
          /\ \A i, j \in DOMAIN entry : entry[i].addr = entry[j].addr => i = j

Listed == {entry[i].id : i \in DOMAIN entry}
CalledBy(e) == {e.seen[i] : i \in DOMAIN e.seen}

\* The ids that emit e has come past: all that are listed have been called.
Past(e, id) == e.at = 0 \/ id < e.at \/ (id = e.at /\ e.calling)

EmitOK(e) == /\ e.at <= made
             /\ e.at = 0 => ~e.calling
             /\ Ordered(e.seen)
             /\ \A id \in CalledBy(e) : Past(e, id)
             /\ \A id \in Listed : Past(e, id) => id \in CalledBy(e)

\* Only the innermost emit may be between two listeners; it stands at one that is listed.
Nested == /\ \A d \in 1 .. Depth : d < Depth => emits[d].calling
          /\ \A d \in 1 .. Depth : ~emits[d].calling => emits[d].at \in Listed \cup {0}

\* As long as no listener was removed while it was called, emits stand at listed ones.
Placed == /\ ~bold => \A d \in 1 .. Depth : emits[d].at \in Listed \cup {0}
          /\ fault => bold

IInv == /\ EmitterTypeOK
        /\ ListOK
        /\ \A d \in 1 .. Depth : EmitOK(emits[d])
        /\ Nested
        /\ Placed

LEMMA InitIInv == EmitterInit => IInv
<1> SUFFICES ASSUME EmitterInit PROVE IInv
  OBVIOUS
<1>1. EmitterTypeOK
  <2>1. << >> \in Seq(Listener) /\ << >> \in Seq(Emitting)
    BY EmptySeq
  <2>2. made \in 0 .. MaxListeners /\ given \subseteq Listener
    BY EmitterAssumption DEF EmitterInit
  <2>3. bold \in BOOLEAN /\ fault \in BOOLEAN
    BY DEF EmitterInit
  <2> QED  BY <2>1, <2>2, <2>3 DEF EmitterInit, EmitterTypeOK
<1>2. ListOK
  BY DEF EmitterInit, ListOK, Ordered, Ids
<1>3. Depth = 0
  BY DEF EmitterInit, Depth
<1> QED  BY <1>1, <1>2, <1>3 DEF EmitterInit, IInv, Nested, Placed

-----------------------------------------------------------------------------
(* The list *)

\* A list is in order if the ids of its listeners are.
LEMMA OrderedIds ==
  ASSUME NEW s, \A j, k \in DOMAIN s : j < k => s[j].id < s[k].id
  PROVE  Ordered([j \in DOMAIN s |-> s[j].id])
  BY DEF Ordered

\* The listeners, by their places in the list.
LEMMA Entries ==
  ASSUME IInv
  PROVE  /\ MaxListeners \in Nat /\ made \in Nat /\ made <= MaxListeners
         /\ Len(entry) \in Nat /\ DOMAIN entry = 1 .. Len(entry)
         /\ \A i \in DOMAIN entry : entry[i] \in Listener /\ entry[i].id \in 1 .. made
         /\ \A i, j \in DOMAIN entry : i < j => entry[i].id < entry[j].id
         /\ \A i, j \in DOMAIN entry : entry[i].id = entry[j].id => i = j
         /\ Listed \subseteq 1 .. made
<1> USE DEF IInv
<1>1. MaxListeners \in Nat /\ made \in Nat /\ made <= MaxListeners
  BY EmitterAssumption DEF EmitterTypeOK
<1>2. Len(entry) \in Nat /\ DOMAIN entry = 1 .. Len(entry)
  BY DEF EmitterTypeOK
<1>3. \A i \in DOMAIN entry : entry[i] \in Listener
  BY <1>2, ElementOfSeq DEF EmitterTypeOK
<1>4. \A i \in DOMAIN entry : entry[i].id \in 1 .. made
  BY <1>1, <1>3 DEF Listener, ListOK
<1>5. \A i, j \in DOMAIN entry : i < j => entry[i].id < entry[j].id
  BY DEF ListOK, Ordered, Ids
<1>6. \A i, j \in DOMAIN entry : entry[i].id = entry[j].id => i = j
  <2> SUFFICES ASSUME NEW i \in DOMAIN entry, NEW j \in DOMAIN entry, entry[i].id = entry[j].id
               PROVE  i = j
    OBVIOUS
  <2>1. i \in Nat /\ j \in Nat /\ entry[i].id \in Nat
    BY <1>2, <1>4
  <2>2. ~(i < j) /\ ~(j < i)
    BY <1>5, <2>1
  <2> QED  BY <2>1, <2>2
<1> QED  BY <1>1, <1>2, <1>3, <1>4, <1>5, <1>6 DEF Listed

\* An emit in progress.
LEMMA Emits ==
  ASSUME IInv
  PROVE  /\ Depth \in Nat /\ DOMAIN emits = 1 .. Depth /\ emits \in Seq(Emitting)
         /\ \A d \in 1 .. Depth :
              /\ emits[d] \in Emitting
              /\ emits[d].seen \in Seq(1 .. MaxListeners)
              /\ emits[d].at \in 0 .. MaxListeners /\ emits[d].calling \in BOOLEAN
              /\ EmitOK(emits[d])
<1>1. emits \in Seq(Emitting) /\ Depth \in Nat /\ DOMAIN emits = 1 .. Depth
  BY DEF IInv, EmitterTypeOK, Depth
<1>2. \A d \in 1 .. Depth : emits[d] \in Emitting
  BY <1>1, ElementOfSeq DEF Depth
<1> QED  BY <1>1, <1>2 DEF Emitting, IInv

\* While the application runs, every emit is in a call.
LEMMA AllCalling ==
  ASSUME IInv, Running
  PROVE  \A d \in 1 .. Depth : emits[d].calling /\ emits[d].at # 0
<1>1. Depth \in Nat /\ \A d \in 1 .. Depth : EmitOK(emits[d])
  BY Emits
<1>2. ASSUME NEW d \in 1 .. Depth PROVE emits[d].calling
  <2>1. CASE d < Depth
    BY <2>1 DEF IInv, Nested
  <2>2. CASE d = Depth
    BY <1>1, <2>2 DEF Running, Current
  <2> QED  BY <1>1, <2>1, <2>2
<1> QED  BY <1>1, <1>2 DEF EmitOK

\* A new listener is the youngest.
LEMMA Pushed ==
  ASSUME IInv, NEW a \in Addresses, a \notin Used,
         PushBack([id |-> made + 1, addr |-> a]), made' = made + 1, made < MaxListeners
  PROVE  /\ entry' \in Seq(Listener)
         /\ ListOK'
         /\ Listed' = Listed \cup {made + 1}
<1> DEFINE l == [id |-> made + 1, addr |-> a]
<1>1. made \in Nat /\ l \in Listener /\ entry \in Seq(Listener)
  BY Entries DEF Listener, IInv, EmitterTypeOK
<1>2. /\ entry' \in Seq(Listener) /\ Len(entry') = Len(entry) + 1
      /\ \A i \in 1 .. Len(entry) : entry'[i] = entry[i]
      /\ entry'[Len(entry) + 1] = l
      /\ Len(entry) \in Nat
  BY <1>1, AppendProperties DEF PushBack
<1>3. DOMAIN entry = 1 .. Len(entry) /\ DOMAIN entry' = (DOMAIN entry) \cup {Len(entry) + 1}
  BY <1>1, <1>2
<1>4. /\ \A i \in DOMAIN entry : entry[i].id \in 1 .. made
      /\ \A i, j \in DOMAIN entry : i < j => entry[i].id < entry[j].id
  BY Entries
<1>5. Ordered(Ids)'
  <2> SUFFICES ASSUME NEW i \in DOMAIN entry', NEW j \in DOMAIN entry', i < j
               PROVE  entry'[i].id < entry'[j].id
    BY OrderedIds DEF Ids
  <2>1. CASE j \in DOMAIN entry
    BY <1>2, <1>3, <1>4, <2>1
  <2>2. CASE j = Len(entry) + 1
    BY <1>1, <1>2, <1>3, <1>4, <2>2
  <2> QED  BY <1>3, <2>1, <2>2
<1>6. \A i \in DOMAIN entry : entry[i].addr # a
  BY DEF Used, Range
<1>7. ASSUME NEW i \in DOMAIN entry', NEW j \in DOMAIN entry', entry'[i].addr = entry'[j].addr
      PROVE  i = j
  <2>1. CASE i \in DOMAIN entry /\ j \in DOMAIN entry
    BY <1>2, <1>3, <1>7, <2>1 DEF IInv, ListOK
  <2>2. CASE i \in DOMAIN entry /\ j = Len(entry) + 1
    BY <1>2, <1>3, <1>6, <1>7, <2>2
  <2>3. CASE j \in DOMAIN entry /\ i = Len(entry) + 1
    BY <1>2, <1>3, <1>6, <1>7, <2>3
  <2> QED  BY <1>3, <2>1, <2>2, <2>3
<1>8. \A i \in DOMAIN entry' : entry'[i].id <= made'
  BY <1>1, <1>2, <1>3, <1>4
<1>9. Listed' = Listed \cup {made + 1}
  BY <1>2, <1>3 DEF Listed
<1> QED  BY <1>2, <1>5, <1>7, <1>8, <1>9 DEF ListOK

\* A listener that is erased leaves the others where they were to one another.
LEMMA Erased ==
  ASSUME IInv, NEW i \in DOMAIN entry, Erase(i), made' = made
  PROVE  /\ entry' \in Seq(Listener)
         /\ ListOK'
         /\ Listed' = Listed \ {entry[i].id}
         /\ Range(entry') = Range(entry) \ {entry[i]}
<1> DEFINE n == Len(entry)
           from(j) == IF j < i THEN j ELSE j + 1
<1>1. n \in Nat /\ DOMAIN entry = 1 .. n /\ entry \in Seq(Listener) /\ i \in 1 .. n
  BY Entries DEF IInv, EmitterTypeOK
<1>2. /\ SubSeq(entry, 1, i - 1) \in Seq(Listener) /\ Len(SubSeq(entry, 1, i - 1)) = i - 1
      /\ \A j \in 1 .. i - 1 : SubSeq(entry, 1, i - 1)[j] = entry[j]
  BY <1>1
<1>3. /\ SubSeq(entry, i + 1, n) \in Seq(Listener) /\ Len(SubSeq(entry, i + 1, n)) = n - i
      /\ \A j \in 1 .. n - i : SubSeq(entry, i + 1, n)[j] = entry[i + j]
  BY <1>1
<1> DEFINE before == SubSeq(entry, 1, i - 1)
           after == SubSeq(entry, i + 1, n)
<1>0. entry' = before \o after
  BY DEF Erase, RemoveAt
<1> HIDE DEF before, after
<1>4. /\ entry' \in Seq(Listener) /\ Len(entry') = n - 1
      /\ \A j \in 1 .. n - 1 : entry'[j] = IF j <= i - 1 THEN before[j] ELSE after[j - (i - 1)]
  <2>1. before \in Seq(Listener) /\ after \in Seq(Listener)
    BY <1>2, <1>3 DEF before, after
  <2>2. Len(before) = i - 1 /\ Len(after) = n - i /\ Len(before) + Len(after) = n - 1
    BY <1>1, <1>2, <1>3 DEF before, after
  <2>3. /\ before \o after \in Seq(Listener) /\ Len(before \o after) = n - 1
        /\ \A j \in 1 .. n - 1 :
             (before \o after)[j] = IF j <= i - 1 THEN before[j] ELSE after[j - (i - 1)]
    <3>1. /\ before \o after \in Seq(Listener)
          /\ Len(before \o after) = Len(before) + Len(after)
          /\ \A j \in 1 .. Len(before) + Len(after) : (before \o after)[j] =
               IF j <= Len(before) THEN before[j] ELSE after[j - Len(before)]
      BY <2>1, ConcatProperties
    <3> QED  BY <2>2, <3>1
  <2> QED  BY <1>0, <2>3
<1>5. \A j \in 1 .. n - 1 : entry'[j] = entry[from(j)]
  <2> SUFFICES ASSUME NEW j \in 1 .. n - 1 PROVE entry'[j] = entry[from(j)]
    OBVIOUS
  <2>1. CASE j < i
    <3>1. j \in 1 .. i - 1 /\ j <= i - 1
      BY <1>1, <2>1
    <3>2. entry'[j] = before[j]
      BY <1>4, <3>1
    <3>3. before[j] = entry[j]
      BY <1>2, <3>1 DEF before
    <3> QED  BY <2>1, <3>2, <3>3
  <2>2. CASE ~(j < i)
    <3>1. j - (i - 1) \in 1 .. n - i /\ i + (j - (i - 1)) = j + 1
      BY <1>1, <2>2
    <3>2. entry'[j] = SubSeq(entry, i + 1, n)[j - (i - 1)]
      BY <1>1, <1>4, <2>2 DEF after
    <3> QED  BY <1>3, <2>2, <3>1, <3>2
  <2> QED  BY <2>1, <2>2
<1>6. DOMAIN entry' = 1 .. n - 1
  BY <1>4
<1>7. /\ \A j \in 1 .. n - 1 : from(j) \in (1 .. n) \ {i}
      /\ \A j, k \in 1 .. n - 1 : j < k => from(j) < from(k)
      /\ \A j, k \in 1 .. n - 1 : from(j) = from(k) => j = k
      /\ \A k \in (1 .. n) \ {i} : \E j \in 1 .. n - 1 : from(j) = k
  <2>1. ASSUME NEW k \in (1 .. n) \ {i} PROVE \E j \in 1 .. n - 1 : from(j) = k
    <3>1. CASE k < i
      BY <1>1, <3>1
    <3>2. CASE ~(k < i)
      <4>1. k - 1 \in 1 .. n - 1 /\ from(k - 1) = k
        BY <1>1, <3>2
      <4> QED  BY <4>1
    <3> QED  BY <3>1, <3>2
  <2>2. \A j \in 1 .. n - 1 : from(j) \in (1 .. n) \ {i}
    BY <1>1
  <2>3. \A j, k \in 1 .. n - 1 : j < k => from(j) < from(k)
    BY <1>1
  <2>4. \A j, k \in 1 .. n - 1 : from(j) = from(k) => j = k
    BY <1>1
  <2> QED  BY <2>1, <2>2, <2>3, <2>4
<1> HIDE DEF from
<1>8. /\ \A j, k \in 1 .. n : j < k => entry[j].id < entry[k].id
      /\ \A j, k \in 1 .. n : entry[j].id = entry[k].id => j = k
      /\ \A j, k \in 1 .. n : entry[j].addr = entry[k].addr => j = k
      /\ \A j \in 1 .. n : entry[j].id <= made
  BY <1>1, Entries DEF IInv, ListOK
<1>9. ListOK'
  <2>1. \A j, k \in 1 .. n - 1 : j < k => entry'[j].id < entry'[k].id
    BY <1>5, <1>7, <1>8
  <2>2. ASSUME NEW j \in 1 .. n - 1, NEW k \in 1 .. n - 1, entry'[j].addr = entry'[k].addr
        PROVE  j = k
    <3>1. /\ from(j) \in 1 .. n /\ from(k) \in 1 .. n
          /\ entry[from(j)].addr = entry[from(k)].addr
      BY <1>5, <1>7, <2>2
    <3>2. from(j) = from(k)
      BY <1>8, <3>1
    <3> QED  BY <1>7, <3>2
  <2>3. \A j \in 1 .. n - 1 : entry'[j].id <= made
    BY <1>5, <1>7, <1>8
  <2>4. Ordered(Ids)'
    BY <1>6, <2>1, OrderedIds DEF Ids
  <2> QED  BY <1>6, <2>2, <2>3, <2>4 DEF ListOK
<1>10. Listed' = Listed \ {entry[i].id}
  <2>1. \A j \in 1 .. n - 1 : entry'[j].id \in Listed \ {entry[i].id}
    BY <1>1, <1>5, <1>7, <1>8 DEF Listed
  <2>2. \A k \in (1 .. n) \ {i} : \E j \in 1 .. n - 1 : entry'[j].id = entry[k].id
    BY <1>5, <1>7
  <2>3. \A id \in Listed : id # entry[i].id => id \in Listed'
    BY <1>1, <1>6, <2>2 DEF Listed
  <2>4. Listed' \subseteq Listed \ {entry[i].id}
    BY <1>6, <2>1 DEF Listed
  <2> QED  BY <2>3, <2>4
<1>11. Range(entry') = Range(entry) \ {entry[i]}
  <2>1. \A j \in 1 .. n - 1 : entry'[j] \in Range(entry) \ {entry[i]}
    BY <1>1, <1>5, <1>7, <1>8 DEF Range
  <2>2. \A k \in (1 .. n) \ {i} : \E j \in 1 .. n - 1 : entry'[j] = entry[k]
    BY <1>5, <1>7
  <2>3. \A l \in Range(entry) : l # entry[i] => l \in Range(entry')
    BY <1>1, <1>6, <2>2 DEF Range
  <2>4. Range(entry') \subseteq Range(entry) \ {entry[i]}
    BY <1>6, <2>1 DEF Range
  <2> QED  BY <2>3, <2>4
<1> QED  BY <1>4, <1>9, <1>10, <1>11

\* The application may change the list while all emits are in their calls: what they
\* have come past is still called, and who is new is younger than all of them.
LEMMA ListChanges ==
  ASSUME IInv, Running, UNCHANGED <<emits, fault>>,
         made' \in {made, made + 1},
         \A id \in Listed' : id \in Listed \/ id = made + 1
  PROVE  /\ \A d \in 1 .. Depth' : EmitOK(emits[d])'
         /\ Nested'
<1>1. \A d \in 1 .. Depth : emits[d].calling /\ emits[d].at # 0
  BY AllCalling
<1>2. Depth' = Depth /\ emits' = emits
  BY DEF Depth
<1>3. made \in Nat /\ Listed \subseteq 1 .. made
  BY Entries
<1>4. ASSUME NEW d \in 1 .. Depth PROVE EmitOK(emits[d])'
  <2>1. /\ EmitOK(emits[d]) /\ emits[d].at \in 1 .. made /\ emits[d].calling
        /\ emits'[d] = emits[d]
    BY <1>1, <1>2, <1>3, <1>4, Emits DEF EmitOK
  <2>2. \A id \in Listed' : Past(emits[d], id) => id \in Listed
    BY <1>3, <2>1 DEF Past
  <2> DEFINE c == emits[d]
  <2>3. c.at <= made' /\ (c.at = 0 => ~c.calling)
    BY <1>3, <2>1
  <2>4. Ordered(c.seen) /\ \A id \in CalledBy(c) : Past(c, id)
    BY <2>1 DEF EmitOK
  <2>5. \A id \in Listed' : Past(c, id) => id \in CalledBy(c)
    BY <2>1, <2>2 DEF EmitOK
  <2> HIDE DEF c
  <2>6. EmitOK(c)'
    <3>1. c' = c
      BY <2>1 DEF c
    <3> QED  BY <2>3, <2>4, <2>5, <3>1 DEF EmitOK
  <2> QED  BY <2>6 DEF c
<1>5. Nested'
  BY <1>1, <1>2 DEF Nested
<1> QED  BY <1>2, <1>4, <1>5

-----------------------------------------------------------------------------
(* The steps *)

LEMMA AddIInv ==
  ASSUME IInv, NEW a \in Addresses, AddListener(a)
  PROVE  IInv'
<1>1. /\ Running /\ made < MaxListeners /\ a \notin Used /\ made' = made + 1
      /\ PushBack([id |-> made + 1, addr |-> a])
      /\ given' = given \cup {[id |-> made + 1, addr |-> a]}
      /\ UNCHANGED <<emits, bold, fault>>
  BY DEF AddListener
<1>2. entry' \in Seq(Listener) /\ ListOK' /\ Listed' = Listed \cup {made + 1}
  BY <1>1, Pushed
<1>3. EmitterTypeOK'
  <2>1. made' \in 0 .. MaxListeners /\ [id |-> made + 1, addr |-> a] \in Listener
    BY <1>1, Entries DEF Listener
  <2> QED  BY <1>1, <1>2, <2>1 DEF IInv, EmitterTypeOK
<1>4. (\A d \in 1 .. Depth' : EmitOK(emits[d])') /\ Nested'
  BY <1>1, <1>2, ListChanges
<1>5. Placed'
  BY <1>1, <1>2 DEF IInv, Placed, Depth
<1> QED  BY <1>2, <1>3, <1>4, <1>5 DEF IInv

LEMMA RemoveIInv ==
  ASSUME IInv, NEW p \in given, RemoveListener(p)
  PROVE  IInv'
<1>1. PICK i \in DOMAIN entry :
        /\ entry[i].addr = p.addr /\ Erase(i)
        /\ bold' = (bold \/ entry[i].id \in BeingCalled)
  BY DEF RemoveListener
<1>2. Running /\ UNCHANGED <<made, given, emits, fault>>
  BY DEF RemoveListener
<1>3. entry' \in Seq(Listener) /\ ListOK' /\ Listed' = Listed \ {entry[i].id}
  BY <1>1, <1>2, Erased
<1>4. EmitterTypeOK'
  <2>1. bold' \in BOOLEAN
    BY <1>1 DEF IInv, EmitterTypeOK
  <2> QED  BY <1>2, <1>3, <2>1 DEF IInv, EmitterTypeOK
<1>5. (\A d \in 1 .. Depth' : EmitOK(emits[d])') /\ Nested'
  BY <1>2, <1>3, ListChanges
<1>6. Placed'
  BY <1>1, <1>2, <1>3 DEF IInv, Placed, Depth, BeingCalled
<1> QED  BY <1>3, <1>4, <1>5, <1>6 DEF IInv

LEMMA RemoveAllIInv ==
  ASSUME IInv, RemoveAllListeners
  PROVE  IInv'
<1>1. /\ Running /\ entry' = << >> /\ UNCHANGED <<made, given, emits, fault>>
      /\ bold' = (bold \/ Range(Ids) \cap BeingCalled # {})
  BY DEF RemoveAllListeners
<1>2. entry' \in Seq(Listener) /\ Listed' = {}
  BY <1>1 DEF Listed
<1>3. ListOK'
  BY <1>1 DEF ListOK, Ordered, Ids
<1>4. EmitterTypeOK'
  <2>1. bold' \in BOOLEAN
    BY <1>1 DEF IInv, EmitterTypeOK
  <2> QED  BY <1>1, <1>2, <2>1 DEF IInv, EmitterTypeOK
<1>5. (\A d \in 1 .. Depth' : EmitOK(emits[d])') /\ Nested'
  BY <1>1, <1>2, ListChanges
<1>6. Placed'
  <2>1. ASSUME ~bold', NEW d \in 1 .. Depth PROVE FALSE
    <3>1. emits[d].at \in Listed /\ emits[d].at \in BeingCalled
      BY <1>1, <2>1, AllCalling DEF IInv, Placed, BeingCalled
    <3>2. Range(Ids) = Listed
      BY DEF Range, Ids, Listed
    <3> QED  BY <1>1, <2>1, <3>1, <3>2
  <2>2. fault' => bold'
    BY <1>1 DEF IInv, Placed
  <2> QED  BY <1>1, <2>1, <2>2 DEF Placed, Depth
<1> QED  BY <1>2, <1>3, <1>4, <1>5, <1>6 DEF IInv

\* A step of the innermost emit alone, after which it is e.
LEMMA Innermost ==
  ASSUME IInv, UNCHANGED <<entry, made>>, fault' = fault, bold' = bold,
         Depth' \in {Depth, Depth + 1}, Depth' > 0,
         \A d \in 1 .. Depth : d < Depth' => emits'[d] = emits[d],
         emits' \in Seq(Emitting),
         \A d \in 1 .. Depth : d < Depth' => emits[d].calling,
         UNCHANGED given,
         EmitOK(emits'[Depth']),
         emits'[Depth'].at \in Listed \cup {0} \/ (emits'[Depth'].calling /\ bold)
  PROVE  IInv'
<1>1. Depth \in Nat /\ Depth' \in Nat
  BY Emits
<1>2. Listed' = Listed
  BY DEF Listed
<1>3. EmitterTypeOK' /\ ListOK'
  BY DEF IInv, EmitterTypeOK, ListOK, Ids
<1>4. ASSUME NEW d \in 1 .. Depth' PROVE d = Depth' \/ (d \in 1 .. Depth /\ d < Depth')
  BY <1>1
<1>5. ASSUME NEW d \in 1 .. Depth' PROVE EmitOK(emits[d])'
  <2>1. EmitOK(emits'[d])
    BY <1>4, <1>5 DEF IInv
  <2> QED  BY <1>2, <2>1 DEF EmitOK
<1>6. Nested'
  BY <1>1, <1>2, <1>4 DEF Nested
<1>7. Placed'
  BY <1>2, <1>4 DEF IInv, Placed
<1> QED  BY <1>3, <1>5, <1>6, <1>7 DEF IInv

LEMMA EmitIInv ==
  ASSUME IInv, Emit
  PROVE  IInv'
<1> DEFINE e == [at |-> First, calling |-> FALSE, addr |-> 0, seen |-> << >>]
<1>1. Running /\ emits' = Append(emits, e) /\ UNCHANGED <<entry, made, given, bold, fault>>
  BY DEF Emit
<1>2. First \in Listed \cup {0} /\ \A id \in Listed : First <= id /\ First # 0
  <2>1. CASE entry = << >>
    BY <2>1 DEF First, Listed
  <2>2. CASE entry # << >>
    <3>1. /\ DOMAIN entry = 1 .. Len(entry) /\ Len(entry) \in Nat
          /\ \A i \in DOMAIN entry : entry[i].id \in 1 .. made
          /\ \A i, j \in DOMAIN entry : i < j => entry[i].id < entry[j].id
          /\ made \in Nat
      BY Entries
    <3>2. Len(entry) # 0
      BY <2>2, EmptySeq DEF IInv, EmitterTypeOK
    <3>3. 1 \in DOMAIN entry /\ First = entry[1].id
      BY <2>2, <3>1, <3>2 DEF First
    <3>4. \A i \in DOMAIN entry : i = 1 \/ 1 < i
      BY <3>1
    <3> QED  BY <3>1, <3>3, <3>4 DEF Listed
  <2> QED  BY <2>1, <2>2
<1>3. made \in Nat /\ MaxListeners \in Nat /\ made <= MaxListeners /\ Listed \subseteq 1 .. made
  BY Entries
<1>4. e \in Emitting
  <2>1. << >> \in Seq(1 .. MaxListeners) /\ First \in 0 .. MaxListeners
    BY <1>2, <1>3, EmptySeq
  <2> QED  BY <2>1 DEF Emitting
<1>5. EmitOK(e)
  <2>1. CalledBy(e) = {} /\ Ordered(e.seen)
    BY DEF CalledBy, Ordered
  <2>2. \A id \in Listed : ~Past(e, id)
    BY <1>2, <1>3 DEF Past
  <2>3. e.at <= made
    BY <1>2, <1>3
  <2> QED  BY <2>1, <2>2, <2>3 DEF EmitOK
<1> HIDE DEF e
<1>6. /\ emits' \in Seq(Emitting) /\ Depth' = Depth + 1 /\ Depth \in Nat
      /\ \A d \in 1 .. Depth : emits'[d] = emits[d]
      /\ emits'[Depth'] = e
  BY <1>1, <1>4, Emits, AppendProperties DEF Depth
<1>7. \A d \in 1 .. Depth : emits[d].calling
  BY <1>1, AllCalling
<1>8. emits'[Depth'].at \in Listed \cup {0}
  BY <1>2, <1>6 DEF e
<1>9. Depth' > 0 /\ EmitOK(emits'[Depth']) /\ Depth' \in {Depth, Depth + 1}
  BY <1>5, <1>6
<1>10. \A d \in 1 .. Depth : d < Depth' => emits'[d] = emits[d]
  BY <1>6
<1>11. \A d \in 1 .. Depth : d < Depth' => emits[d].calling
  BY <1>7
<1> QED  BY <1>1, <1>6, <1>8, <1>9, <1>10, <1>11, Innermost

\* An emit is its four fields.
LEMMA Fields ==
  ASSUME NEW p, NEW x, NEW y, NEW z,
         NEW r \in [at : {p}, calling : {x}, addr : {y}, seen : {z}]
  PROVE  r = [at |-> p, calling |-> x, addr |-> y, seen |-> z]
  OBVIOUS

\* A change of the innermost emit alone.
LEMMA Changed ==
  ASSUME IInv, Depth > 0, NEW e \in Emitting, emits' = [emits EXCEPT ![Depth] = e]
  PROVE  /\ emits' \in Seq(Emitting) /\ Depth' = Depth /\ emits'[Depth'] = e
         /\ \A d \in 1 .. Depth : d < Depth' => emits'[d] = emits[d] /\ emits[d].calling
<1>1. emits \in Seq(Emitting) /\ Depth \in 1 .. Len(emits) /\ Depth = Len(emits)
  BY Emits DEF Depth
<1>2. emits' \in Seq(Emitting) /\ Len(emits') = Len(emits)
  BY <1>1, ExceptSeq
<1>3. emits'[Depth] = e /\ \A d \in 1 .. Depth : d < Depth => emits'[d] = emits[d]
  BY <1>1
<1>4. \A d \in 1 .. Depth : d < Depth => emits[d].calling
  BY DEF IInv, Nested
<1> QED  BY <1>1, <1>2, <1>3, <1>4 DEF Depth

LEMMA CallIInv ==
  ASSUME IInv, CallListener
  PROVE  IInv'
<1>1. /\ Depth > 0 /\ ~Current.calling /\ UNCHANGED <<entry, made, given, bold, fault>>
  BY DEF CallListener
<1>2. PICK i \in DOMAIN entry :
        /\ entry[i].id = Current.at
        /\ emits' = [emits EXCEPT ![Depth].calling = TRUE, ![Depth].addr = entry[i].addr,
                                  ![Depth].seen = Append(@, Current.at)]
  BY DEF CallListener
<1> DEFINE c == Current
           e == [at |-> c.at, calling |-> TRUE, addr |-> entry[i].addr,
                 seen |-> Append(c.seen, c.at)]
<1>3. /\ c \in Emitting /\ c.seen \in Seq(1 .. MaxListeners) /\ EmitOK(c)
      /\ c = emits[Depth] /\ Depth \in 1 .. Depth
  BY <1>1, Emits DEF Current
<1>4. /\ entry[i] \in Listener /\ c.at \in 1 .. made /\ c.at \in Listed
      /\ made \in Nat /\ made <= MaxListeners /\ MaxListeners \in Nat
      /\ Listed \subseteq 1 .. made
  BY <1>2, Entries DEF Listed
<1>5. /\ e.seen \in Seq(1 .. MaxListeners) /\ Len(e.seen) = Len(c.seen) + 1
      /\ Len(c.seen) \in Nat
      /\ \A j \in 1 .. Len(c.seen) : e.seen[j] = c.seen[j]
      /\ e.seen[Len(c.seen) + 1] = c.at
  <2>1. c.at \in 1 .. MaxListeners
    BY <1>4
  <2> HIDE DEF c
  <2> QED  BY <1>3, <2>1, AppendProperties
<1>6. e \in Emitting
  BY <1>3, <1>4, <1>5 DEF Emitting, Listener
<1>7. emits' = [emits EXCEPT ![Depth] = e]
  <2>1. emits[Depth] \in Emitting /\ Depth \in DOMAIN emits
    BY <1>1, Emits
  <2>2. emits'[Depth] \in [at : {emits[Depth].at}, calling : {TRUE}, addr : {entry[i].addr},
                           seen : {Append(emits[Depth].seen, emits[Depth].at)}]
    BY <1>2, <2>1 DEF Emitting, Current
  <2>3. emits' = [emits EXCEPT ![Depth] = emits'[Depth]]
    BY <1>2, <2>1
  <2>4. emits'[Depth] = e
    BY <2>2, Fields DEF Current
  <2> QED  BY <2>3, <2>4
<1>8. \A id \in CalledBy(c) : id < c.at
  BY <1>1, <1>3, <1>4 DEF EmitOK, Past
<1>9. DOMAIN e.seen = (DOMAIN c.seen) \cup {Len(c.seen) + 1} /\ DOMAIN c.seen = 1 .. Len(c.seen)
  BY <1>3, <1>5
<1>10. CalledBy(e) = CalledBy(c) \cup {c.at}
  BY <1>5, <1>9 DEF CalledBy
<1>11. Ordered(e.seen)
  <2>1. Ordered(c.seen) /\ \A j \in DOMAIN c.seen : c.seen[j] < c.at
    BY <1>3, <1>8 DEF EmitOK, CalledBy
  <2> QED  BY <1>5, <1>9, <2>1 DEF Ordered
<1>12. EmitOK(e)
  <2>1. \A id \in Listed : Past(e, id) => id = c.at \/ id < c.at
    BY <1>4 DEF Past
  <2>2. \A id \in Listed : id < c.at => id \in CalledBy(c)
    BY <1>3 DEF EmitOK, Past
  <2>3. \A id \in CalledBy(e) : Past(e, id)
    BY <1>8, <1>10 DEF Past
  <2>4. e.at <= made /\ e.at # 0
    BY <1>4
  <2> QED  BY <1>10, <1>11, <2>1, <2>2, <2>3, <2>4 DEF EmitOK
<1>13. e.at \in Listed
  BY <1>4
<1> HIDE DEF e, c
<1> QED  BY <1>1, <1>6, <1>7, <1>12, <1>13, Changed, Innermost

LEMMA ListenerEndsIInv ==
  ASSUME IInv, ListenerEnds
  PROVE  IInv'
<1> DEFINE c == Current
<1>1. /\ ~fault /\ Depth > 0 /\ c.calling /\ UNCHANGED <<entry, made, given, bold>>
  BY DEF ListenerEnds, Running
<1>2. /\ c \in Emitting /\ EmitOK(c) /\ c.at \in 0 .. MaxListeners
      /\ c = emits[Depth] /\ Depth \in 1 .. Depth /\ Depth \in Nat
  BY <1>1, Emits DEF Current
<1>3. CASE \E i \in DOMAIN entry : entry[i].id = c.at
  <2>1. PICK i \in DOMAIN entry :
          /\ entry[i].id = c.at /\ UNCHANGED fault
          /\ emits' = [emits EXCEPT ![Depth].calling = FALSE, ![Depth].addr = 0,
                                    ![Depth].at = Following(i)]
    BY <1>3 DEF ListenerEnds
  <2> DEFINE e == [at |-> Following(i), calling |-> FALSE, addr |-> 0, seen |-> c.seen]
  <2>2. /\ Len(entry) \in Nat /\ DOMAIN entry = 1 .. Len(entry)
        /\ \A j \in DOMAIN entry : entry[j].id \in 1 .. made
        /\ \A j, k \in DOMAIN entry : j < k => entry[j].id < entry[k].id
        /\ made \in Nat /\ made <= MaxListeners /\ MaxListeners \in Nat
    BY Entries
  <2>3. \/ Following(i) = 0 /\ \A j \in DOMAIN entry : j = i \/ j < i
        \/ /\ Following(i) \in Listed /\ Following(i) \in 1 .. made /\ c.at < Following(i)
           /\ \A j \in DOMAIN entry : j = i \/ j < i \/ Following(i) <= entry[j].id
    <3>1. CASE i = Len(entry)
      BY <2>2, <3>1 DEF Following
    <3>2. CASE i # Len(entry)
      <4>1. i + 1 \in DOMAIN entry /\ Following(i) = entry[i + 1].id /\ i < i + 1
        BY <2>2, <3>2 DEF Following
      <4>2. \A j \in DOMAIN entry : j = i \/ j < i \/ j = i + 1 \/ i + 1 < j
        BY <2>2
      <4>3. Following(i) \in Listed /\ Following(i) \in 1 .. made /\ c.at < Following(i)
        BY <2>1, <2>2, <4>1 DEF Listed
      <4>4. \A j \in DOMAIN entry : j = i \/ j < i \/ Following(i) <= entry[j].id
        BY <2>1, <2>2, <4>1, <4>2
      <4> QED  BY <4>3, <4>4
    <3> QED  BY <3>1, <3>2
  <2>4. e \in Emitting
    BY <1>2, <2>2, <2>3 DEF Emitting
  <2>5. emits' = [emits EXCEPT ![Depth] = e]
    <3>1. emits[Depth] \in Emitting /\ Depth \in DOMAIN emits
      BY <1>1, Emits
    <3>2. emits'[Depth] \in [at : {Following(i)}, calling : {FALSE}, addr : {0},
                             seen : {emits[Depth].seen}]
      BY <2>1, <3>1 DEF Emitting
    <3>3. emits' = [emits EXCEPT ![Depth] = emits'[Depth]]
      BY <2>1, <3>1
    <3>4. emits'[Depth] = e
      BY <3>2, Fields DEF Current
    <3> QED  BY <3>3, <3>4
  <2>6. \A id \in Listed : Past(e, id) => id \in CalledBy(c)
    <3> SUFFICES ASSUME NEW j \in DOMAIN entry, Past(e, entry[j].id)
                 PROVE  entry[j].id \in CalledBy(c)
      BY DEF Listed
    <3>1. j = i \/ j < i
      BY <2>2, <2>3 DEF Past
    <3>2. entry[j].id = c.at \/ entry[j].id < c.at
      BY <2>1, <2>2, <3>1
    <3>3. entry[j].id \in Listed /\ Past(c, entry[j].id)
      BY <1>1, <3>2 DEF Listed, Past
    <3> QED  BY <1>2, <3>3 DEF EmitOK
  <2>7. \A id \in CalledBy(c) : Past(e, id)
    <3>1. \A id \in CalledBy(c) : id = c.at \/ id < c.at
      BY <1>1, <1>2 DEF EmitOK, Past
    <3>2. \A id \in CalledBy(c) : id \in Int
      <4>1. c.seen \in Seq(1 .. MaxListeners)
        BY <1>2, Emits
      <4>2. \A j \in 1 .. Len(c.seen) : c.seen[j] \in 1 .. MaxListeners
        BY <4>1, ElementOfSeq
      <4>3. DOMAIN c.seen = 1 .. Len(c.seen)
        BY <4>1
      <4> QED  BY <2>2, <4>2, <4>3 DEF CalledBy
    <3> QED  BY <1>2, <2>2, <2>3, <3>1, <3>2 DEF Past
  <2>8. CalledBy(e) = CalledBy(c) /\ Ordered(e.seen) /\ e.at <= made
    BY <1>2, <2>2, <2>3 DEF CalledBy, EmitOK
  <2>9. EmitOK(e) /\ e.at \in Listed \cup {0}
    BY <2>3, <2>6, <2>7, <2>8 DEF EmitOK
  <2> HIDE DEF e, c
  <2> QED  BY <1>1, <2>1, <2>4, <2>5, <2>9, Changed, Innermost
<1>4. CASE ~(\E i \in DOMAIN entry : entry[i].id = c.at)
  <2>1. fault' = TRUE /\ UNCHANGED <<entry, made, given, emits, bold>>
    BY <1>1, <1>4 DEF ListenerEnds
  <2>2. c.at \notin Listed /\ c.at # 0
    BY <1>1, <1>2, <1>4 DEF Listed, EmitOK
  <2>3. bold
    BY <1>2, <2>2 DEF IInv, Placed
  <2>4. EmitterTypeOK' /\ ListOK'
    BY <2>1 DEF IInv, EmitterTypeOK, ListOK, Ids
  <2>5. \A d \in 1 .. Depth' : EmitOK(emits[d])'
    BY <2>1 DEF IInv, EmitOK, Listed, Depth
  <2>6. Nested' /\ Placed'
    BY <2>1, <2>3 DEF IInv, Nested, Placed, Listed, Depth
  <2> QED  BY <2>4, <2>5, <2>6 DEF IInv
<1> QED  BY <1>3, <1>4

LEMMA EmitEndsIInv ==
  ASSUME IInv, EmitEnds
  PROVE  IInv'
<1>1. Depth > 0 /\ emits' = Front(emits) /\ UNCHANGED <<entry, made, given, bold, fault>>
  BY DEF EmitEnds
<1>2. emits \in Seq(Emitting) /\ Depth = Len(emits) /\ Depth \in Nat
  BY Emits DEF Depth
<1>3. /\ emits' \in Seq(Emitting) /\ Depth' = Depth - 1
      /\ \A d \in 1 .. Depth' : emits'[d] = emits[d]
  <2>1. emits' = SubSeq(emits, 1, Depth - 1)
    BY <1>1 DEF Front, Depth
  <2>2. \A i \in 1 .. Depth - 1 : emits[i] \in Emitting
    BY <1>1, <1>2, ElementOfSeq
  <2>3. emits' \in Seq(Emitting) /\ Len(emits') = Depth - 1
    BY <1>1, <1>2, <2>1, <2>2
  <2>4. \A d \in 1 .. Depth - 1 : emits'[d] = emits[d]
    BY <1>1, <1>2, <2>1
  <2> QED  BY <2>3, <2>4 DEF Depth
<1>4. \A d \in 1 .. Depth' : d \in 1 .. Depth /\ d < Depth
  BY <1>1, <1>2, <1>3
<1>5. Listed' = Listed
  BY <1>1 DEF Listed
<1>6. EmitterTypeOK' /\ ListOK'
  BY <1>1, <1>3 DEF IInv, EmitterTypeOK, ListOK, Ids
<1>7. ASSUME NEW d \in 1 .. Depth' PROVE EmitOK(emits[d])'
  <2>1. EmitOK(emits[d]) /\ emits'[d] = emits[d]
    BY <1>3, <1>4, <1>7 DEF IInv
  <2> QED  BY <1>1, <1>5, <2>1 DEF EmitOK
<1>8. \A d \in 1 .. Depth' : emits'[d].calling
  BY <1>3, <1>4 DEF IInv, Nested
<1>9. Nested' /\ Placed'
  BY <1>1, <1>3, <1>4, <1>5, <1>8 DEF IInv, Nested, Placed
<1> QED  BY <1>6, <1>7, <1>9 DEF IInv

LEMMA NextIInv == IInv /\ [EmitterNext]_emitterVars => IInv'
<1> SUFFICES ASSUME IInv, [EmitterNext]_emitterVars PROVE IInv'
  OBVIOUS
<1>1. CASE \E a \in Addresses : AddListener(a)
  BY <1>1, AddIInv
<1>2. CASE \E p \in given : RemoveListener(p)
  BY <1>2, RemoveIInv
<1>3. CASE RemoveAllListeners
  BY <1>3, RemoveAllIInv
<1>4. CASE Emit \/ CallListener
  BY <1>4, EmitIInv, CallIInv
<1>5. CASE ListenerEnds \/ EmitEnds
  BY <1>5, ListenerEndsIInv, EmitEndsIInv
<1>6. CASE UNCHANGED emitterVars
  <2>1. EmitterTypeOK' /\ ListOK' /\ Listed' = Listed
    BY <1>6 DEF IInv, EmitterTypeOK, ListOK, Ids, Listed, emitterVars
  <2>2. \A d \in 1 .. Depth' : EmitOK(emits[d])'
    BY <1>6, <2>1 DEF IInv, EmitOK, Depth, emitterVars
  <2>3. Nested' /\ Placed'
    BY <1>6, <2>1 DEF IInv, Nested, Placed, Depth, emitterVars
  <2> QED  BY <2>1, <2>2, <2>3 DEF IInv
<1> QED  BY <1>1, <1>2, <1>3, <1>4, <1>5, <1>6 DEF EmitterNext

\* The inductive invariant holds.
THEOREM Invariance == EmitterSpec => []IInv
<1>1. EmitterInit => IInv
  BY InitIInv
<1>2. IInv /\ [EmitterNext]_emitterVars => IInv'
  BY NextIInv
<1> QED  BY <1>1, <1>2, PTL DEF EmitterSpec

-----------------------------------------------------------------------------
\* Whatever the listeners add, remove, emit and throw: emit calls them in the order of
\* the list and each once, all that are there by its end, a pointer removes its own
\* listener, and emit goes on from an erased one only if a listener was removed while it
\* was called (EmitterSound).
THEOREM EmitterIsSound == EmitterSpec => EmitterSound
<1>1. IInv => EmitterTypeOK /\ CallsInOrder /\ AllCalled /\ FaultForCause
  <2> SUFFICES ASSUME IInv PROVE CallsInOrder /\ AllCalled /\ FaultForCause
    BY DEF IInv
  <2>1. CallsInOrder
    BY DEF IInv, ListOK, EmitOK, CallsInOrder
  <2>2. AllCalled
    <3>1. Range(Ids) = Listed
      BY DEF Range, Ids, Listed
    <3>2. \A d \in 1 .. Depth : Range(emits[d].seen) = CalledBy(emits[d])
      BY DEF Range, CalledBy
    <3> QED  BY <3>1, <3>2 DEF IInv, EmitOK, Past, AllCalled
  <2>3. FaultForCause
    BY DEF IInv, Placed, FaultForCause
  <2> QED  BY <2>1, <2>2, <2>3
<1>2. IInv => \A p \in given : RemoveListener(p) /\ p \in Range(entry)
                 => Range(entry') = Range(entry) \ {p}
  <2> SUFFICES ASSUME IInv, NEW p \in given, RemoveListener(p), p \in Range(entry)
               PROVE  Range(entry') = Range(entry) \ {p}
    OBVIOUS
  <2>1. PICK i \in DOMAIN entry : entry[i].addr = p.addr /\ Erase(i)
    BY DEF RemoveListener
  <2>2. PICK j \in DOMAIN entry : entry[j] = p
    BY DEF Range
  <2>3. entry[i] = p
    BY <2>1, <2>2 DEF IInv, ListOK
  <2>4. UNCHANGED made
    BY DEF RemoveListener
  <2> QED  BY <2>1, <2>3, <2>4, Erased
<1>3. EmitterSpec => []IInv
  BY Invariance
<1> QED  BY <1>1, <1>2, <1>3, PTL DEF EmitterSound, RemovesOwn
=============================================================================
