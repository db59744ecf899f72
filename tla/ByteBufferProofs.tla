--------------------------- MODULE ByteBufferProofs ---------------------------
(***************************************************************************)
(* For any capacity, any memory behind it and any width of a size: the     *)
(* bytes in use are what the sequence of calls makes of them, and only a   *)
(* removal from the middle touches memory behind the buffer.               *)
(***************************************************************************)
EXTENDS ByteBuffer, SequenceTheorems, TLAPS

N == Capacity + Behind
InUse == SubSeq(mem, 1, ptr)

-----------------------------------------------------------------------------
(* Sequences *)

\* A sum that fits a size is computed as it is.
LEMMA NoWrap ==
  ASSUME NEW a \in Nat, NEW m \in Nat, a < m
  PROVE  a % m = a
  OBVIOUS

\* Two sequences of the same length with the same bytes are equal.
LEMMA SameBytes ==
  ASSUME NEW S, NEW s \in Seq(S), NEW t \in Seq(S), Len(s) = Len(t),
         \A i \in 1 .. Len(s) : s[i] = t[i]
  PROVE  s = t
  OBVIOUS

\* The first bytes of a sequence.
LEMMA Prefix ==
  ASSUME NEW S, NEW s \in Seq(S), NEW n \in 0 .. Len(s)
  PROVE  /\ SubSeq(s, 1, n) \in Seq(S) /\ Len(SubSeq(s, 1, n)) = n
         /\ \A i \in 1 .. n : SubSeq(s, 1, n)[i] = s[i]
  OBVIOUS

\* The bytes from a place on.
LEMMA Suffix ==
  ASSUME NEW S, NEW s \in Seq(S), NEW n \in 0 .. Len(s)
  PROVE  /\ SubSeq(s, n + 1, Len(s)) \in Seq(S)
         /\ Len(SubSeq(s, n + 1, Len(s))) = Len(s) - n
         /\ \A i \in 1 .. Len(s) - n : SubSeq(s, n + 1, Len(s))[i] = s[n + i]
  OBVIOUS

-----------------------------------------------------------------------------
(* The memory *)

LEMMA Sizes ==
  /\ Capacity \in Nat /\ Behind \in Nat /\ MaxText \in Nat /\ SizeMod \in Nat
  /\ Capacity + MaxText < SizeMod
  /\ N \in Nat /\ Capacity <= N /\ Capacity + Capacity <= N
  BY BufferAssumption DEF N

\* A text has a length, no longer than the bound.
LEMMA TextIsSeq ==
  ASSUME NEW text \in Texts
  PROVE  text \in Seq(Byte) /\ Len(text) \in 0 .. MaxText
<1>1. PICK n \in 0 .. MaxText : text \in [1 .. n -> Byte]
  BY DEF Texts
<1> QED  BY <1>1, Sizes

\* Memory is a sequence of bytes.
LEMMA MemIsSeq ==
  ASSUME NEW m \in [1 .. N -> Byte]
  PROVE  m \in Seq(Byte) /\ Len(m) = N
<1>1. N \in Nat
  BY Sizes
<1> QED  BY <1>1

\* The bytes in use.
LEMMA BytesInUse ==
  ASSUME NEW m \in [1 .. N -> Byte], NEW p \in 0 .. Capacity
  PROVE  /\ SubSeq(m, 1, p) \in Seq(Byte) /\ Len(SubSeq(m, 1, p)) = p
         /\ \A i \in 1 .. p : SubSeq(m, 1, p)[i] = m[i]
<1>1. m \in Seq(Byte) /\ Len(m) = N
  BY MemIsSeq
<1>2. p \in 0 .. Len(m)
  BY <1>1, Sizes
<1> QED  BY <1>1, <1>2, Prefix

\* What is put into the memory is there, and the rest is as it was.
LEMMA PutIs ==
  ASSUME BufferTypeOK, NEW text \in Texts, NEW at \in 0 .. Capacity, Put(text, at)
  PROVE  /\ mem' \in [1 .. N -> Byte] /\ extent' = at + Len(text) /\ extent' \in Nat
         /\ \A i \in 1 .. N :
              mem'[i] = IF i \in at + 1 .. at + Len(text) THEN text[i - at] ELSE mem[i]
<1>1. text \in Seq(Byte) /\ Len(text) \in Nat
  BY TextIsSeq, Sizes
<1>2. at \in Nat /\ N \in Nat
  BY Sizes
<1>3. mem \in [1 .. N -> Byte] /\ DOMAIN mem = 1 .. N
  BY DEF BufferTypeOK, N
<1>4. ASSUME NEW i \in 1 .. N, i \in at + 1 .. at + Len(text) PROVE text[i - at] \in Byte
  <2>1. i - at \in 1 .. Len(text)
    BY <1>1, <1>2, <1>4
  <2> QED  BY <1>1, <2>1, ElementOfSeq
<1>5. mem' = [i \in 1 .. N |-> IF i \in at + 1 .. at + Len(text) THEN text[i - at] ELSE mem[i]]
  BY <1>3 DEF Put
<1> QED  BY <1>1, <1>2, <1>3, <1>4, <1>5 DEF Put

\* A call is recorded as it was made.
LEMMA CallIs ==
  ASSUME NEW text \in Texts, NEW at \in 0 .. SizeMod - 1,
         NEW len \in 0 .. SizeMod - 1,
         NEW name \in {"append", "copy", "remove", "set_size", "set"},
         Called(name, text, at, len)
  PROVE  /\ call' \in Call
         /\ call'.name = name /\ call'.text = text /\ call'.at = at /\ call'.len = len
  BY DEF Called, Call

\* No text, and no place or length, are among those that a call may record.
LEMMA Nothing ==
  << >> \in Texts /\ 0 \in 0 .. SizeMod - 1 /\ Len(<< >>) = 0
<1>1. << >> \in [1 .. 0 -> Byte] /\ 0 \in 0 .. MaxText
  BY Sizes
<1> QED  BY <1>1, Sizes DEF Texts

-----------------------------------------------------------------------------
(* The calls: what they make of the bytes in use, and how far they reach *)

Stays == /\ BufferTypeOK'
         /\ extent' <= Capacity \/ (call'.name = "remove" /\ call'.at > 0)

LEMMA RefuseStays ==
  ASSUME BufferTypeOK, Refuse, call' \in Call
  PROVE  Stays /\ InUse' = InUse
<1>1. Capacity \in Nat
  BY Sizes
<1> QED  BY <1>1 DEF Refuse, BufferTypeOK, Stays, InUse

LEMMA AppendStays ==
  ASSUME BufferTypeOK, NEW text \in Texts, Append_(text)
  PROVE  Stays /\ [Abstract!Next]_<<InUse, call>>
<1>1. /\ Capacity \in Nat /\ ptr \in 0 .. Capacity /\ mem \in [1 .. N -> Byte]
      /\ N \in Nat /\ Capacity <= N
  BY Sizes DEF BufferTypeOK, N
<1>2. call' \in Call /\ call'.name = "append" /\ call'.text = text
  BY CallIs, Nothing DEF Append_
<1>3. /\ InUse \in Seq(Byte) /\ Len(InUse) = ptr
      /\ \A i \in 1 .. ptr : InUse[i] = mem[i]
  BY <1>1, BytesInUse DEF InUse
<1>4. text \in Seq(Byte) /\ Len(text) \in Nat
  BY TextIsSeq, Sizes
<1>5. CASE Room < Len(text)
  <2>1. Stays /\ InUse' = InUse
    BY <1>2, <1>5, RefuseStays DEF Append_
  <2>2. Len(InUse) + Len(text) > Capacity
    BY <1>1, <1>3, <1>4, <1>5 DEF Room
  <2> QED  BY <1>2, <2>1, <2>2 DEF Abstract!Next, InUse
<1>6. CASE ~(Room < Len(text))
  <2>1. /\ ptr' = ptr + Len(text) /\ Put(text, ptr)
    BY <1>6 DEF Append_
  <2>2. ptr' \in 0 .. Capacity
    BY <1>1, <1>4, <1>6, <2>1 DEF Room
  <2>3. /\ mem' \in [1 .. N -> Byte] /\ extent' = ptr + Len(text) /\ extent' \in Nat
        /\ \A i \in 1 .. N :
             mem'[i] = IF i \in ptr + 1 .. ptr + Len(text) THEN text[i - ptr] ELSE mem[i]
    BY <1>1, <2>1, PutIs
  <2>4. Stays
    BY <1>1, <1>2, <2>1, <2>2, <2>3 DEF Stays, BufferTypeOK, N
  <2>5. /\ InUse' \in Seq(Byte) /\ Len(InUse') = ptr'
        /\ \A i \in 1 .. ptr' : InUse'[i] = mem'[i]
    BY <2>2, <2>3, BytesInUse DEF InUse
  <2>6. /\ InUse \o text \in Seq(Byte) /\ Len(InUse \o text) = ptr'
        /\ \A i \in 1 .. ptr' :
             (InUse \o text)[i] = IF i <= ptr THEN InUse[i] ELSE text[i - ptr]
    BY <1>3, <1>4, <2>1, ConcatProperties
  <2>7. InUse' = InUse \o text
    <3>1. ASSUME NEW i \in 1 .. ptr' PROVE InUse'[i] = (InUse \o text)[i]
      BY <1>1, <1>3, <1>4, <2>1, <2>2, <2>3, <2>5, <2>6, <3>1
    <3> QED  BY <2>5, <2>6, <3>1, SameBytes
  <2>8. Len(InUse') <= Capacity
    BY <1>1, <2>2, <2>5
  <2> QED  BY <1>2, <2>4, <2>7, <2>8 DEF Abstract!Next, Abstract!Append_, Abstract!Fits, InUse
<1> QED  BY <1>5, <1>6

LEMMA CopyStays ==
  ASSUME BufferTypeOK, NEW text \in Texts, Copy(text)
  PROVE  Stays /\ [Abstract!Next]_<<InUse, call>>
<1>1. /\ Capacity \in Nat /\ N \in Nat /\ Capacity <= N /\ 0 \in 0 .. Capacity
  BY Sizes
<1>2. call' \in Call /\ call'.name = "copy" /\ call'.text = text
  BY CallIs, Nothing DEF Copy
<1>3. text \in Seq(Byte) /\ Len(text) \in Nat
  BY TextIsSeq, Sizes
<1>4. CASE Len(text) > Capacity
  <2>1. Stays /\ InUse' = InUse
    BY <1>2, <1>4, RefuseStays DEF Copy
  <2> QED  BY <1>2, <1>4, <2>1 DEF Abstract!Next, InUse
<1>5. CASE ~(Len(text) > Capacity)
  <2>1. ptr' = Len(text) /\ Put(text, 0)
    BY <1>5 DEF Copy
  <2>2. ptr' \in 0 .. Capacity
    BY <1>1, <1>3, <1>5, <2>1
  <2>3. /\ mem' \in [1 .. N -> Byte] /\ extent' = 0 + Len(text) /\ extent' \in Nat
        /\ \A i \in 1 .. N :
             mem'[i] = IF i \in 0 + 1 .. 0 + Len(text) THEN text[i - 0] ELSE mem[i]
    BY <1>1, <2>1, PutIs
  <2>4. Stays
    BY <1>1, <1>2, <1>3, <2>1, <2>2, <2>3 DEF Stays, BufferTypeOK, N
  <2>5. /\ InUse' \in Seq(Byte) /\ Len(InUse') = ptr'
        /\ \A i \in 1 .. ptr' : InUse'[i] = mem'[i]
    BY <2>2, <2>3, BytesInUse DEF InUse
  <2>6. InUse' = text
    <3>1. ASSUME NEW i \in 1 .. ptr' PROVE InUse'[i] = text[i]
      BY <1>1, <1>3, <2>1, <2>2, <2>3, <2>5, <3>1
    <3> QED  BY <1>3, <2>1, <2>5, <3>1, SameBytes
  <2>7. Len(InUse') <= Capacity
    BY <1>1, <2>2, <2>5
  <2> QED  BY <1>2, <2>4, <2>6, <2>7 DEF Abstract!Next, Abstract!Copy, Abstract!Fits, InUse
<1> QED  BY <1>4, <1>5

LEMMA SetSizeStays ==
  ASSUME BufferTypeOK, NEW n \in 0 .. Capacity + 1, n < SizeMod, SetSize(n)
  PROVE  Stays /\ [Abstract!Next]_<<InUse, call>>
<1>1. /\ Capacity \in Nat /\ ptr \in 0 .. Capacity /\ mem \in [1 .. N -> Byte]
      /\ SizeMod \in Nat
  BY Sizes DEF BufferTypeOK, N
<1>2. call' \in Call /\ call'.name = "set_size" /\ call'.len = n
  <2>1. n \in 0 .. SizeMod - 1
    BY <1>1
  <2> QED  BY <2>1, CallIs, Nothing DEF SetSize
<1>3. /\ InUse \in Seq(Byte) /\ Len(InUse) = ptr
      /\ \A i \in 1 .. ptr : InUse[i] = mem[i]
  BY <1>1, BytesInUse DEF InUse
<1>4. mem' = mem /\ extent' = 0 /\ ptr' = (IF n > Capacity THEN ptr ELSE n)
  BY DEF SetSize
<1>5. ptr' \in 0 .. Capacity
  BY <1>1, <1>4
<1>6. Stays
  BY <1>1, <1>2, <1>4, <1>5 DEF Stays, BufferTypeOK
<1>7. CASE n > Capacity
  <2>1. InUse' = InUse
    BY <1>4, <1>7 DEF InUse
  <2> QED  BY <1>2, <1>6, <1>7, <2>1 DEF Abstract!Next, InUse
<1>8. CASE ~(n > Capacity)
  <2>1. /\ InUse' \in Seq(Byte) /\ Len(InUse') = n
        /\ \A i \in 1 .. n : InUse'[i] = mem[i]
    BY <1>1, <1>4, <1>5, <1>8, BytesInUse DEF InUse
  <2>2. \A i \in DOMAIN InUse \cap DOMAIN InUse' : InUse'[i] = InUse[i]
    BY <1>3, <2>1
  <2>3. Len(InUse') <= Capacity
    BY <1>1, <1>8, <2>1
  <2> QED  BY <1>2, <1>6, <2>1, <2>2, <2>3 DEF Abstract!Next, Abstract!Resize, Abstract!Fits, InUse
<1> QED  BY <1>7, <1>8

\* A text that is set lies between what was before it and what is behind.
Filled(s, text, at) == SubSeq(s, 1, at) \o text \o SubSeq(s, at + Len(text) + 1, Len(s))

LEMMA Middle ==
  ASSUME NEW S, NEW s \in Seq(S), NEW text \in Seq(S), NEW at \in Nat,
         at + Len(text) <= Len(s)
  PROVE  /\ Filled(s, text, at) \in Seq(S) /\ Len(Filled(s, text, at)) = Len(s)
         /\ \A i \in 1 .. Len(s) : Filled(s, text, at)[i] =
              IF i \in at + 1 .. at + Len(text) THEN text[i - at] ELSE s[i]
<1> DEFINE before == SubSeq(s, 1, at)
           behind == SubSeq(s, (at + Len(text)) + 1, Len(s))
<1>1. Len(s) \in Nat /\ Len(text) \in Nat /\ at \in 0 .. Len(s) /\ at + Len(text) \in 0 .. Len(s)
  OBVIOUS
<1>2. /\ before \in Seq(S) /\ Len(before) = at
      /\ \A i \in 1 .. at : before[i] = s[i]
  BY <1>1, Prefix
<1>3. /\ behind \in Seq(S) /\ Len(behind) = Len(s) - (at + Len(text))
      /\ \A i \in 1 .. Len(s) - (at + Len(text)) : behind[i] = s[at + Len(text) + i]
  BY <1>1, Suffix
<1> HIDE DEF before, behind
<1>4. /\ before \o text \in Seq(S) /\ Len(before \o text) = at + Len(text)
      /\ \A i \in 1 .. at + Len(text) :
           (before \o text)[i] = IF i <= at THEN s[i] ELSE text[i - at]
  <2>1. /\ before \o text \in Seq(S) /\ Len(before \o text) = Len(before) + Len(text)
        /\ \A i \in 1 .. Len(before) + Len(text) :
             (before \o text)[i] = IF i <= Len(before) THEN before[i] ELSE text[i - Len(before)]
    BY <1>2, ConcatProperties
  <2>2. Len(before) = at
    BY <1>2
  <2>3. \A i \in 1 .. at + Len(text) : i <= at => i \in 1 .. at
    BY <1>1
  <2> QED  BY <1>2, <2>1, <2>2, <2>3
<1> DEFINE head == before \o text
<1> HIDE DEF head
<1>5. /\ head \in Seq(S) /\ Len(head) = at + Len(text)
      /\ \A i \in 1 .. at + Len(text) : head[i] = IF i <= at THEN s[i] ELSE text[i - at]
  BY <1>4 DEF head
<1>6. /\ head \o behind \in Seq(S) /\ Len(head \o behind) = Len(s)
      /\ \A i \in 1 .. Len(s) :
           (head \o behind)[i] = IF i <= at + Len(text) THEN head[i] ELSE behind[i - (at + Len(text))]
  BY <1>1, <1>3, <1>5, ConcatProperties
<1>7. ASSUME NEW i \in 1 .. Len(s)
      PROVE  (head \o behind)[i] = IF i \in at + 1 .. at + Len(text) THEN text[i - at] ELSE s[i]
  <2>1. CASE i <= at + Len(text)
    BY <1>1, <1>5, <1>6, <2>1
  <2>2. CASE ~(i <= at + Len(text))
    <3>1. i - (at + Len(text)) \in 1 .. Len(s) - (at + Len(text))
      BY <1>1, <2>2
    <3>2. behind[i - (at + Len(text))] = s[at + Len(text) + (i - (at + Len(text)))]
      BY <1>3, <3>1
    <3>3. at + Len(text) + (i - (at + Len(text))) = i
      BY <1>1
    <3> QED  BY <1>1, <1>6, <2>2, <3>2, <3>3
  <2> QED  BY <2>1, <2>2
<1>8. Filled(s, text, at) = head \o behind
  BY DEF Filled, head, before, behind
<1> QED  BY <1>6, <1>7, <1>8

LEMMA SetStays ==
  ASSUME BufferTypeOK, NEW text \in Texts, NEW at \in 0 .. Capacity, Set(text, at)
  PROVE  Stays /\ [Abstract!Next]_<<InUse, call>>
<1>1. /\ Capacity \in Nat /\ ptr \in 0 .. Capacity /\ mem \in [1 .. N -> Byte]
      /\ N \in Nat /\ Capacity <= N /\ SizeMod \in Nat /\ Capacity + MaxText < SizeMod
      /\ MaxText \in Nat
  BY Sizes DEF BufferTypeOK, N
<1>2. call' \in Call /\ call'.name = "set" /\ call'.text = text /\ call'.at = at
  <2>1. at \in 0 .. SizeMod - 1
    BY <1>1
  <2> QED  BY <2>1, CallIs, Nothing DEF Set
<1>3. /\ InUse \in Seq(Byte) /\ Len(InUse) = ptr
      /\ \A i \in 1 .. ptr : InUse[i] = mem[i]
  BY <1>1, BytesInUse DEF InUse
<1>4. text \in Seq(Byte) /\ Len(text) \in Nat /\ Len(text) <= MaxText /\ at \in Nat
  BY <1>1, TextIsSeq
<1>5. (at + Len(text)) % SizeMod = at + Len(text)
  <2>1. at + Len(text) \in Nat /\ at + Len(text) < SizeMod
    BY <1>1, <1>4
  <2> QED  BY <1>1, <2>1, NoWrap
<1>6. CASE at + Len(text) > ptr
  <2>1. Stays /\ InUse' = InUse
    BY <1>2, <1>5, <1>6, RefuseStays DEF Set
  <2>2. call'.at + Len(call'.text) > Len(InUse)
    BY <1>2, <1>3, <1>6
  <2> QED  BY <1>2, <2>1, <2>2 DEF Abstract!Next, Abstract!Set, InUse
<1>7. CASE ~(at + Len(text) > ptr)
  <2>1. ptr' = ptr /\ Put(text, at)
    BY <1>5, <1>7 DEF Set
  <2>2. /\ mem' \in [1 .. N -> Byte] /\ extent' = at + Len(text) /\ extent' \in Nat
        /\ \A i \in 1 .. N :
             mem'[i] = IF i \in at + 1 .. at + Len(text) THEN text[i - at] ELSE mem[i]
    BY <2>1, PutIs
  <2>3. Stays
    BY <1>1, <1>2, <1>7, <2>1, <2>2 DEF Stays, BufferTypeOK, N
  <2>4. /\ InUse' \in Seq(Byte) /\ Len(InUse') = ptr
        /\ \A i \in 1 .. ptr : InUse'[i] = mem'[i]
    BY <1>1, <2>1, <2>2, BytesInUse DEF InUse
  <2> DEFINE t == Filled(InUse, text, at)
  <2>5. /\ t \in Seq(Byte) /\ Len(t) = ptr
        /\ \A i \in 1 .. ptr :
             t[i] = IF i \in at + 1 .. at + Len(text) THEN text[i - at] ELSE InUse[i]
    <3>1. at + Len(text) <= Len(InUse)
      BY <1>1, <1>3, <1>4, <1>7
    <3>2. /\ t \in Seq(Byte) /\ Len(t) = Len(InUse)
          /\ \A i \in 1 .. Len(InUse) :
               t[i] = IF i \in at + 1 .. at + Len(text) THEN text[i - at] ELSE InUse[i]
      BY <1>3, <1>4, <3>1, Middle
    <3>3. Len(InUse) = ptr
      BY <1>3
    <3> HIDE DEF t, InUse
    <3> QED  BY <3>2, <3>3
  <2> HIDE DEF t
  <2>6. InUse' = t
    <3>1. ASSUME NEW i \in 1 .. ptr PROVE InUse'[i] = t[i]
      <4> HIDE DEF InUse
      <4>1. i \in 1 .. N
        BY <1>1
      <4>2. InUse'[i] = mem'[i] /\ InUse[i] = mem[i]
        BY <1>3, <2>4
      <4>3. mem'[i] = IF i \in at + 1 .. at + Len(text) THEN text[i - at] ELSE mem[i]
        BY <2>2, <4>1
      <4> QED  BY <2>5, <4>2, <4>3
    <3> QED  BY <2>4, <2>5, <3>1, SameBytes
  <2>7. ~(call'.at + Len(call'.text) > Len(InUse))
    BY <1>2, <1>3, <1>7
  <2>8. Abstract!Set
    BY <1>2, <2>6, <2>7 DEF Abstract!Set, InUse, t, Filled
  <2> QED  BY <1>2, <2>3, <2>8 DEF Abstract!Next
<1> QED  BY <1>6, <1>7

\* What is left when len bytes from an offset on are gone.
Without(s, at, len) == SubSeq(s, 1, at) \o SubSeq(s, at + len + 1, Len(s))

LEMMA Gap ==
  ASSUME NEW S, NEW s \in Seq(S), NEW at \in 0 .. Len(s), NEW len \in Nat
  PROVE  /\ at + len >= Len(s) => Without(s, at, len) = SubSeq(s, 1, at)
         /\ at + len < Len(s) =>
              /\ Without(s, at, len) \in Seq(S) /\ Len(Without(s, at, len)) = Len(s) - len
              /\ \A i \in 1 .. Len(s) - len :
                   Without(s, at, len)[i] = IF i <= at THEN s[i] ELSE s[i + len]
<1> DEFINE before == SubSeq(s, 1, at)
           behind == SubSeq(s, at + len + 1, Len(s))
<1>1. Len(s) \in Nat /\ at \in Nat /\ at <= Len(s)
  OBVIOUS
<1>2. /\ before \in Seq(S) /\ Len(before) = at
      /\ \A i \in 1 .. at : before[i] = s[i]
  BY Prefix
<1>3. at + len >= Len(s) => before \o behind = before
  <2> SUFFICES ASSUME at + len >= Len(s) PROVE before \o behind = before
    OBVIOUS
  <2>1. behind = << >>
    BY <1>1, SubSeqEmpty
  <2> HIDE DEF before, behind
  <2> QED  BY <1>2, <2>1, ConcatEmptySeq
<1>4. ASSUME at + len < Len(s)
      PROVE  /\ before \o behind \in Seq(S) /\ Len(before \o behind) = Len(s) - len
             /\ \A i \in 1 .. Len(s) - len :
                  (before \o behind)[i] = IF i <= at THEN s[i] ELSE s[i + len]
  <2>1. /\ behind \in Seq(S) /\ Len(behind) = Len(s) - (at + len)
        /\ \A i \in 1 .. Len(s) - (at + len) : behind[i] = s[(at + len) + i]
    <3>1. at + len \in 0 .. Len(s)
      BY <1>1, <1>4
    <3> QED  BY <3>1, Suffix
  <2> HIDE DEF before, behind
  <2>2. /\ before \o behind \in Seq(S) /\ Len(before \o behind) = at + (Len(s) - (at + len))
        /\ \A i \in 1 .. at + (Len(s) - (at + len)) :
             (before \o behind)[i] = IF i <= at THEN before[i] ELSE behind[i - at]
    BY <1>2, <2>1, ConcatProperties
  <2>3. at + (Len(s) - (at + len)) = Len(s) - len
    BY <1>1
  <2>4. ASSUME NEW i \in 1 .. Len(s) - len, ~(i <= at) PROVE behind[i - at] = s[i + len]
    <3>1. i - at \in 1 .. Len(s) - (at + len) /\ (at + len) + (i - at) = i + len
      BY <1>1, <2>4
    <3> QED  BY <2>1, <3>1
  <2>5. ASSUME NEW i \in 1 .. Len(s) - len, i <= at PROVE before[i] = s[i]
    BY <1>1, <1>2, <2>5
  <2> QED  BY <2>2, <2>3, <2>4, <2>5
<1> QED  BY <1>3, <1>4 DEF Without

LEMMA RemoveStays ==
  ASSUME BufferTypeOK, NEW start \in Starts, NEW len \in Lens,
         start + len < SizeMod, Remove_(start, len)
  PROVE  Stays /\ [Abstract!Next]_<<InUse, call>>
<1>1. /\ Capacity \in Nat /\ ptr \in 0 .. Capacity /\ mem \in [1 .. N -> Byte]
      /\ N \in Nat /\ Capacity <= N /\ SizeMod \in Nat
  BY Sizes DEF BufferTypeOK, N
<1>2. start \in Nat /\ len \in Nat /\ start \in 0 .. SizeMod - 1 /\ len \in 0 .. SizeMod - 1
  BY <1>1, BufferAssumption
<1>3. /\ call' \in Call /\ call'.name = "remove" /\ call'.at = start /\ call'.len = len
  BY <1>2, CallIs, Nothing DEF Remove_
<1>4. /\ InUse \in Seq(Byte) /\ Len(InUse) = ptr
      /\ \A i \in 1 .. ptr : InUse[i] = mem[i]
  BY <1>1, BytesInUse DEF InUse
<1>5. (start + len) % SizeMod = start + len
  <2>1. start + len \in Nat
    BY <1>2
  <2> QED  BY <1>1, <2>1, NoWrap
<1>6. Abstract!Remove = IF start > Len(InUse) THEN InUse' = InUse
                        ELSE InUse' = Without(InUse, start, len)
  BY <1>3 DEF Abstract!Remove, InUse, Without
<1>7. CASE start >= ptr
  <2>1. Stays /\ InUse' = InUse
    BY <1>3, <1>7, RefuseStays DEF Remove_
  <2>2. start > Len(InUse) \/ Without(InUse, start, len) = InUse
    <3>1. CASE start = ptr
      <4>1. start \in 0 .. Len(InUse) /\ start + len >= Len(InUse)
        BY <1>2, <1>4, <3>1
      <4>2. Without(InUse, start, len) = SubSeq(InUse, 1, start)
        BY <1>2, <1>4, <4>1, Gap
      <4>3. SubSeq(InUse, 1, Len(InUse)) = InUse
        BY <1>4, SubSeqFull
      <4> QED  BY <1>4, <3>1, <4>2, <4>3
    <3>2. CASE start # ptr
      BY <1>1, <1>2, <1>4, <1>7, <3>2
    <3> QED  BY <3>1, <3>2
  <2>3. Abstract!Remove
    BY <1>6, <2>1, <2>2
  <2> QED  BY <1>3, <2>1, <2>3 DEF Abstract!Next
<1>8. CASE ~(start >= ptr) /\ start + len >= ptr
  <2>1. ptr' = start /\ mem' = mem /\ extent' = 0
    BY <1>5, <1>8 DEF Remove_
  <2>2. ptr' \in 0 .. Capacity /\ start \in 0 .. Len(InUse) /\ ~(start > Len(InUse))
    BY <1>1, <1>2, <1>4, <1>8, <2>1
  <2>3. Stays
    BY <1>1, <1>3, <2>1, <2>2 DEF Stays, BufferTypeOK
  <2>4. Without(InUse, start, len) = SubSeq(InUse, 1, start)
    BY <1>2, <1>4, <1>8, <2>2, Gap
  <2>5. /\ InUse' \in Seq(Byte) /\ Len(InUse') = start
        /\ \A i \in 1 .. start : InUse'[i] = mem[i]
    BY <1>1, <2>1, <2>2, BytesInUse DEF InUse
  <2>6. /\ SubSeq(InUse, 1, start) \in Seq(Byte) /\ Len(SubSeq(InUse, 1, start)) = start
        /\ \A i \in 1 .. start : SubSeq(InUse, 1, start)[i] = InUse[i]
    BY <1>4, <2>2, Prefix
  <2>7. InUse' = SubSeq(InUse, 1, start)
    <3>1. ASSUME NEW i \in 1 .. start PROVE InUse'[i] = SubSeq(InUse, 1, start)[i]
      BY <1>1, <1>2, <1>4, <1>8, <2>5, <2>6, <3>1
    <3> QED  BY <2>5, <2>6, <3>1, SameBytes
  <2>8. Abstract!Remove
    BY <1>6, <2>2, <2>4, <2>7
  <2> QED  BY <1>3, <2>3, <2>8 DEF Abstract!Next
<1>9. CASE ~(start >= ptr) /\ ~(start + len >= ptr)
  <2>1. ptr' = ptr - len /\ Move(start, len)
    BY <1>5, <1>9 DEF Remove_
  <2>2. /\ ptr' \in 0 .. Capacity /\ start \in 0 .. Len(InUse) /\ ~(start > Len(InUse))
        /\ start < ptr' /\ start + len < Len(InUse)
    BY <1>1, <1>2, <1>4, <1>9, <2>1
  <2>3. /\ mem' \in [1 .. N -> Byte]
        /\ \A i \in 1 .. ptr' : mem'[i] = IF i <= start THEN mem[i] ELSE mem[i + len]
    <3>1. DOMAIN mem = 1 .. N
      BY <1>1
    <3>2. mem' = [i \in 1 .. N |->
                    IF i \in start + 1 .. start + ptr - len THEN mem[i + len] ELSE mem[i]]
      BY <2>1, <3>1 DEF Move
    <3>3. ASSUME NEW i \in 1 .. N, i \in start + 1 .. start + ptr - len
          PROVE  i + len \in 1 .. N
      BY <1>1, <1>2, <1>9, <3>3, Sizes
    <3>4. mem' \in [1 .. N -> Byte]
      BY <1>1, <3>2, <3>3
    <3>5. ASSUME NEW i \in 1 .. ptr'
          PROVE  i \in 1 .. N /\ (i \in start + 1 .. start + ptr - len <=> ~(i <= start))
      BY <1>1, <1>2, <2>1, <2>2, <3>5
    <3> QED  BY <3>2, <3>4, <3>5
  <2>4. Stays
    <3>1. extent' = start + ptr
      BY <2>1 DEF Move
    <3>2. extent' \in Nat /\ (extent' <= Capacity \/ start > 0)
      BY <1>1, <1>2, <3>1
    <3> QED  BY <1>3, <2>2, <2>3, <3>2 DEF Stays, BufferTypeOK, N
  <2>5. /\ InUse' \in Seq(Byte) /\ Len(InUse') = ptr'
        /\ \A i \in 1 .. ptr' : InUse'[i] = mem'[i]
    BY <2>2, <2>3, BytesInUse DEF InUse
  <2>6. /\ Without(InUse, start, len) \in Seq(Byte) /\ Len(Without(InUse, start, len)) = ptr'
        /\ \A i \in 1 .. ptr' :
             Without(InUse, start, len)[i] = IF i <= start THEN InUse[i] ELSE InUse[i + len]
    BY <1>2, <1>4, <2>1, <2>2, Gap
  <2>7. InUse' = Without(InUse, start, len)
    <3>1. ASSUME NEW i \in 1 .. ptr' PROVE InUse'[i] = Without(InUse, start, len)[i]
      <4>1. i \in 1 .. ptr /\ (~(i <= start) => i + len \in 1 .. ptr)
        BY <1>1, <1>2, <2>1, <2>2, <3>1
      <4> QED  BY <1>4, <2>3, <2>5, <2>6, <3>1, <4>1
    <3> QED  BY <2>5, <2>6, <3>1, SameBytes
  <2>8. Abstract!Remove
    BY <1>6, <2>2, <2>7
  <2> QED  BY <1>3, <2>4, <2>8 DEF Abstract!Next
<1> QED  BY <1>7, <1>8, <1>9

-----------------------------------------------------------------------------
IInv == BufferTypeOK /\ OverrunForCause

LEMMA InitIInv == BufferInit => IInv /\ Abstract!Init
<1> SUFFICES ASSUME BufferInit PROVE IInv /\ Abstract!Init
  OBVIOUS
<1>1. Capacity \in Nat /\ N \in Nat
  BY Sizes
<1>2. mem \in [1 .. N -> Byte]
  <2>1. (CHOOSE b \in Byte : TRUE) \in Byte
    BY BufferAssumption
  <2> QED  BY <2>1 DEF BufferInit, N
<1>3. ptr = 0 /\ call = NoCall /\ extent = 0
  BY DEF BufferInit
<1>4. NoCall \in Call
  BY Nothing DEF NoCall, Call
<1>5. BufferTypeOK
  BY <1>1, <1>2, <1>3, <1>4 DEF BufferTypeOK, N
<1>6. SubSeq(mem, 1, ptr) = << >>
  BY <1>3, SubSeqEmpty
<1> QED  BY <1>1, <1>3, <1>5, <1>6 DEF IInv, OverrunForCause, Abstract!Init, NoCall

LEMMA StepStays ==
  IInv /\ [BufferNext]_bufferVars => IInv' /\ [Abstract!Next]_<<InUse, call>>
<1> SUFFICES ASSUME IInv, [BufferNext]_bufferVars
             PROVE  IInv' /\ [Abstract!Next]_<<InUse, call>>
  OBVIOUS
<1>1. BufferTypeOK /\ Capacity \in Nat
  BY Sizes DEF IInv
<1>2. Stays => IInv'
  BY <1>1 DEF Stays, IInv, BufferTypeOK, OverrunForCause
<1>3. CASE \E text \in Texts : Append_(text)
  BY <1>1, <1>2, <1>3, AppendStays
<1>4. CASE \E text \in Texts : Copy(text)
  BY <1>1, <1>2, <1>4, CopyStays
<1>5. CASE \E text \in Texts : \E index \in 0 .. Capacity : Set(text, index)
  BY <1>1, <1>2, <1>5, SetStays
<1>6. CASE \E n \in 0 .. Capacity + 1 : n < SizeMod /\ SetSize(n)
  BY <1>1, <1>2, <1>6, SetSizeStays
<1>7. CASE \E start \in Starts, len \in Lens : start + len < SizeMod /\ Remove_(start, len)
  BY <1>1, <1>2, <1>7, RemoveStays
<1>8. CASE UNCHANGED bufferVars
  BY <1>8 DEF bufferVars, IInv, BufferTypeOK, OverrunForCause, InUse
<1> QED  BY <1>3, <1>4, <1>5, <1>6, <1>7, <1>8 DEF BufferNext

\* Whatever is appended, copied, set, resized and removed from where: the bytes in use
\* are the sequence that the calls make, and only a removal from the middle touches the
\* memory behind the buffer (ImplementsBytes).
THEOREM BufferIsBytes == BufferSpec => ImplementsBytes
<1>1. BufferInit => IInv /\ Abstract!Init
  BY InitIInv
<1>2. IInv /\ [BufferNext]_bufferVars => IInv' /\ [Abstract!Next]_<<SubSeq(mem, 1, ptr), call>>
  BY StepStays DEF InUse
<1>3. IInv => BufferTypeOK /\ OverrunForCause
  BY DEF IInv
<1> QED  BY <1>1, <1>2, <1>3, PTL DEF BufferSpec, ImplementsBytes, Abstract!Spec
=============================================================================
