-------------------------- MODULE PacketCodecProofs --------------------------
(***************************************************************************)
(* For any base, capacity, commands, numbers and strings, and any order of *)
(* calls: a packet is on the wire what was appended to it, and its reader  *)
(* takes it apart as it was put together.                                  *)
(***************************************************************************)
EXTENDS PacketCodec, SequenceTheorems, WellFoundedInduction, TLAPS

-----------------------------------------------------------------------------
(* Numbers and their bytes *)

\* A number below the modulus is kept as it is.
LEMMA NoWrap ==
  ASSUME NEW v \in Nat, NEW m \in Nat, v < m
  PROVE  v % m = v
  OBVIOUS

\* Division by the base takes a number apart.
LEMMA Division ==
  ASSUME NEW v \in Nat
  PROVE  /\ v \div Base \in Nat /\ v % Base \in AnyByte
         /\ v = (v \div Base) * Base + (v % Base)
  BY PacketAssumption, SMT DEF AnyByte

\* A byte is its own remainder.
LEMMA Remainder ==
  ASSUME NEW d \in AnyByte
  PROVE  d % Base = d
  BY PacketAssumption, SMT DEF AnyByte

\* A number that is put together from a quotient and a byte gives both back.
LEMMA Quotient ==
  ASSUME NEW q \in Nat, NEW r \in AnyByte
  PROVE  q * Base + r \in Nat /\ (q * Base + r) \div Base = q /\ (q * Base + r) % Base = r
<1> DEFINE v == q * Base + r
<1>1. v \in Nat /\ r < Base /\ r \in Nat /\ Base \in Nat /\ Base > 0
  BY PacketAssumption, SMT DEF AnyByte
<1>2. v = (v \div Base) * Base + (v % Base) /\ v \div Base \in Nat /\ v % Base \in 0 .. Base - 1
  BY <1>1, Division DEF AnyByte
<1>3. ASSUME NEW a \in Nat, NEW b \in Nat, NEW x \in 0 .. Base - 1, NEW y \in 0 .. Base - 1,
             a * Base + x = b * Base + y, a < b
      PROVE  FALSE
  <2>1. b * Base >= (a + 1) * Base
    BY <1>1, <1>3, SMT
  <2>2. (a + 1) * Base = a * Base + Base
    BY <1>1, <1>3, SMT
  <2> QED  BY <1>1, <1>3, <2>1, <2>2, SMT
<1>4. v \div Base = q
  BY <1>1, <1>2, <1>3, SMT
<1>5. v % Base = r
  BY <1>1, <1>2, <1>4, SMT
<1> QED  BY <1>1, <1>4, <1>5

\* A number is written as bytes, as many as it is wide.
LEMMA DigitsType ==
  ASSUME NEW v \in Nat, NEW w \in Widths
  PROVE  Digits(v, w) \in Seq(AnyByte) /\ Len(Digits(v, w)) = w
<1>1. \A n \in 1 .. 4 : Shifted(v)[n] \in Nat
  BY Division DEF Shifted
<1>2. \A i \in 1 .. w : Shifted(v)[w - i + 1] % Base \in AnyByte
  BY <1>1, Division DEF Widths
<1> QED  BY <1>2 DEF Digits, Widths

\* The bytes of each width, one by one.
LEMMA DigitsAre ==
  ASSUME NEW v
  PROVE  /\ Digits(v, 1) = <<v % Base>>
         /\ Digits(v, 2) = <<(v \div Base) % Base, v % Base>>
         /\ Digits(v, 4) = <<(((v \div Base) \div Base) \div Base) % Base,
                             ((v \div Base) \div Base) % Base, (v \div Base) % Base, v % Base>>
  BY DEF Digits, Shifted

\* SwapN2H undoes SwapH2N, for every base and every number that fits its width.
THEOREM NumberOfDigits ==
  ASSUME NEW w \in Widths, NEW v \in 0 .. Modulus(w) - 1
  PROVE  FromDigits(Digits(v, w)) = v
<1> DEFINE a == v \div Base
           b == a \div Base
           c == b \div Base
<1>1. Base \in Nat /\ Base > 1 /\ v \in Nat
  BY PacketAssumption, SMT DEF Modulus, Widths
<1>2. a \in Nat /\ b \in Nat /\ c \in Nat
  BY <1>1, Division
<1>3. v = a * Base + (v % Base) /\ a = b * Base + (a % Base) /\ b = c * Base + (b % Base)
  BY <1>1, <1>2, Division
<1>4. \A n \in Nat : n < Base => n % Base = n
  BY <1>1, SMT
<1>5. v % Base \in Nat /\ a % Base \in Nat /\ b % Base \in Nat
  BY <1>1, <1>2, Division DEF AnyByte
<1> HIDE DEF a, b, c
<1>6. \A x \in Nat, y \in Nat : x >= y => x * Base >= y * Base
  BY <1>1, SMT
<1>7. CASE w = 1
  BY <1>1, <1>4, <1>7, DigitsAre DEF FromDigits, Modulus
<1>8. CASE w = 2
  <2>1. v < Base * Base
    BY <1>1, <1>8 DEF Modulus
  <2>2. a < Base
    <3>1. a >= Base => a * Base >= Base * Base
      BY <1>1, <1>2, <1>6
    <3> QED  BY <1>1, <1>2, <1>3, <1>5, <2>1, <3>1, SMT
  <2>3. Digits(v, w) = <<a % Base, v % Base>>
    BY <1>8, DigitsAre DEF a
  <2>4. FromDigits(<<a % Base, v % Base>>) = (a % Base) * Base + (v % Base)
    BY DEF FromDigits
  <2> QED  BY <1>2, <1>3, <1>4, <2>2, <2>3, <2>4
<1>9. CASE w = 4
  <2>1. v < Base * Base * Base * Base
    BY <1>1, <1>9 DEF Modulus
  <2>2. c < Base
    <3> SUFFICES ASSUME c >= Base PROVE FALSE
      BY <1>1, <1>2
    <3>1. b >= Base * Base
      BY <1>1, <1>2, <1>3, <1>5, <1>6, SMT
    <3>2. a >= Base * Base * Base
      BY <1>1, <1>2, <1>3, <1>5, <1>6, <3>1, SMT
    <3>3. v >= Base * Base * Base * Base
      BY <1>1, <1>2, <1>3, <1>5, <1>6, <3>2, SMT
    <3> QED  BY <1>1, <2>1, <3>3, SMT
  <2>3. Digits(v, w) = <<c % Base, b % Base, a % Base, v % Base>>
    BY <1>9, DigitsAre DEF a, b, c
  <2>4. FromDigits(<<c % Base, b % Base, a % Base, v % Base>>)
           = (((c % Base) * Base + (b % Base)) * Base + (a % Base)) * Base + (v % Base)
    BY DEF FromDigits
  <2> QED  BY <1>2, <1>3, <1>4, <2>2, <2>3, <2>4
<1> QED  BY <1>7, <1>8, <1>9 DEF Widths

\* And SwapH2N undoes SwapN2H, for all bytes: two numbers are never the same bytes.
THEOREM DigitsOfNumber ==
  ASSUME NEW w \in Widths, NEW ds \in Seq(AnyByte), Len(ds) = w
  PROVE  FromDigits(ds) \in Nat /\ Digits(FromDigits(ds), w) = ds
<1>1. \A i \in 1 .. w : ds[i] \in AnyByte /\ ds[i] \in Nat
  BY PacketAssumption DEF AnyByte
<1>2. CASE w = 1
  <2>1. FromDigits(ds) = ds[1] /\ ds[1] % Base = ds[1]
    BY <1>1, <1>2, Remainder DEF FromDigits
  <2>2. Digits(ds[1], 1) = <<ds[1] % Base>>
    BY DigitsAre
  <2> QED  BY <1>1, <1>2, <2>1, <2>2
<1>3. CASE w = 2
  <2>1. FromDigits(ds) = ds[1] * Base + ds[2]
    BY <1>3 DEF FromDigits
  <2>2. /\ FromDigits(ds) \in Nat
        /\ FromDigits(ds) \div Base = ds[1] /\ FromDigits(ds) % Base = ds[2]
    BY <1>1, <1>3, <2>1, Quotient
  <2>3. ds[1] % Base = ds[1]
    BY <1>1, <1>3, Remainder
  <2>4. Digits(FromDigits(ds), 2) = <<ds[1], ds[2]>>
    BY <2>2, <2>3, DigitsAre
  <2> QED  BY <1>3, <2>2, <2>4
<1>4. CASE w = 4
  <2> DEFINE a == ds[1] * Base + ds[2]
             b == a * Base + ds[3]
             v == b * Base + ds[4]
  <2>1. FromDigits(ds) = v
    BY <1>4 DEF FromDigits
  <2>0. /\ ds[1] \in Nat /\ ds[1] \in AnyByte
        /\ ds[2] \in AnyByte /\ ds[3] \in AnyByte /\ ds[4] \in AnyByte
    BY <1>1, <1>4
  <2>2. a \in Nat /\ a \div Base = ds[1] /\ a % Base = ds[2]
    BY <2>0, Quotient
  <2> HIDE DEF a
  <2>3. b \in Nat /\ b \div Base = a /\ b % Base = ds[3]
    BY <2>0, <2>2, Quotient
  <2> HIDE DEF b
  <2>4. v \in Nat /\ v \div Base = b /\ v % Base = ds[4]
    BY <2>0, <2>3, Quotient
  <2>5. ds[1] % Base = ds[1]
    BY <2>0, Remainder
  <2> HIDE DEF v
  <2>6. Digits(v, 4) = <<ds[1], ds[2], ds[3], ds[4]>>
    BY <2>2, <2>3, <2>4, <2>5, DigitsAre
  <2> QED  BY <1>4, <2>1, <2>4, <2>6
<1> QED  BY <1>2, <1>3, <1>4 DEF Widths

-----------------------------------------------------------------------------
(* Induction *)

\* A set of natural numbers with something in it has a smallest.
LEMMA Smallest ==
  ASSUME NEW T, T \subseteq Nat, T # {}
  PROVE  \E n \in T : \A m \in T : n <= m
<1>1. IsWellFoundedOn(OpToRel(<, Nat), Nat)
  BY NatLessThanWellFounded, Zenon
<1>2. PICK n \in T : \A m \in T : ~ (<<m, n>> \in OpToRel(<, Nat))
  BY <1>1, WFMin, Zenon
<1>3. \A m \in T : ~ (m < n)
  BY <1>2 DEF OpToRel
<1> QED  BY <1>3, SMT

\* Induction over a set, which says of a number what an operator would.
LEMMA SetInduction ==
  ASSUME NEW T, 0 \in T, \A n \in Nat : n \in T => n + 1 \in T
  PROVE  \A n \in Nat : n \in T
<1> SUFFICES ASSUME Nat \ T # {} PROVE FALSE
  OBVIOUS
<1>1. PICK n \in Nat \ T : \A m \in Nat \ T : n <= m
  BY Smallest, Zenon
<1>2. n # 0 /\ n - 1 \in Nat
  BY <1>1, SMT
<1>3. n - 1 \in T
  BY <1>1, <1>2, SMT
<1>4. (n - 1) + 1 \in T
  BY <1>2, <1>3, Zenon
<1> QED  BY <1>4, <1>1, SMT

-----------------------------------------------------------------------------
(* Entries one behind the other *)

Wire(e) == Digits(e.value, e.width) \o e.text

\* first takes the prefixes of es to what they encode to.
Encodes(first, es) ==
  first = [n \in 0 .. Len(es) |->
            IF n = 0 THEN << >>
            ELSE first[n - 1] \o Digits(es[n].value, es[n].width) \o es[n].text]

\* The encoding is the last value of the function that the definition chooses.
LEMMA EncodedIs ==
  ASSUME NEW es
  PROVE  Encoded(es) = (CHOOSE first : Encodes(first, es))[Len(es)]
  BY DEF Encoded, Encodes

\* There is no more than one such function.
LEMMA OneEncoding ==
  ASSUME NEW es \in Seq(Entry), NEW f, NEW g, Encodes(f, es), Encodes(g, es)
  PROVE  f = g
<1> DEFINE T == {n \in Nat : n <= Len(es) => f[n] = g[n]}
<1>1. 0 \in T
  BY DEF Encodes
<1>2. ASSUME NEW n \in Nat, n \in T
      PROVE  n + 1 \in T
  <2> SUFFICES ASSUME n + 1 <= Len(es) PROVE f[n + 1] = g[n + 1]
    BY SMT
  <2>1. f[n] = g[n] /\ n + 1 \in 0 .. Len(es) /\ n + 1 # 0 /\ (n + 1) - 1 = n
    BY <1>2
  <2>2. f[n + 1] = f[(n + 1) - 1] \o Digits(es[n + 1].value, es[n + 1].width) \o es[n + 1].text
    BY <2>1 DEF Encodes
  <2>3. g[n + 1] = g[(n + 1) - 1] \o Digits(es[n + 1].value, es[n + 1].width) \o es[n + 1].text
    BY <2>1 DEF Encodes
  <2> QED  BY <2>1, <2>2, <2>3
<1> HIDE DEF T
<1>3. \A n \in Nat : n \in T
  BY <1>1, <1>2, SetInduction, Zenon
<1>4. \A n \in 0 .. Len(es) : f[n] = g[n]
  BY <1>3 DEF T
<1> QED  BY <1>4, SMT DEF Encodes

\* What an entry is on the wire has the length of its parts.
LEMMA EntryIs ==
  ASSUME NEW e \in Entry
  PROVE  /\ Digits(e.value, e.width) \in Seq(AnyByte) /\ Len(Digits(e.value, e.width)) = e.width
         /\ e.text \in Seq(AnyByte)
         /\ e.width \in Nat \ {0}
         /\ Wire(e) \in Seq(AnyByte) /\ Len(Wire(e)) = e.width + Len(e.text)
<1>1. e.value \in Nat /\ e.width \in Widths /\ e.text \in Seq(AnyByte)
  BY DEF Entry
<1>2. Digits(e.value, e.width) \in Seq(AnyByte) /\ Len(Digits(e.value, e.width)) = e.width
  BY <1>1, DigitsType
<1>3. e.width \in Nat \ {0}
  BY <1>1 DEF Widths
<1>4. Wire(e) \in Seq(AnyByte) /\ Len(Wire(e)) = e.width + Len(e.text)
  <2>1. Wire(e) \in Seq(AnyByte)
    BY <1>1, <1>2, ConcatProperties, Zenon DEF Wire
  <2>2. Len(Wire(e)) = Len(Digits(e.value, e.width)) + Len(e.text)
    BY <1>1, <1>2, ConcatProperties, Zenon DEF Wire
  <2> QED  BY <1>2, <2>1, <2>2
<1> QED  BY <1>1, <1>2, <1>3, <1>4

\* Concatenation is associative.
LEMMA Regroup ==
  ASSUME NEW a \in Seq(AnyByte), NEW b \in Seq(AnyByte), NEW c \in Seq(AnyByte)
  PROVE  a \o (b \o c) = a \o b \o c
  BY ConcatAssociative, SMTT(20)

\* One more entry is one more step.
LEMMA EncodesAppend ==
  ASSUME NEW es \in Seq(Entry), NEW e \in Entry, NEW f, Encodes(f, es),
         \A n \in 0 .. Len(es) : f[n] \in Seq(AnyByte)
  PROVE  LET g == [n \in 0 .. Len(es) + 1 |-> IF n <= Len(es) THEN f[n] ELSE f[Len(es)] \o Wire(e)]
         IN  Encodes(g, Append(es, e))
<1> DEFINE g == [n \in 0 .. Len(es) + 1 |-> IF n <= Len(es) THEN f[n] ELSE f[Len(es)] \o Wire(e)]
           fs == Append(es, e)
           step(n) == g[n - 1] \o Digits(fs[n].value, fs[n].width) \o fs[n].text
<1>1. Len(fs) = Len(es) + 1 /\ Len(es) \in Nat
  BY SMT
<1>2. g[0] = << >>
  BY <1>1 DEF Encodes
<1>3. ASSUME NEW n \in 1 .. Len(es)
      PROVE  g[n] = step(n)
  <2>1. fs[n] = es[n] /\ g[n] = f[n] /\ g[n - 1] = f[n - 1]
    BY <1>1, <1>3, SMT
  <2>2. f[n] = f[n - 1] \o Digits(es[n].value, es[n].width) \o es[n].text
    <3>1. n \in 0 .. Len(es) /\ n # 0
      BY <1>1, <1>3
    <3> QED  BY <3>1, Zenon DEF Encodes
  <2> QED  BY <2>1, <2>2
<1>4. g[Len(es) + 1] = step(Len(es) + 1)
  <2>1. fs[Len(es) + 1] = e
    BY SMT
  <2>2. g[Len(es) + 1] = f[Len(es)] \o Wire(e) /\ g[(Len(es) + 1) - 1] = f[Len(es)]
    BY <1>1, SMT
  <2>3. f[Len(es)] \in Seq(AnyByte)
    BY <1>1
  <2>4. f[Len(es)] \o Wire(e) = f[Len(es)] \o Digits(e.value, e.width) \o e.text
    <3>1. Digits(e.value, e.width) \in Seq(AnyByte) /\ e.text \in Seq(AnyByte)
      BY EntryIs
    <3>2. f[Len(es)] \o (Digits(e.value, e.width) \o e.text)
            = f[Len(es)] \o Digits(e.value, e.width) \o e.text
      BY <2>3, <3>1, Regroup
    <3> QED  BY <3>2, Zenon DEF Wire
  <2> QED  BY <2>1, <2>2, <2>4
<1>5. \A n \in 0 .. Len(fs) : g[n] = IF n = 0 THEN << >> ELSE step(n)
  <2> HIDE DEF g, step, fs
  <2> QED  BY <1>1, <1>2, <1>3, <1>4, SMT
<1>6. g = [n \in 0 .. Len(fs) |-> g[n]]
  BY <1>1, SMT
<1>7. g = [n \in 0 .. Len(fs) |-> IF n = 0 THEN << >> ELSE step(n)]
  <2> HIDE DEF g, step, fs
  <2> QED  BY <1>5, <1>6, Zenon
<1> QED  BY <1>7 DEF Encodes

\* A sequence with something in it is its front with the last behind.
LEMMA FrontAndLast ==
  ASSUME NEW S, NEW es \in Seq(S), NEW n \in Nat, Len(es) = n + 1
  PROVE  /\ SubSeq(es, 1, n) \in Seq(S) /\ Len(SubSeq(es, 1, n)) = n
         /\ es[n + 1] \in S
         /\ es = Append(SubSeq(es, 1, n), es[n + 1])
<1>1. SubSeq(es, 1, n) \in Seq(S) /\ Len(SubSeq(es, 1, n)) = n /\ es[n + 1] \in S
  BY SMT
<1>2. /\ DOMAIN es = 1 .. n + 1
      /\ DOMAIN Append(SubSeq(es, 1, n), es[n + 1]) = 1 .. n + 1
      /\ \A i \in 1 .. n + 1 : Append(SubSeq(es, 1, n), es[n + 1])[i] = es[i]
  BY <1>1, SMT
<1> QED  BY <1>1, <1>2, SMT

\* There is such a function for any entries, and its values are bytes.
LEMMA EncodingExists ==
  ASSUME NEW es \in Seq(Entry)
  PROVE  \E f : Encodes(f, es) /\ \A n \in 0 .. Len(es) : f[n] \in Seq(AnyByte)
<1> DEFINE Has(fs) == \E f : Encodes(f, fs) /\ \A k \in 0 .. Len(fs) : f[k] \in Seq(AnyByte)
           T == {n \in Nat : \A fs \in Seq(Entry) : Len(fs) = n => Has(fs)}
<1>1. 0 \in T
  <2> SUFFICES ASSUME NEW fs \in Seq(Entry), Len(fs) = 0 PROVE Has(fs)
    OBVIOUS
  <2> DEFINE f == [n \in {0} |-> << >>]
  <2>1. 0 .. Len(fs) = {0}
    BY SMT
  <2>2. Encodes(f, fs)
    BY <2>1 DEF Encodes
  <2>3. \A k \in 0 .. Len(fs) : f[k] \in Seq(AnyByte)
    BY <2>1
  <2> QED  BY <2>2, <2>3
<1>2. ASSUME NEW n \in Nat, n \in T
      PROVE  n + 1 \in T
  <2> SUFFICES ASSUME NEW fs \in Seq(Entry), Len(fs) = n + 1 PROVE Has(fs)
    OBVIOUS
  <2> DEFINE front == SubSeq(fs, 1, n)
             e == fs[n + 1]
  <2>1. front \in Seq(Entry) /\ Len(front) = n /\ e \in Entry /\ fs = Append(front, e)
    BY FrontAndLast
  <2>2. PICK f : Encodes(f, front) /\ \A k \in 0 .. Len(front) : f[k] \in Seq(AnyByte)
    BY <1>2, <2>1
  <2> DEFINE g == [k \in 0 .. Len(front) + 1 |-> IF k <= Len(front) THEN f[k]
                                                 ELSE f[Len(front)] \o Wire(e)]
  <2> HIDE DEF front, e
  <2>3. Encodes(g, fs)
    BY <2>1, <2>2, EncodesAppend
  <2>4. f[Len(front)] \o Wire(e) \in Seq(AnyByte)
    BY <2>1, <2>2, EntryIs, ConcatProperties
  <2>5. \A k \in 0 .. Len(fs) : g[k] \in Seq(AnyByte)
    BY <2>1, <2>2, <2>4
  <2> QED  BY <2>3, <2>5
<1> HIDE DEF T
<1>3. \A n \in Nat : n \in T
  BY <1>1, <1>2, SetInduction, Zenon
<1>4. Len(es) \in T
  BY <1>3
<1> QED  BY <1>4 DEF T

\* So its last value is the encoding.
LEMMA EncodingEnds ==
  ASSUME NEW es \in Seq(Entry), NEW f, Encodes(f, es)
  PROVE  Encoded(es) = f[Len(es)]
<1>1. Encodes(CHOOSE g : Encodes(g, es), es)
  OBVIOUS
<1>2. (CHOOSE g : Encodes(g, es)) = f
  BY <1>1, OneEncoding, Zenon
<1> QED  BY <1>2, EncodedIs, Zenon

\* An encoding is a sequence of bytes.
LEMMA EncodedIsBytes ==
  ASSUME NEW es \in Seq(Entry)
  PROVE  Encoded(es) \in Seq(AnyByte) /\ Len(Encoded(es)) \in Nat
<1>1. PICK f : Encodes(f, es) /\ \A n \in 0 .. Len(es) : f[n] \in Seq(AnyByte)
  BY EncodingExists
<1>2. Encoded(es) = f[Len(es)] /\ Len(es) \in 0 .. Len(es)
  BY <1>1, EncodingEnds
<1> QED  BY <1>1, <1>2

\* No entries are no bytes.
LEMMA EncodedNone == Encoded(<< >>) = << >>
<1>1. << >> \in Seq(Entry) /\ Len(<< >>) = 0 /\ 0 \in 0 .. 0
  OBVIOUS
<1>2. PICK f : Encodes(f, << >>)
  BY <1>1, EncodingExists, Zenon
<1>3. f[0] = << >>
  BY <1>1, <1>2 DEF Encodes
<1> QED  BY <1>1, <1>2, <1>3, EncodingEnds, Zenon

\* One more entry is its bytes behind the others.
LEMMA EncodedAppend ==
  ASSUME NEW es \in Seq(Entry), NEW e \in Entry
  PROVE  Encoded(Append(es, e)) = Encoded(es) \o Wire(e)
<1>1. PICK f : Encodes(f, es) /\ \A n \in 0 .. Len(es) : f[n] \in Seq(AnyByte)
  BY EncodingExists
<1> DEFINE g == [k \in 0 .. Len(es) + 1 |-> IF k <= Len(es) THEN f[k] ELSE f[Len(es)] \o Wire(e)]
<1>2. Encodes(g, Append(es, e))
  BY <1>1, EncodesAppend
<1>3. Append(es, e) \in Seq(Entry) /\ Len(Append(es, e)) = Len(es) + 1 /\ Len(es) \in Nat
  BY SMT
<1>4. g[Len(es) + 1] = f[Len(es)] \o Wire(e)
  BY <1>3, SMT
<1> HIDE DEF g
<1> QED  BY <1>1, <1>2, <1>3, <1>4, EncodingEnds, Zenon

Begins(s, t) == Len(s) <= Len(t) /\ \A i \in 1 .. Len(s) : t[i] = s[i]

\* A beginning of a beginning is one.
LEMMA BeginsTransitive ==
  ASSUME NEW a \in Seq(AnyByte), NEW b \in Seq(AnyByte), NEW c \in Seq(AnyByte),
         Begins(a, b), Begins(b, c)
  PROVE  Begins(a, c)
  BY SMT DEF Begins

\* A concatenation begins with its first part.
LEMMA BeginsConcat ==
  ASSUME NEW a \in Seq(AnyByte), NEW b \in Seq(AnyByte)
  PROVE  Begins(a, a \o b)
  BY SMT DEF Begins

\* A sequence begins with itself.
LEMMA BeginsItself ==
  ASSUME NEW a \in Seq(AnyByte)
  PROVE  Begins(a, a)
  BY SMT DEF Begins

\* What begins with two parts has the second behind the first.
LEMMA BeginsWithTwo ==
  ASSUME NEW a \in Seq(AnyByte), NEW b \in Seq(AnyByte), NEW c \in Seq(AnyByte),
         Begins(a \o b, c)
  PROVE  Len(a) + Len(b) <= Len(c) /\ \A i \in 1 .. Len(b) : c[Len(a) + i] = b[i]
<1>1. Len(a \o b) = Len(a) + Len(b) /\ Len(a) \in Nat /\ Len(b) \in Nat
  BY SMT
<1>2. \A i \in 1 .. Len(b) : (a \o b)[Len(a) + i] = b[i] /\ Len(a) + i \in 1 .. Len(a \o b)
  BY <1>1, SMT
<1> QED  BY <1>1, <1>2 DEF Begins

\* The first entries encode to the first bytes.
LEMMA EncodedPrefix ==
  ASSUME NEW es \in Seq(Entry), NEW n \in 0 .. Len(es)
  PROVE  Begins(Encoded(SubSeq(es, 1, n)), Encoded(es))
<1> DEFINE T == {m \in Nat : \A fs \in Seq(Entry), k \in Nat :
                               Len(fs) = m /\ k <= m => Begins(Encoded(SubSeq(fs, 1, k)), Encoded(fs))}
<1>1. ASSUME NEW fs \in Seq(Entry)
      PROVE  Begins(Encoded(SubSeq(fs, 1, Len(fs))), Encoded(fs))
  <2>1. SubSeq(fs, 1, Len(fs)) = fs
    BY SMT
  <2> QED  BY <2>1, EncodedIsBytes, BeginsItself
<1>2. 0 \in T
  <2> SUFFICES ASSUME NEW fs \in Seq(Entry), NEW k \in Nat, Len(fs) = 0, k <= 0
               PROVE  Begins(Encoded(SubSeq(fs, 1, k)), Encoded(fs))
    OBVIOUS
  <2>1. k = Len(fs)
    BY SMT
  <2> QED  BY <1>1, <2>1
<1>3. ASSUME NEW m \in Nat, m \in T
      PROVE  m + 1 \in T
  <2> SUFFICES ASSUME NEW fs \in Seq(Entry), NEW k \in Nat, Len(fs) = m + 1, k <= m + 1
               PROVE  Begins(Encoded(SubSeq(fs, 1, k)), Encoded(fs))
    OBVIOUS
  <2>1. CASE k = m + 1
    BY <1>1, <2>1
  <2>2. CASE k <= m
    <3> DEFINE front == SubSeq(fs, 1, m)
               e == fs[m + 1]
    <3>1. front \in Seq(Entry) /\ Len(front) = m /\ e \in Entry /\ fs = Append(front, e)
      BY FrontAndLast
    <3>2. Begins(Encoded(SubSeq(front, 1, k)), Encoded(front))
      BY <1>3, <2>2, <3>1
    <3>3. SubSeq(front, 1, k) = SubSeq(fs, 1, k) /\ SubSeq(fs, 1, k) \in Seq(Entry)
      BY <2>2, SMT
    <3> HIDE DEF front, e
    <3>4. Encoded(fs) = Encoded(front) \o Wire(e)
      BY <3>1, EncodedAppend
    <3>5. Encoded(front) \in Seq(AnyByte) /\ Wire(e) \in Seq(AnyByte)
      BY <3>1, EncodedIsBytes, EntryIs
    <3>6. Begins(Encoded(front), Encoded(fs)) /\ Encoded(fs) \in Seq(AnyByte)
      BY <3>4, <3>5, BeginsConcat, EncodedIsBytes
    <3>7. Encoded(SubSeq(fs, 1, k)) \in Seq(AnyByte)
      BY <3>3, EncodedIsBytes
    <3> QED  BY <3>2, <3>3, <3>5, <3>6, <3>7, BeginsTransitive
  <2> QED  BY <2>1, <2>2
<1> HIDE DEF T
<1>4. \A m \in Nat : m \in T
  BY <1>2, <1>3, SetInduction, Zenon
<1>5. Len(es) \in T
  BY <1>4
<1> QED  BY <1>5 DEF T

\* What a list of entries encodes to, after its first n: the next one.
LEMMA EncodedNext ==
  ASSUME NEW es \in Seq(Entry), NEW n \in Nat, n < Len(es)
  PROVE  LET first == Encoded(SubSeq(es, 1, n))
         IN  /\ es[n + 1] \in Entry
             /\ first \in Seq(AnyByte)
             /\ Len(first) + Len(Wire(es[n + 1])) <= Len(Encoded(es))
             /\ \A i \in 1 .. Len(Wire(es[n + 1])) :
                  Encoded(es)[Len(first) + i] = Wire(es[n + 1])[i]
<1> DEFINE front == SubSeq(es, 1, n)
           e == es[n + 1]
           more == SubSeq(es, 1, n + 1)
<1>1. front \in Seq(Entry) /\ more \in Seq(Entry) /\ e \in Entry /\ Len(more) = n + 1
  BY SMT
<1>2. SubSeq(more, 1, n) = front /\ more[n + 1] = e
  BY SMT
<1>3. more = Append(front, e)
  BY <1>1, <1>2, FrontAndLast
<1>4. Begins(Encoded(more), Encoded(es))
  BY EncodedPrefix, SMT
<1> HIDE DEF front, e, more
<1>5. Encoded(more) = Encoded(front) \o Wire(e)
  BY <1>1, <1>3, EncodedAppend
<1>6. Encoded(front) \in Seq(AnyByte) /\ Wire(e) \in Seq(AnyByte) /\ Encoded(es) \in Seq(AnyByte)
  BY <1>1, EncodedIsBytes, EntryIs
<1>7. /\ Len(Encoded(front)) + Len(Wire(e)) <= Len(Encoded(es))
      /\ \A i \in 1 .. Len(Wire(e)) : Encoded(es)[Len(Encoded(front)) + i] = Wire(e)[i]
  BY <1>4, <1>5, <1>6, BeginsWithTwo
<1> QED  BY <1>1, <1>6, <1>7 DEF front, e

-----------------------------------------------------------------------------
-----------------------------------------------------------------------------
(* Parts of a buffer *)

\* IBuffer::get of bytes that are there.
LEMMA GetIs ==
  ASSUME NEW s \in Seq(AnyByte), NEW at \in Nat, NEW n \in Nat, at + n <= Len(s)
  PROVE  /\ Get(s, at, n) \in Seq(AnyByte) /\ Len(Get(s, at, n)) = n
         /\ \A i \in 1 .. n : Get(s, at, n)[i] = s[at + i]
<1>1. /\ Len(s) \in Nat /\ at + 1 \in Nat /\ (at + n) - (at + 1) + 1 = n
      /\ \A i \in 1 .. n : at + i \in 1 .. Len(s) /\ (at + 1) + i - 1 = at + i
  BY SMT
<1>2. SubSeq(s, at + 1, at + n) = [i \in 1 .. n |-> s[at + i]]
  BY <1>1, SMT
<1>3. \A i \in 1 .. n : s[at + i] \in AnyByte
  BY <1>1
<1>4. Get(s, at, n) \in Seq(AnyByte) /\ Len(Get(s, at, n)) = n
  BY <1>2, <1>3, SMT DEF Get
<1>5. \A i \in 1 .. n : Get(s, at, n)[i] = s[at + i]
  BY <1>2, Zenon DEF Get
<1> QED  BY <1>4, <1>5

\* The three parts of the header.
LEMMA GetTwo ==
  ASSUME NEW s \in Seq(AnyByte), 6 <= Len(s)
  PROVE  /\ Get(s, 0, 2) \in Seq(AnyByte) /\ Len(Get(s, 0, 2)) = 2
         /\ Get(s, 0, 2)[1] = s[1] /\ Get(s, 0, 2)[2] = s[2]
         /\ Get(s, 2, 2) \in Seq(AnyByte) /\ Len(Get(s, 2, 2)) = 2
         /\ Get(s, 2, 2)[1] = s[3] /\ Get(s, 2, 2)[2] = s[4]
         /\ Get(s, 4, 2) \in Seq(AnyByte) /\ Len(Get(s, 4, 2)) = 2
         /\ Get(s, 4, 2)[1] = s[5] /\ Get(s, 4, 2)[2] = s[6]
  BY SMT DEF Get

\* Sequences of the same length and the same bytes are the same.
LEMMA SameSequence ==
  ASSUME NEW s \in Seq(AnyByte), NEW t \in Seq(AnyByte), Len(s) = Len(t),
         \A i \in 1 .. Len(s) : s[i] = t[i]
  PROVE  s = t
  BY SMT

\* Buffers with the same bytes at a place give the same from there.
LEMMA SameGet ==
  ASSUME NEW s \in Seq(AnyByte), NEW t \in Seq(AnyByte), NEW at \in Nat, NEW n \in Nat,
         at + n <= Len(s), at + n <= Len(t), \A i \in 1 .. n : s[at + i] = t[at + i]
  PROVE  Get(s, at, n) = Get(t, at, n)
<1>1. \A i \in 1 .. n : Get(s, at, n)[i] = Get(t, at, n)[i]
  BY GetIs
<1>2. /\ Get(s, at, n) \in Seq(AnyByte) /\ Len(Get(s, at, n)) = n
      /\ Get(t, at, n) \in Seq(AnyByte) /\ Len(Get(t, at, n)) = n
  BY GetIs
<1> HIDE DEF Get
<1> QED  BY <1>1, <1>2, SameSequence

\* Where the bytes of two parts are.
LEMMA TwoParts ==
  ASSUME NEW a \in Seq(AnyByte), NEW b \in Seq(AnyByte)
  PROVE  /\ a \o b \in Seq(AnyByte) /\ Len(a \o b) = Len(a) + Len(b)
         /\ Len(a) \in Nat /\ Len(b) \in Nat
         /\ \A i \in 1 .. Len(a) : (a \o b)[i] = a[i]
         /\ \A i \in 1 .. Len(b) : (a \o b)[Len(a) + i] = b[i]
  BY SMT

\* set_body_size changes the two bytes of the size and no other.
LEMMA OverwriteIs ==
  ASSUME NEW s \in Seq(AnyByte), Len(s) >= HEADER_SIZE,
         NEW text \in Seq(AnyByte), Len(text) = 2
  PROVE  LET t == Overwrite(s, text, 2)
         IN  /\ t \in Seq(AnyByte) /\ Len(t) = Len(s)
             /\ Get(t, 2, 2) = text
             /\ \A i \in 1 .. Len(s) : i \notin {3, 4} => t[i] = s[i]
<1> DEFINE a == SubSeq(s, 1, 2)
           c == SubSeq(s, 5, Len(s))
           t == a \o text \o c
<1>1. a \in Seq(AnyByte) /\ Len(a) = 2 /\ a[1] = s[1] /\ a[2] = s[2]
  BY SMT DEF HEADER_SIZE
<1>2. c \in Seq(AnyByte) /\ Len(c) = Len(s) - 4 /\ \A i \in 1 .. Len(s) - 4 : c[i] = s[4 + i]
  BY SMT DEF HEADER_SIZE
<1>3. Overwrite(s, text, 2) = t
  BY SMT DEF Overwrite
<1> HIDE DEF a, c
<1>4. /\ t \in Seq(AnyByte) /\ Len(t) = Len(s)
      /\ \A i \in 1 .. 2 : t[i] = a[i]
      /\ \A i \in 1 .. 2 : t[2 + i] = text[i]
      /\ \A i \in 1 .. Len(s) - 4 : t[2 + 2 + i] = c[i]
  <2> DEFINE ab == a \o text
  <2>1. /\ ab \in Seq(AnyByte) /\ Len(ab) = Len(a) + Len(text)
        /\ \A i \in 1 .. Len(a) : ab[i] = a[i]
        /\ \A i \in 1 .. Len(text) : ab[Len(a) + i] = text[i]
    BY <1>1, TwoParts
  <2>2. t = ab \o c
    OBVIOUS
  <2> HIDE DEF ab, t
  <2>3. /\ ab \o c \in Seq(AnyByte) /\ Len(ab \o c) = Len(ab) + Len(c)
        /\ \A i \in 1 .. Len(ab) : (ab \o c)[i] = ab[i]
        /\ \A i \in 1 .. Len(c) : (ab \o c)[Len(ab) + i] = c[i]
    BY <1>2, <2>1, TwoParts
  <2>4. /\ t \in Seq(AnyByte) /\ Len(t) = Len(ab) + Len(c)
        /\ \A i \in 1 .. Len(ab) : t[i] = ab[i]
        /\ \A i \in 1 .. Len(c) : t[Len(ab) + i] = c[i]
    BY <2>2, <2>3
  <2> QED  BY <1>1, <1>2, <2>1, <2>4, SMT
<1> HIDE DEF t
<1>5. t[3] = text[1] /\ t[4] = text[2]
  BY <1>4, SMT
<1>6. \A i \in 1 .. Len(s) : i \notin {3, 4} => t[i] = s[i]
  <2> SUFFICES ASSUME NEW i \in 1 .. Len(s), i \notin {3, 4} PROVE t[i] = s[i]
    OBVIOUS
  <2>1. CASE i <= 2
    BY <1>1, <1>4, <2>1, SMT
  <2>2. CASE i > 4
    <3>1. i - 4 \in 1 .. Len(s) - 4 /\ 2 + 2 + (i - 4) = i /\ 4 + (i - 4) = i
      BY <2>2, SMT
    <3>2. t[2 + 2 + (i - 4)] = c[i - 4] /\ c[i - 4] = s[4 + (i - 4)]
      BY <1>2, <1>4, <3>1, Zenon
    <3> QED  BY <3>1, <3>2
  <2> QED  BY <2>1, <2>2, SMT
<1>7. Get(t, 2, 2) \in Seq(AnyByte) /\ Len(Get(t, 2, 2)) = 2 /\ \A i \in 1 .. 2 : Get(t, 2, 2)[i] = text[i]
  <2>1. /\ Get(t, 2, 2) \in Seq(AnyByte) /\ Len(Get(t, 2, 2)) = 2
        /\ Get(t, 2, 2)[1] = t[3] /\ Get(t, 2, 2)[2] = t[4]
    BY <1>4, GetTwo DEF HEADER_SIZE
  <2> QED  BY <1>5, <2>1
<1>8. Get(t, 2, 2) = text
  BY <1>7, SameSequence
<1> QED  BY <1>3, <1>4, <1>6, <1>8

\* The header that WriterPacket::WriterPacket writes.
LEMMA HeaderIs ==
  ASSUME NEW c \in Nat
  PROVE  LET s == MagicBytes \o Digits(0, 2) \o Digits(c, 2)
         IN  /\ s \in Seq(AnyByte) /\ Len(s) = HEADER_SIZE
             /\ Get(s, 0, 2) = MagicBytes
             /\ Get(s, 2, 2) = Digits(0, 2)
             /\ Get(s, 4, 2) = Digits(c, 2)
<1> DEFINE a == MagicBytes
           b == Digits(0, 2)
           d == Digits(c, 2)
           s == a \o b \o d
<1>1. a \in Seq(AnyByte) /\ Len(a) = 2
  <2>1. MagicBytes \in [1 .. 2 -> AnyByte]
    BY PacketAssumption
  <2>2. MagicBytes[1] \in AnyByte /\ MagicBytes[2] \in AnyByte /\ 2 \in Nat
    BY <2>1
  <2>3. MagicBytes = [i \in 1 .. 2 |-> MagicBytes[i]]
    BY <2>1, Zenon
  <2>4. [i \in 1 .. 2 |-> MagicBytes[i]] \in Seq(AnyByte) /\ Len([i \in 1 .. 2 |-> MagicBytes[i]]) = 2
    BY <2>2, SMT
  <2> QED  BY <2>3, <2>4, Zenon
<1>2. b \in Seq(AnyByte) /\ Len(b) = 2 /\ d \in Seq(AnyByte) /\ Len(d) = 2
  BY DigitsType, SMT DEF Widths
<1> HIDE DEF a, b, d
<1>3. /\ s \in Seq(AnyByte) /\ Len(s) = 6
      /\ s[1] = a[1] /\ s[2] = a[2] /\ s[3] = b[1] /\ s[4] = b[2] /\ s[5] = d[1] /\ s[6] = d[2]
  <2> DEFINE ab == a \o b
             t == ab \o d
  <2>1. /\ ab \in Seq(AnyByte) /\ Len(ab) = Len(a) + Len(b)
        /\ \A i \in 1 .. Len(a) : ab[i] = a[i]
        /\ \A i \in 1 .. Len(b) : ab[Len(a) + i] = b[i]
    BY <1>1, <1>2, TwoParts
  <2> HIDE DEF ab
  <2>2. Len(ab) = 4 /\ ab[1] = a[1] /\ ab[2] = a[2] /\ ab[3] = b[1] /\ ab[4] = b[2]
    BY <1>1, <1>2, <2>1, SMT
  <2>3. /\ t \in Seq(AnyByte) /\ Len(t) = Len(ab) + Len(d)
        /\ \A i \in 1 .. Len(ab) : t[i] = ab[i]
        /\ \A i \in 1 .. Len(d) : t[Len(ab) + i] = d[i]
    BY <1>2, <2>1, TwoParts
  <2> HIDE DEF t
  <2>4. /\ Len(t) = 6 /\ t[1] = ab[1] /\ t[2] = ab[2] /\ t[3] = ab[3] /\ t[4] = ab[4]
        /\ t[5] = d[1] /\ t[6] = d[2]
    BY <1>2, <2>2, <2>3, SMT
  <2>5. s = t
    BY DEF t, ab
  <2> HIDE DEF s
  <2> QED  BY <2>2, <2>3, <2>4, <2>5
<1> HIDE DEF s
<1>4. /\ Get(s, 0, 2) \in Seq(AnyByte) /\ Len(Get(s, 0, 2)) = 2
      /\ Get(s, 0, 2)[1] = s[1] /\ Get(s, 0, 2)[2] = s[2]
      /\ Get(s, 2, 2) \in Seq(AnyByte) /\ Len(Get(s, 2, 2)) = 2
      /\ Get(s, 2, 2)[1] = s[3] /\ Get(s, 2, 2)[2] = s[4]
      /\ Get(s, 4, 2) \in Seq(AnyByte) /\ Len(Get(s, 4, 2)) = 2
      /\ Get(s, 4, 2)[1] = s[5] /\ Get(s, 4, 2)[2] = s[6]
  <2>1. 6 <= Len(s)
    BY <1>3
  <2> QED  BY <1>3, <2>1, GetTwo
<1>7. \A x, y \in Seq(AnyByte) : Len(x) = 2 /\ Len(y) = 2 /\ x[1] = y[1] /\ x[2] = y[2] => x = y
  BY SMT
<1>8. Get(s, 0, 2) = a /\ Get(s, 2, 2) = b /\ Get(s, 4, 2) = d
  BY <1>1, <1>2, <1>3, <1>4, <1>7
<1> QED  BY <1>3, <1>8 DEF a, b, d, s, HEADER_SIZE

-----------------------------------------------------------------------------
(* The invariant *)

\* What was put in whole is of a size that its digits can give back.
Whole(e) == /\ e.kind = "number" => e.text = << >> /\ e.value < Modulus(e.width)
            /\ e.kind = "string" => /\ e.width = LengthWidth /\ e.value = Len(e.text)
                                    /\ e.value < Modulus(LengthWidth)

\* Nothing is read before the packet is there.
Unread == received = << >> /\ index = HEADER_SIZE /\ out = << >> /\ stopped = Nothing

\* The frame is as long as its header says, and what the writer's buffer still begins
\* with, but for the size; the reader is in it.
Framed == /\ Len(received) = HEADER_SIZE + BodySize(received)
          /\ HEADER_SIZE <= Len(received) /\ Len(received) <= Len(bytes)
          /\ \A i \in 1 .. Len(received) : i \notin {3, 4} => received[i] = bytes[i]
          /\ HEADER_SIZE <= index /\ index <= Len(received)

IInv == /\ PacketTypeOK
        /\ HEADER_SIZE <= sized
        /\ WireExact
        /\ BodySizeExact
        /\ \A i \in DOMAIN entries : Whole(entries[i])
        /\ ~sent => Unread
        /\ sent => Framed
        /\ ReadsWhatIsThere
        /\ RoundTrip

\* What is behind a place, when more is written behind all.
LEMMA GetTail ==
  ASSUME NEW s \in Seq(AnyByte), NEW t \in Seq(AnyByte), NEW at \in Nat, at <= Len(s)
  PROVE  Get(s \o t, at, Len(s \o t) - at) = Get(s, at, Len(s) - at) \o t
<1> DEFINE st == s \o t
           tail == Get(s, at, Len(s) - at)
           all == Get(st, at, Len(st) - at)
<1>1. /\ st \in Seq(AnyByte) /\ Len(st) = Len(s) + Len(t) /\ Len(s) \in Nat /\ Len(t) \in Nat
      /\ \A i \in 1 .. Len(s) : st[i] = s[i]
      /\ \A i \in 1 .. Len(t) : st[Len(s) + i] = t[i]
  BY TwoParts
<1>2. /\ tail \in Seq(AnyByte) /\ Len(tail) = Len(s) - at
      /\ \A i \in 1 .. Len(s) - at : tail[i] = s[at + i]
  <2>1. Len(s) - at \in Nat /\ at + (Len(s) - at) <= Len(s)
    BY <1>1, SMT
  <2> QED  BY <2>1, GetIs
<1> HIDE DEF tail, st
<1>3. Len(st) - at \in Nat /\ at + (Len(st) - at) <= Len(st)
  BY <1>1, SMT
<1>4. /\ all \in Seq(AnyByte) /\ Len(all) = Len(st) - at
      /\ \A i \in 1 .. Len(st) - at : all[i] = st[at + i]
  BY <1>1, <1>3, GetIs
<1>5. /\ tail \o t \in Seq(AnyByte) /\ Len(tail \o t) = Len(tail) + Len(t)
      /\ \A i \in 1 .. Len(tail) : (tail \o t)[i] = tail[i]
      /\ \A i \in 1 .. Len(t) : (tail \o t)[Len(tail) + i] = t[i]
  BY <1>2, TwoParts
<1> HIDE DEF all
<1>6. ASSUME NEW i \in 1 .. Len(all)
      PROVE  all[i] = (tail \o t)[i]
  <2>1. all[i] = st[at + i]
    BY <1>4, <1>6
  <2>2. CASE i <= Len(s) - at
    <3>1. i \in 1 .. Len(tail) /\ i \in 1 .. Len(s) - at /\ at + i \in 1 .. Len(s)
      BY <1>1, <1>2, <2>2, SMT
    <3>2. (tail \o t)[i] = tail[i] /\ tail[i] = s[at + i] /\ st[at + i] = s[at + i]
      BY <1>1, <1>2, <1>5, <3>1, Zenon
    <3> QED  BY <2>1, <3>2
  <2>3. CASE i > Len(s) - at
    <3> DEFINE k == i - (Len(s) - at)
    <3>1. k \in 1 .. Len(t) /\ Len(tail) + k = i /\ Len(s) + k = at + i
      BY <1>1, <1>2, <1>4, <2>3, SMT
    <3> HIDE DEF k
    <3>2. (tail \o t)[Len(tail) + k] = t[k] /\ st[Len(s) + k] = t[k]
      BY <1>1, <1>5, <3>1, Zenon
    <3> QED  BY <2>1, <3>1, <3>2
  <2>4. i <= Len(s) - at \/ i > Len(s) - at
    BY <1>1, <1>4, SMT
  <2> QED  BY <2>2, <2>3, <2>4, Zenon
<1>7. Len(all) = Len(tail \o t)
  BY <1>1, <1>2, <1>4, <1>5, SMT
<1>8. all = tail \o t
  BY <1>4, <1>5, <1>6, <1>7, SameSequence
<1> QED  BY <1>8 DEF all, tail, st

\* A command is a number of two bytes.
LEMMA CmdType == ASSUME PacketTypeOK PROVE cmd \in 0 .. Modulus(2) - 1 /\ cmd \in Nat
<1>1. cmd \in 0 .. Modulus(2) - 1
  BY PacketAssumption DEF PacketTypeOK
<1> QED  BY <1>1, SMT

\* The sizes: a packet is no longer than its size field can say.
LEMMA Bytes256 ==
  /\ Base \in Nat /\ Base > 1 /\ Base * Base \in Nat /\ PacketCapacity \in Nat
  /\ HEADER_SIZE <= PacketCapacity /\ PacketCapacity <= Base * Base
  /\ Modulus(2) = Base * Base
<1>1. Base \in Nat /\ Base > 1 /\ PacketCapacity \in HEADER_SIZE .. Base * Base
  BY PacketAssumption, SMT
<1>2. Base * Base \in Nat
  BY <1>1, SMT
<1>3. Modulus(2) = Base * Base
  BY DEF Modulus
<1> QED  BY <1>1, <1>2, <1>3, SMT DEF HEADER_SIZE

\* One more entry behind the others, while there is room.
LEMMA AppendedKeeps ==
  ASSUME IInv, NEW e \in Entry, Whole(e),
         bytes' = bytes \o Wire(e), entries' = Append(entries, e),
         Len(bytes) + Len(Wire(e)) <= PacketCapacity,
         UNCHANGED <<sized, cmd, sent, reader>>
  PROVE  IInv'
<1> DEFINE w == Wire(e)
<1>1. w \in Seq(AnyByte) /\ Len(w) \in Nat \ {0}
  BY EntryIs DEF Entry
<1>2. bytes \in Seq(AnyByte) /\ Len(bytes) \in HEADER_SIZE .. PacketCapacity /\ Len(bytes) \in Nat
  BY DEF IInv, PacketTypeOK
<1> HIDE DEF w
<1>3. /\ bytes' \in Seq(AnyByte) /\ Len(bytes') = Len(bytes) + Len(w)
      /\ \A i \in 1 .. Len(bytes) : bytes'[i] = bytes[i]
  <2>1. bytes' = bytes \o w
    BY DEF w
  <2>2. /\ bytes \o w \in Seq(AnyByte) /\ Len(bytes \o w) = Len(bytes) + Len(w)
        /\ \A i \in 1 .. Len(bytes) : (bytes \o w)[i] = bytes[i]
    BY <1>1, <1>2, TwoParts
  <2> QED  BY <2>1, <2>2
<1>4. entries \in Seq(Entry) /\ entries' \in Seq(Entry) /\ Len(entries') = Len(entries) + 1
      /\ \A i \in 1 .. Len(entries) : entries'[i] = entries[i]
      /\ entries'[Len(entries) + 1] = e /\ Len(entries) \in Nat
  BY SMT DEF IInv, PacketTypeOK
<1>5. /\ sized' = sized /\ cmd' = cmd /\ sent' = sent /\ received' = received
      /\ index' = index /\ out' = out /\ stopped' = stopped
  BY DEF reader
<1>6. PacketTypeOK'
  <2>1. Len(bytes') \in HEADER_SIZE .. PacketCapacity
    BY <1>1, <1>2, <1>3, Bytes256, SMT DEF w, HEADER_SIZE
  <2>2. sized' \in 0 .. Len(bytes')
    BY <1>1, <1>2, <1>3, <1>5, SMT DEF IInv, PacketTypeOK
  <2> QED  BY <1>3, <1>4, <1>5, <2>1, <2>2 DEF IInv, PacketTypeOK
<1>7. /\ Get(bytes', 0, 2) = Get(bytes, 0, 2) /\ Get(bytes', 2, 2) = Get(bytes, 2, 2)
      /\ Get(bytes', 4, 2) = Get(bytes, 4, 2)
  <2>1. \A at \in {0, 2, 4} : /\ at \in Nat /\ at + 2 <= Len(bytes) /\ at + 2 <= Len(bytes')
                              /\ \A i \in 1 .. 2 : bytes'[at + i] = bytes[at + i]
    BY <1>1, <1>2, <1>3, SMT DEF HEADER_SIZE
  <2>2. \A at \in {0, 2, 4} : Get(bytes', at, 2) = Get(bytes, at, 2)
    BY <1>2, <1>3, <2>1, SameGet
  <2> QED  BY <2>2
<1>8. WireExact'
  <2>1. Get(bytes', HEADER_SIZE, Len(bytes') - HEADER_SIZE)
          = Get(bytes, HEADER_SIZE, Len(bytes) - HEADER_SIZE) \o w
    <3>1. HEADER_SIZE \in Nat /\ HEADER_SIZE <= Len(bytes) /\ bytes' = bytes \o w
      BY <1>2 DEF w, HEADER_SIZE
    <3>2. Get(bytes \o w, HEADER_SIZE, Len(bytes \o w) - HEADER_SIZE)
            = Get(bytes, HEADER_SIZE, Len(bytes) - HEADER_SIZE) \o w
      BY <1>1, <1>2, <3>1, GetTail
    <3> QED  BY <3>1, <3>2
  <2>2. Encoded(entries') = Encoded(entries) \o w
    BY <1>4, EncodedAppend DEF w
  <2> QED  BY <1>5, <1>7, <2>1, <2>2 DEF IInv, WireExact
<1>9. BodySizeExact'
  BY <1>5, <1>7 DEF IInv, BodySizeExact, BodySize
<1>10. \A i \in DOMAIN entries' : Whole(entries'[i])
  BY <1>4 DEF IInv
<1>11. ~sent' => Unread'
  BY <1>5 DEF IInv, Unread
<1>12. sent' => Framed'
  BY <1>1, <1>2, <1>3, <1>5 DEF IInv, Framed, BodySize
<1>13. ReadsWhatIsThere'
  BY <1>5 DEF IInv, ReadsWhatIsThere
<1>14. RoundTrip'
  <2>1. sent' => BodySize(received') # Len(bytes') - HEADER_SIZE
    <3> SUFFICES ASSUME sent' PROVE BodySize(received) # Len(bytes') - HEADER_SIZE
      BY <1>5 DEF BodySize
    <3>1. Len(received) = HEADER_SIZE + BodySize(received) /\ Len(received) <= Len(bytes)
      BY <1>5 DEF IInv, Framed
    <3>2. Len(received) \in Nat
      BY DEF IInv, PacketTypeOK
    <3> QED  BY <1>1, <1>2, <1>3, <3>1, <3>2, SMT DEF HEADER_SIZE
  <2> QED  BY <2>1 DEF RoundTrip, BodySize
<1> QED  BY <1>5, <1>6, <1>8, <1>9, <1>10, <1>11, <1>12, <1>13, <1>14, Zenon DEF IInv, Whole, Modulus

\* Every number of a packet is below the count of its digits' values.
LEMMA ModulusIs ==
  /\ Modulus(1) = Base /\ Modulus(2) = Base * Base /\ Modulus(4) = Base * Base * Base * Base
  /\ Base * Base <= Modulus(4) /\ Modulus(4) \in Nat
<1>1. Modulus(1) = Base /\ Modulus(2) = Base * Base /\ Modulus(4) = Base * Base * Base * Base
  BY DEF Modulus
<1>2. Base \in Nat /\ Base > 1
  BY PacketAssumption, SMT
<1>3. \A n \in Nat : n <= n * Base /\ n * Base \in Nat
  BY <1>2, SMT
<1>4. Base * Base \in Nat
  BY <1>2, <1>3
<1>5. Base * Base * Base \in Nat /\ Base * Base <= Base * Base * Base
  BY <1>3, <1>4
<1>6. Base * Base * Base * Base \in Nat /\ Base * Base * Base <= Base * Base * Base * Base
  BY <1>3, <1>5
<1> QED  BY <1>1, <1>4, <1>5, <1>6, SMT

-----------------------------------------------------------------------------
(* The steps of the writer *)

\* A packet that was just made satisfies the invariant.
LEMMA InitIInv == PacketInit => IInv
<1> SUFFICES ASSUME PacketInit PROVE IInv
  OBVIOUS
<1>1. cmd \in Cmds /\ cmd \in 0 .. Modulus(2) - 1
  BY PacketAssumption DEF PacketInit
<1>2. cmd \in Nat
  BY <1>1, SMT
<1>3. /\ bytes \in Seq(AnyByte) /\ Len(bytes) = HEADER_SIZE
      /\ Get(bytes, 0, 2) = MagicBytes /\ Get(bytes, 2, 2) = Digits(0, 2)
      /\ Get(bytes, 4, 2) = Digits(cmd, 2)
  BY <1>2, HeaderIs DEF PacketInit
<1>4. /\ entries = << >> /\ sized = HEADER_SIZE /\ sent = FALSE
      /\ received = << >> /\ index = HEADER_SIZE /\ out = << >> /\ stopped = Nothing
  BY DEF PacketInit
<1>5. PacketTypeOK
  <2>1. HEADER_SIZE \in Nat /\ HEADER_SIZE \in HEADER_SIZE .. PacketCapacity
    BY Bytes256, SMT DEF HEADER_SIZE
  <2>2. entries \in Seq(Entry) /\ out \in Seq(Entry) /\ received \in Seq(AnyByte)
    BY <1>4
  <2>3. sized \in 0 .. Len(bytes)
    BY <1>3, <1>4 DEF HEADER_SIZE
  <2> QED  BY <1>1, <1>3, <1>4, <2>1, <2>2, <2>3 DEF PacketTypeOK
<1>6. WireExact
  <2>1. Get(bytes, HEADER_SIZE, Len(bytes) - HEADER_SIZE) = << >>
    BY <1>3 DEF Get, HEADER_SIZE
  <2> QED  BY <1>3, <1>4, <2>1, EncodedNone DEF WireExact
<1>7. BodySizeExact
  <2>1. 0 \in 0 .. Modulus(2) - 1 /\ 2 \in Widths
    BY Bytes256, SMT DEF Widths
  <2>2. BodySize(bytes) = 0
    BY <1>3, <2>1, NumberOfDigits DEF BodySize
  <2> QED  BY <1>4, <2>2 DEF BodySizeExact, HEADER_SIZE
<1> QED  BY <1>4, <1>5, <1>6, <1>7
         DEF IInv, Unread, ReadsWhatIsThere, RoundTrip, HEADER_SIZE

\* A step that changes nothing keeps it.
LEMMA StutterIInv == ASSUME IInv, UNCHANGED packetVars PROVE IInv'
<1>1. /\ bytes' = bytes /\ entries' = entries /\ sized' = sized /\ cmd' = cmd /\ sent' = sent
      /\ received' = received /\ index' = index /\ out' = out /\ stopped' = stopped
  BY DEF packetVars, writer, reader
<1>2. PacketTypeOK' /\ HEADER_SIZE <= sized'
  BY <1>1 DEF IInv, PacketTypeOK
<1>3. WireExact'
  BY <1>1 DEF IInv, WireExact
<1>4. BodySizeExact'
  BY <1>1 DEF IInv, BodySizeExact, BodySize
<1>5. \A i \in DOMAIN entries' : Whole(entries'[i])
  BY <1>1 DEF IInv
<1>6. (~sent' => Unread') /\ (sent' => Framed')
  BY <1>1 DEF IInv, Unread, Framed, BodySize
<1>7. ReadsWhatIsThere'
  BY <1>1 DEF IInv, ReadsWhatIsThere
<1>8. RoundTrip'
  BY <1>1 DEF IInv, RoundTrip, BodySize, Followed, Cmd
<1> QED  BY <1>2, <1>3, <1>4, <1>5, <1>6, <1>7, <1>8, Zenon DEF IInv, Whole, Modulus

\* A number that fits is one more entry, one that does not is none.
LEMMA StepAppendNumber ==
  ASSUME IInv, NEW n \in Numbers, AppendNumber(n[1], n[2])
  PROVE  IInv'
<1> DEFINE w == n[1]
           v == n[2]
           e == AsNumber(w, v)
<1>1. w \in Widths /\ v \in 0 .. Modulus(w) - 1
  BY PacketAssumption
<1>2. w \in Nat /\ v \in Nat /\ v < Modulus(w)
  <2>1. Modulus(w) \in Nat
    BY <1>1, ModulusIs, Bytes256, SMT DEF Widths
  <2> QED  BY <1>1, <2>1, SMT DEF Widths
<1>3. e \in Entry /\ Whole(e) /\ e.text = << >> /\ e.value = v /\ e.width = w
  BY <1>1, <1>2 DEF AsNumber, Entry, Whole, Kinds
<1>4. Wire(e) = Digits(v, w) /\ Len(Wire(e)) = w
  <2>1. Digits(v, w) \in Seq(AnyByte) /\ Len(Digits(v, w)) = w
    BY <1>1, <1>2, DigitsType
  <2>2. Digits(v, w) \o << >> = Digits(v, w)
    BY <2>1, SMT
  <2> QED  BY <1>3, <2>1, <2>2 DEF Wire
<1>5. CASE Free < w
  <2>1. UNCHANGED packetVars
    BY <1>5 DEF AppendNumber, packetVars, writer
  <2> QED  BY <2>1, StutterIInv
<1>6. CASE ~(Free < w)
  <2>1. /\ bytes' = bytes \o Digits(v, w) /\ entries' = Append(entries, e)
        /\ UNCHANGED <<sized, cmd, sent, reader>>
    BY <1>6 DEF AppendNumber, Left
  <2>2. Len(bytes) + Len(Wire(e)) <= PacketCapacity
    <3>1. Len(bytes) \in Nat /\ PacketCapacity \in Nat
      BY Bytes256 DEF IInv, PacketTypeOK
    <3> QED  BY <1>2, <1>4, <1>6, <3>1, SMT DEF Free
  <2> HIDE DEF e, v, w
  <2> QED  BY <1>3, <1>4, <2>1, <2>2, AppendedKeeps
<1> QED  BY <1>5, <1>6

\* A string that fits is an entry, one whose length alone fits is a torn one.
LEMMA StepAppendString ==
  ASSUME IInv, NEW s \in Strings, AppendString(s)
  PROVE  IInv'
<1> DEFINE e == AsString(s)
           torn == AsTorn(Len(s))
           digits == Digits(Len(s), LengthWidth)
<1>1. s \in Seq(AnyByte) /\ Len(s) \in Nat
  <2>1. s \in Seq(AnyByte)
    BY PacketAssumption
  <2> QED  BY <2>1
<1>2. LengthWidth = 4 /\ LengthWidth \in Widths
  BY DEF LengthWidth, Widths
<1>3. digits \in Seq(AnyByte) /\ Len(digits) = 4
  BY <1>1, <1>2, DigitsType
<1>4. /\ e \in Entry /\ e.kind = "string" /\ e.width = LengthWidth /\ e.value = Len(s) /\ e.text = s
      /\ torn \in Entry /\ torn.kind = "torn" /\ torn.width = LengthWidth
      /\ torn.value = Len(s) /\ torn.text = << >>
  <2>0. e = [kind |-> "string", width |-> LengthWidth, value |-> Len(s), text |-> s]
    BY DEF AsString
  <2>1. torn = [kind |-> "torn", width |-> LengthWidth, value |-> Len(s), text |-> << >>]
    BY DEF AsTorn
  <2>2. << >> \in Seq(AnyByte)
    OBVIOUS
  <2> HIDE DEF e, torn
  <2> QED  BY <1>1, <1>2, <2>0, <2>1, <2>2 DEF Entry, Kinds
<1>5. Wire(e) = digits \o s /\ Len(Wire(e)) = 4 + Len(s)
  <2>1. Wire(e) = digits \o s
    BY <1>4 DEF Wire
  <2>2. Len(digits \o s) = Len(digits) + Len(s)
    BY <1>1, <1>3, TwoParts
  <2> QED  BY <1>3, <2>1, <2>2
<1>6. Wire(torn) = digits /\ Len(Wire(torn)) = 4
  <2>1. digits \o << >> = digits
    BY <1>3, SMT
  <2> QED  BY <1>3, <1>4, <2>1 DEF Wire
<1>7. Len(bytes) \in Nat /\ PacketCapacity \in Nat /\ HEADER_SIZE <= Len(bytes)
  BY Bytes256, SMT DEF IInv, PacketTypeOK, HEADER_SIZE
<1>8. UNCHANGED <<sized, cmd, sent, reader>>
  BY DEF AppendString
<1>9. CASE Free < LengthWidth
  <2>1. UNCHANGED <<bytes, entries>>
    <3>1. ~(Free >= LengthWidth + Len(s))
      BY <1>1, <1>2, <1>7, <1>9, SMT DEF Free
    <3> QED  BY <1>9, <3>1 DEF AppendString
  <2>2. UNCHANGED packetVars
    BY <1>8, <2>1 DEF packetVars, writer
  <2> QED  BY <2>2, StutterIInv
<1>10. CASE Free >= LengthWidth + Len(s)
  <2>1. ~(Free < LengthWidth)
    BY <1>1, <1>2, <1>7, <1>10, SMT DEF Free
  <2>2. bytes' = bytes \o digits \o s /\ entries' = Append(entries, e)
    BY <1>10, <2>1 DEF AppendString, Left
  <2>3. bytes \in Seq(AnyByte)
    BY DEF IInv, PacketTypeOK
  <2>4. bytes' = bytes \o Wire(e)
    <3>1. bytes \o (digits \o s) = bytes \o digits \o s
      BY <1>1, <1>3, <2>3, Regroup
    <3> QED  BY <1>5, <2>2, <3>1
  <2>5. Len(bytes) + Len(Wire(e)) <= PacketCapacity
    BY <1>1, <1>2, <1>5, <1>7, <1>10, SMT DEF Free
  <2>6. Whole(e)
    <3>1. Len(s) < Modulus(LengthWidth)
      BY <1>1, <1>2, <1>5, <1>7, <2>5, Bytes256, ModulusIs, SMT
    <3> QED  BY <1>4, <3>1 DEF Whole
  <2> HIDE DEF e
  <2> QED  BY <1>4, <1>8, <2>2, <2>4, <2>5, <2>6, AppendedKeeps
<1>11. CASE ~(Free < LengthWidth) /\ ~(Free >= LengthWidth + Len(s))
  <2>1. bytes' = bytes \o digits /\ entries' = Append(entries, torn)
    BY <1>11 DEF AppendString, Left
  <2>2. Len(bytes) + Len(Wire(torn)) <= PacketCapacity
    <3> HIDE DEF torn, digits
    <3>1. ~(PacketCapacity - Len(bytes) < 4)
      BY <1>2, <1>11 DEF Free
    <3>2. Len(bytes) + 4 <= PacketCapacity
      BY <1>7, <3>1, SMT
    <3> QED  BY <1>6, <3>2
  <2>3. Whole(torn)
    BY <1>4 DEF Whole
  <2> HIDE DEF torn
  <2> QED  BY <1>4, <1>6, <1>8, <2>1, <2>2, <2>3, AppendedKeeps
<1> QED  BY <1>9, <1>10, <1>11

\* The number of some bytes is one that these bytes can hold.
LEMMA BelowModulus ==
  ASSUME NEW w \in Widths, NEW ds \in Seq(AnyByte), Len(ds) = w
  PROVE  FromDigits(ds) \in 0 .. Modulus(w) - 1
<1>1. /\ Base \in Nat /\ Base > 1
      /\ \A i \in 1 .. w : ds[i] \in Nat /\ ds[i] <= Base - 1
  BY PacketAssumption, SMT DEF AnyByte
<1>2. ASSUME NEW q \in Nat, NEW m \in Nat, q <= m - 1, NEW r \in Nat, r <= Base - 1
      PROVE  q * Base + r \in Nat /\ m * Base \in Nat /\ q * Base + r <= m * Base - 1
  <2> DEFINE d == m - 1 - q
             qb == q * Base
             db == d * Base
             mb == m * Base
  <2>1. d \in Nat
    BY <1>2, SMT
  <2>2. mb = qb + db + Base
    <3>1. m = q + d + 1
      BY <1>2, SMT
    <3> HIDE DEF d
    <3> QED  BY <1>1, <1>2, <2>1, <3>1, SMT
  <2> HIDE DEF d
  <2>3. qb \in Nat /\ db \in Nat /\ mb \in Nat
    BY <1>1, <2>1, SMT
  <2> HIDE DEF qb, db, mb
  <2>4. qb + r \in Nat /\ mb \in Nat /\ qb + r <= mb - 1
    BY <1>1, <1>2, <2>2, <2>3, SMT
  <2> QED  BY <2>4 DEF qb, mb
<1>3. CASE w = 1
  <2>1. FromDigits(ds) = ds[1] /\ Modulus(w) = Base
    BY <1>3, ModulusIs DEF FromDigits
  <2>2. ds[1] \in Nat /\ ds[1] <= Base - 1
    BY <1>1, <1>3
  <2> QED  BY <1>1, <2>1, <2>2, SMT
<1>4. CASE w = 2
  <2>1. FromDigits(ds) = ds[1] * Base + ds[2] /\ Modulus(w) = Base * Base
    BY <1>4, ModulusIs DEF FromDigits
  <2>2. ds[1] \in Nat /\ ds[1] <= Base - 1 /\ ds[2] \in Nat /\ ds[2] <= Base - 1
    BY <1>1, <1>4
  <2> DEFINE a == ds[1] * Base + ds[2]
             k == Base * Base
  <2>3. a \in Nat /\ k \in Nat /\ a <= k - 1
    BY <1>1, <1>2, <2>2, Zenon
  <2> HIDE DEF a, k
  <2>4. a \in 0 .. k - 1
    BY <2>3, SMT
  <2> QED  BY <2>1, <2>4 DEF a, k
<1>5. CASE w = 4
  <2>0. /\ ds[1] \in Nat /\ ds[1] <= Base - 1 /\ ds[2] \in Nat /\ ds[2] <= Base - 1
        /\ ds[3] \in Nat /\ ds[3] <= Base - 1 /\ ds[4] \in Nat /\ ds[4] <= Base - 1
    BY <1>1, <1>5
  <2> DEFINE a == ds[1] * Base + ds[2]
             b == a * Base + ds[3]
             c == b * Base + ds[4]
             k == Base * Base
             l == k * Base
             m == l * Base
  <2>1. FromDigits(ds) = c /\ Modulus(w) = m
    BY <1>5, ModulusIs DEF FromDigits
  <2>2. a \in Nat /\ k \in Nat /\ a <= k - 1
    BY <1>1, <1>2, <2>0, Zenon
  <2> HIDE DEF a, k
  <2>3. b \in Nat /\ l \in Nat /\ b <= l - 1
    BY <1>2, <2>0, <2>2, Zenon
  <2> HIDE DEF b, l
  <2>4. c \in Nat /\ m \in Nat /\ c <= m - 1
    BY <1>2, <2>0, <2>3, Zenon
  <2> HIDE DEF c, m
  <2>5. c \in 0 .. m - 1
    BY <2>4, SMT
  <2> QED  BY <2>1, <2>5
<1> QED  BY <1>3, <1>4, <1>5 DEF Widths

\* set_body_size changes the size and nothing else of the buffer.
LEMMA StepSetBodySize == ASSUME IInv, SetBodySize PROVE IInv'
<1> DEFINE size == (Len(bytes) - HEADER_SIZE) % Modulus(2)
           digits == Digits(size, 2)
<1>1. /\ bytes \in Seq(AnyByte) /\ Len(bytes) \in Nat /\ HEADER_SIZE <= Len(bytes)
      /\ Len(bytes) <= PacketCapacity
  BY Bytes256, SMT DEF IInv, PacketTypeOK, HEADER_SIZE
<1>2. size = Len(bytes) - HEADER_SIZE /\ size \in 0 .. Modulus(2) - 1 /\ size \in Nat
  <2> DEFINE k == Len(bytes) - HEADER_SIZE
  <2>1. k \in Nat /\ Modulus(2) \in Nat /\ k < Modulus(2)
    BY <1>1, Bytes256, SMT DEF HEADER_SIZE
  <2>2. k % Modulus(2) = k
    <3> HIDE DEF k
    <3> QED  BY <2>1, NoWrap
  <2>3. k \in 0 .. Modulus(2) - 1
    <3> HIDE DEF k
    <3> QED  BY <2>1, SMT
  <2> QED  BY <2>1, <2>2, <2>3
<1>3. /\ bytes' = Overwrite(bytes, digits, 2) /\ sized' = Len(bytes)
      /\ entries' = entries /\ cmd' = cmd /\ sent' = sent
      /\ received' = received /\ index' = index /\ out' = out /\ stopped' = stopped
  BY DEF SetBodySize, reader
<1> HIDE DEF size
<1>4. digits \in Seq(AnyByte) /\ Len(digits) = 2
  BY <1>2, DigitsType DEF Widths
<1> HIDE DEF digits
<1>5. /\ bytes' \in Seq(AnyByte) /\ Len(bytes') = Len(bytes)
      /\ Get(bytes', 2, 2) = digits
      /\ \A i \in 1 .. Len(bytes) : i \notin {3, 4} => bytes'[i] = bytes[i]
  BY <1>1, <1>3, <1>4, OverwriteIs
<1>6. PacketTypeOK' /\ HEADER_SIZE <= sized'
  BY <1>1, <1>3, <1>5 DEF IInv, PacketTypeOK
<1>7. WireExact'
  <2>1. Get(bytes', 0, 2) = Get(bytes, 0, 2) /\ Get(bytes', 4, 2) = Get(bytes, 4, 2)
    <3>1. \A at \in {0, 4} : /\ at \in Nat /\ at + 2 <= Len(bytes) /\ at + 2 <= Len(bytes')
                             /\ \A i \in 1 .. 2 : bytes'[at + i] = bytes[at + i]
      BY <1>1, <1>5, SMT DEF HEADER_SIZE
    <3>2. /\ 0 \in Nat /\ 0 + 2 <= Len(bytes) /\ 0 + 2 <= Len(bytes')
          /\ \A i \in 1 .. 2 : bytes'[0 + i] = bytes[0 + i]
      BY <3>1, Zenon
    <3>3. /\ 4 \in Nat /\ 4 + 2 <= Len(bytes) /\ 4 + 2 <= Len(bytes')
          /\ \A i \in 1 .. 2 : bytes'[4 + i] = bytes[4 + i]
      BY <3>1, Zenon
    <3>4. 2 \in Nat
      OBVIOUS
    <3>5. Get(bytes', 0, 2) = Get(bytes, 0, 2)
      BY <1>1, <1>5, <3>2, <3>4, SameGet
    <3>6. Get(bytes', 4, 2) = Get(bytes, 4, 2)
      BY <1>1, <1>5, <3>3, <3>4, SameGet
    <3> QED  BY <3>5, <3>6
  <2>2. Get(bytes', HEADER_SIZE, Len(bytes) - HEADER_SIZE)
          = Get(bytes, HEADER_SIZE, Len(bytes) - HEADER_SIZE)
    <3>1. /\ HEADER_SIZE \in Nat /\ Len(bytes) - HEADER_SIZE \in Nat
          /\ HEADER_SIZE + (Len(bytes) - HEADER_SIZE) <= Len(bytes)
          /\ HEADER_SIZE + (Len(bytes) - HEADER_SIZE) <= Len(bytes')
          /\ \A i \in 1 .. Len(bytes) - HEADER_SIZE : bytes'[HEADER_SIZE + i] = bytes[HEADER_SIZE + i]
      BY <1>1, <1>5, SMT DEF HEADER_SIZE
    <3> QED  BY <1>1, <1>5, <3>1, SameGet
  <2> QED  BY <1>3, <1>5, <2>1, <2>2 DEF IInv, WireExact
<1>8. BodySizeExact'
  <2>1. FromDigits(digits) = size
    BY <1>2, NumberOfDigits DEF digits, Widths
  <2> QED  BY <1>2, <1>3, <1>5, <2>1 DEF BodySizeExact, BodySize
<1>9. \A i \in DOMAIN entries' : Whole(entries'[i])
  BY <1>3 DEF IInv
<1>10. ~sent' => Unread'
  BY <1>3 DEF IInv, Unread
<1>11. sent' => Framed'
  <2> SUFFICES ASSUME sent PROVE Framed'
    BY <1>3
  <2>1. Framed /\ Len(received) \in Nat
    BY DEF IInv, PacketTypeOK
  <2>2. \A i \in 1 .. Len(received) : i \notin {3, 4} => received[i] = bytes'[i]
    BY <1>1, <1>5, <2>1, SMT DEF Framed
  <2> QED  BY <1>3, <1>5, <2>1, <2>2 DEF Framed, BodySize
<1>12. ReadsWhatIsThere'
  BY <1>3 DEF IInv, ReadsWhatIsThere
<1>13. RoundTrip'
  BY <1>3, <1>5 DEF IInv, RoundTrip, BodySize, Followed, Cmd
<1> QED  BY <1>6, <1>7, <1>8, <1>9, <1>10, <1>11, <1>12, <1>13, Zenon DEF IInv, Whole, Modulus

\* The frame that is cut out is the buffer as it was when the size was set.
LEMMA StepSend == ASSUME IInv, Send PROVE IInv'
<1>1. /\ bytes \in Seq(AnyByte) /\ Len(bytes) \in Nat /\ sized \in Nat
      /\ HEADER_SIZE <= sized /\ sized <= Len(bytes)
  BY SMT DEF IInv, PacketTypeOK
<1>2. HEADER_SIZE + BodySize(bytes) = sized
  BY <1>1, SMT DEF IInv, BodySizeExact, HEADER_SIZE
<1>3. /\ ~sent /\ sent' = TRUE /\ received' = Get(bytes, 0, sized)
      /\ bytes' = bytes /\ entries' = entries /\ sized' = sized /\ cmd' = cmd
      /\ index' = index /\ out' = out /\ stopped' = stopped
  BY <1>2 DEF Send, writer
<1>4. index = HEADER_SIZE /\ out = << >> /\ stopped = Nothing
  BY <1>3 DEF IInv, Unread
<1>5. /\ received' \in Seq(AnyByte) /\ Len(received') = sized
      /\ \A i \in 1 .. sized : received'[i] = bytes[i]
  <2>1. 0 + sized <= Len(bytes) /\ 0 \in Nat
    BY <1>1, SMT
  <2>2. /\ Get(bytes, 0, sized) \in Seq(AnyByte) /\ Len(Get(bytes, 0, sized)) = sized
        /\ \A i \in 1 .. sized : Get(bytes, 0, sized)[i] = bytes[0 + i]
    BY <1>1, <2>1, GetIs
  <2>3. \A i \in 1 .. sized : 0 + i = i
    BY <1>1, SMT
  <2> QED  BY <1>3, <2>2, <2>3
<1>6. Get(received', 2, 2) = Get(bytes, 2, 2) /\ Get(received', 4, 2) = Get(bytes, 4, 2)
  <2>1. \A at \in {2, 4} : /\ at \in Nat /\ at + 2 <= Len(bytes) /\ at + 2 <= Len(received')
                           /\ \A i \in 1 .. 2 : received'[at + i] = bytes[at + i]
    BY <1>1, <1>5, SMT DEF HEADER_SIZE
  <2>2. \A at \in {2, 4} : Get(received', at, 2) = Get(bytes, at, 2)
    BY <1>1, <1>5, <2>1, SameGet
  <2> QED  BY <2>2
<1>7. PacketTypeOK' /\ HEADER_SIZE <= sized'
  BY <1>1, <1>3, <1>5 DEF IInv, PacketTypeOK
<1>8. WireExact' /\ BodySizeExact' /\ \A i \in DOMAIN entries' : Whole(entries'[i])
  BY <1>3 DEF IInv, WireExact, BodySizeExact, BodySize
<1>9. Framed'
  <2>1. BodySize(received') = BodySize(bytes)
    BY <1>6 DEF BodySize
  <2>2. Len(received') = HEADER_SIZE + BodySize(received')
    BY <1>2, <1>5, <2>1
  <2>3. HEADER_SIZE <= Len(received') /\ Len(received') <= Len(bytes')
    BY <1>1, <1>3, <1>5
  <2>4. \A i \in 1 .. Len(received') : i \notin {3, 4} => received'[i] = bytes'[i]
    BY <1>3, <1>5
  <2>5. HEADER_SIZE <= index' /\ index' <= Len(received')
    BY <1>1, <1>3, <1>4, <1>5, SMT DEF HEADER_SIZE
  <2> QED  BY <2>2, <2>3, <2>4, <2>5 DEF Framed, BodySize
<1>10. ReadsWhatIsThere'
  <2>1. Get(received', HEADER_SIZE, index' - HEADER_SIZE) = << >>
    BY <1>1, <1>3, <1>4, <1>5, SMT DEF Get, HEADER_SIZE
  <2> QED  BY <1>3, <1>4, <2>1, EncodedNone DEF ReadsWhatIsThere
<1>11. RoundTrip'
  <2>1. Cmd(received') = cmd
    <3>1. cmd \in 0 .. Modulus(2) - 1 /\ 2 \in Widths
      BY CmdType DEF IInv, Widths
    <3>2. FromDigits(Digits(cmd, 2)) = cmd
      BY <3>1, NumberOfDigits
    <3> QED  BY <1>6, <3>2 DEF IInv, WireExact, Cmd
  <2>2. \A i \in DOMAIN out' : FALSE
    BY <1>3, <1>4
  <2>3. \A k \in Kinds, w \in Widths : Nothing # <<k, w>>
    BY DEF Nothing, Kinds, Widths
  <2>4. Len(out') < Len(entries') => stopped' # Type(entries'[Len(out') + 1])
    <3> SUFFICES ASSUME Len(out) < Len(entries) PROVE stopped # Type(entries[Len(out) + 1])
      BY <1>3
    <3>1. entries[Len(out) + 1] \in Entry
      BY <1>4, SMT DEF IInv, PacketTypeOK
    <3> QED  BY <1>4, <2>3, <3>1 DEF Type, Entry
  <2> QED  BY <1>3, <2>1, <2>2, <2>4 DEF RoundTrip, Cmd
<1> QED  BY <1>3, <1>7, <1>8, <1>9, <1>10, <1>11, Zenon DEF IInv, Whole, Modulus

-----------------------------------------------------------------------------
(* What stands at the index *)

\* Two reads one behind the other are one read of both.
LEMMA GetJoin ==
  ASSUME NEW s \in Seq(AnyByte), NEW at \in Nat, NEW n \in Nat, NEW m \in Nat, at + n + m <= Len(s)
  PROVE  Get(s, at, n) \o Get(s, at + n, m) = Get(s, at, n + m)
<1> DEFINE a == Get(s, at, n)
           b == Get(s, at + n, m)
           ab == Get(s, at, n + m)
<1>0. /\ Len(s) \in Nat /\ at + n \in Nat /\ n + m \in Nat
      /\ at + n <= Len(s) /\ at + (n + m) <= Len(s)
  BY SMT
<1>1. a \in Seq(AnyByte) /\ Len(a) = n /\ \A i \in 1 .. n : a[i] = s[at + i]
  BY <1>0, GetIs
<1>2. b \in Seq(AnyByte) /\ Len(b) = m /\ \A i \in 1 .. m : b[i] = s[at + n + i]
  BY <1>0, GetIs
<1>3. ab \in Seq(AnyByte) /\ Len(ab) = n + m /\ \A i \in 1 .. n + m : ab[i] = s[at + i]
  BY <1>0, GetIs
<1> HIDE DEF a, b, ab
<1>4. /\ a \o b \in Seq(AnyByte) /\ Len(a \o b) = Len(a) + Len(b)
      /\ \A i \in 1 .. Len(a) : (a \o b)[i] = a[i]
      /\ \A i \in 1 .. Len(b) : (a \o b)[Len(a) + i] = b[i]
  BY <1>1, <1>2, TwoParts
<1>5. ASSUME NEW i \in 1 .. Len(a \o b)
      PROVE  (a \o b)[i] = ab[i]
  <2>1. ab[i] = s[at + i]
    BY <1>1, <1>2, <1>3, <1>4
  <2>2. CASE i <= n
    <3>1. i \in 1 .. Len(a) /\ i \in 1 .. n
      BY <1>1, <2>2, SMT
    <3> QED  BY <1>1, <1>4, <2>1, <3>1, Zenon
  <2>3. CASE i > n
    <3> DEFINE k == i - n
    <3>1. k \in 1 .. Len(b) /\ k \in 1 .. m /\ Len(a) + k = i /\ at + n + k = at + i
      BY <1>1, <1>2, <1>4, <2>3, SMT
    <3> HIDE DEF k
    <3>2. (a \o b)[Len(a) + k] = b[k] /\ b[k] = s[at + n + k]
      BY <1>2, <1>4, <3>1, Zenon
    <3> QED  BY <2>1, <3>1, <3>2
  <2>4. i <= n \/ i > n
    BY <1>1, <1>2, <1>4, SMT
  <2> QED  BY <2>2, <2>3, <2>4, Zenon
<1>6. Len(a \o b) = Len(ab)
  BY <1>1, <1>2, <1>3, <1>4
<1>7. a \o b = ab
  BY <1>3, <1>4, <1>5, <1>6, SameSequence
<1> QED  BY <1>7 DEF a, b, ab

\* An entry is its four fields.
LEMMA SameEntry ==
  ASSUME NEW e \in Entry, NEW x \in Entry,
         e.kind = x.kind, e.width = x.width, e.value = x.value, e.text = x.text
  PROVE  e = x
<1>1. e = [kind |-> e.kind, width |-> e.width, value |-> e.value, text |-> e.text]
  BY DEF Entry
<1>2. x = [kind |-> x.kind, width |-> x.width, value |-> x.value, text |-> x.text]
  BY DEF Entry
<1> QED  BY <1>1, <1>2, Zenon

\* The bytes of an entry, where it stands.
LEMMA Standing ==
  ASSUME NEW s \in Seq(AnyByte), NEW at \in Nat, NEW e \in Entry,
         at + Len(Wire(e)) <= Len(s), Get(s, at, Len(Wire(e))) = Wire(e)
  PROVE  /\ Get(s, at, e.width) = Digits(e.value, e.width)
         /\ at + e.width + Len(e.text) <= Len(s)
         /\ Get(s, at + e.width, Len(e.text)) = e.text
<1> DEFINE d == Digits(e.value, e.width)
           t == e.text
           w == Wire(e)
<1>1. /\ d \in Seq(AnyByte) /\ Len(d) = e.width /\ t \in Seq(AnyByte) /\ e.width \in Nat
      /\ w \in Seq(AnyByte) /\ Len(w) = e.width + Len(t)
  BY EntryIs
<1>2. w = d \o t
  BY DEF Wire
<1> HIDE DEF d, t, w
<1>3. /\ Len(d) \in Nat /\ Len(t) \in Nat /\ Len(s) \in Nat
      /\ \A i \in 1 .. Len(d) : w[i] = d[i]
      /\ \A i \in 1 .. Len(t) : w[Len(d) + i] = t[i]
  <2>1. Len(s) \in Nat
    BY SMT
  <2>2. /\ Len(d) \in Nat /\ Len(t) \in Nat
        /\ \A i \in 1 .. Len(d) : (d \o t)[i] = d[i]
        /\ \A i \in 1 .. Len(t) : (d \o t)[Len(d) + i] = t[i]
    BY <1>1, TwoParts
  <2> QED  BY <1>2, <2>1, <2>2
<1>4. at + Len(w) <= Len(s) /\ Len(w) \in Nat /\ Get(s, at, Len(w)) = w
  BY <1>1, <1>3, SMT DEF w
<1>5. \A i \in 1 .. Len(w) : w[i] = s[at + i]
  <2>1. \A i \in 1 .. Len(w) : Get(s, at, Len(w))[i] = s[at + i]
    BY <1>4, GetIs
  <2> QED  BY <1>4, <2>1, Zenon
<1>6. Get(s, at, Len(d)) = d
  <2>1. at + Len(d) <= Len(s)
    BY <1>1, <1>3, <1>4, SMT
  <2>2. /\ Get(s, at, Len(d)) \in Seq(AnyByte) /\ Len(Get(s, at, Len(d))) = Len(d)
        /\ \A i \in 1 .. Len(d) : Get(s, at, Len(d))[i] = s[at + i]
    BY <1>3, <2>1, GetIs
  <2>3. \A i \in 1 .. Len(d) : i \in 1 .. Len(w)
    BY <1>1, <1>3, SMT
  <2>4. \A i \in 1 .. Len(d) : Get(s, at, Len(d))[i] = d[i]
    BY <1>3, <1>5, <2>2, <2>3, Zenon
  <2> QED  BY <1>1, <2>2, <2>4, SameSequence
<1>7. Get(s, at + Len(d), Len(t)) = t
  <2>1. at + Len(d) \in Nat /\ at + Len(d) + Len(t) <= Len(s)
    BY <1>1, <1>3, <1>4, SMT
  <2> DEFINE g == Get(s, at + Len(d), Len(t))
  <2>2. /\ g \in Seq(AnyByte) /\ Len(g) = Len(t)
        /\ \A i \in 1 .. Len(t) : g[i] = s[at + Len(d) + i]
    BY <1>3, <2>1, GetIs
  <2> HIDE DEF g
  <2>3. \A i \in 1 .. Len(t) : Len(d) + i \in 1 .. Len(w) /\ at + (Len(d) + i) = at + Len(d) + i
    BY <1>1, <1>3, SMT
  <2>4. \A i \in 1 .. Len(t) : g[i] = t[i]
    BY <1>3, <1>5, <2>2, <2>3, Zenon
  <2>5. g = t
    BY <1>1, <2>2, <2>4, SameSequence
  <2> QED  BY <2>5 DEF g
<1>8. at + Len(d) + Len(t) <= Len(s)
  BY <1>1, <1>3, <1>4, SMT
<1> QED  BY <1>1, <1>6, <1>7, <1>8 DEF d, t

\* Its value, when it is whole.
LEMMA ValueStands ==
  ASSUME NEW s \in Seq(AnyByte), NEW at \in Nat, NEW e \in Entry, Whole(e), e.kind # "torn",
         at + Len(Wire(e)) <= Len(s), Get(s, at, Len(Wire(e))) = Wire(e)
  PROVE  e.value = FromDigits(Get(s, at, e.width))
<1>1. e.width \in Widths /\ e.value \in Nat /\ e.kind \in {"number", "string"}
  BY DEF Entry, Kinds
<1>2. e.value < Modulus(e.width)
  BY <1>1 DEF Whole
<1>3. e.value \in 0 .. Modulus(e.width) - 1
  <2>1. Modulus(e.width) \in Nat
    BY <1>1, ModulusIs, Bytes256, SMT DEF Widths
  <2> QED  BY <1>1, <1>2, <2>1, SMT
<1>4. Get(s, at, e.width) = Digits(e.value, e.width)
  BY Standing
<1> QED  BY <1>1, <1>3, <1>4, NumberOfDigits

\* The bytes and the type tell the entry.
LEMMA SameStanding ==
  ASSUME NEW s \in Seq(AnyByte), NEW at \in Nat,
         NEW e \in Entry, Whole(e), e.kind # "torn",
         at + Len(Wire(e)) <= Len(s), Get(s, at, Len(Wire(e))) = Wire(e),
         NEW x \in Entry, Whole(x), x.kind # "torn",
         at + Len(Wire(x)) <= Len(s), Get(s, at, Len(Wire(x))) = Wire(x),
         Type(e) = Type(x)
  PROVE  e = x
<1>1. e.kind = x.kind /\ e.width = x.width /\ e.kind \in {"number", "string"}
  BY DEF Type, Entry, Kinds
<1>2. e.value = FromDigits(Get(s, at, e.width))
  BY ValueStands
<1>3. x.value = FromDigits(Get(s, at, x.width))
  BY ValueStands
<1>4. e.value = x.value
  BY <1>1, <1>2, <1>3
<1>5. e.text = x.text
  <2>1. Get(s, at + e.width, Len(e.text)) = e.text
    BY Standing
  <2>2. Get(s, at + x.width, Len(x.text)) = x.text
    BY Standing
  <2>3. Len(e.text) = Len(x.text)
    BY <1>1, <1>4 DEF Whole
  <2> QED  BY <1>1, <2>1, <2>2, <2>3
<1> QED  BY <1>1, <1>4, <1>5, SameEntry

\* What the reader that has followed comes to next.
LEMMA NextStands ==
  ASSUME IInv, sent, BodySize(received) = Len(bytes) - HEADER_SIZE,
         \A i \in DOMAIN entries : entries[i].kind # "torn",
         Followed, Len(out) < Len(entries)
  PROVE  LET x == entries[Len(out) + 1]
         IN  /\ x \in Entry /\ Whole(x) /\ x.kind # "torn"
             /\ index + Len(Wire(x)) <= Len(received)
             /\ Get(received, index, Len(Wire(x))) = Wire(x)
<1> DEFINE n == Len(out)
           x == entries[n + 1]
           w == Wire(x)
           first == Encoded(SubSeq(entries, 1, n))
           all == Encoded(entries)
<1>1. /\ entries \in Seq(Entry) /\ out \in Seq(Entry) /\ n \in Nat /\ Len(entries) \in Nat
      /\ bytes \in Seq(AnyByte) /\ received \in Seq(AnyByte) /\ index \in Nat
      /\ Len(bytes) \in Nat /\ Len(received) \in Nat /\ HEADER_SIZE <= Len(bytes)
  BY Bytes256, SMT DEF IInv, PacketTypeOK, HEADER_SIZE
<1>2. x \in Entry /\ Whole(x) /\ x.kind # "torn"
  <2>1. n + 1 \in DOMAIN entries
    BY <1>1, SMT
  <2> QED  BY <1>1, <2>1 DEF IInv
<1>3. out = SubSeq(entries, 1, n)
  <2>1. \A i \in DOMAIN out : out[i] = entries[i]
    BY DEF IInv, RoundTrip
  <2>2. /\ SubSeq(entries, 1, n) \in Seq(Entry) /\ Len(SubSeq(entries, 1, n)) = n
        /\ \A i \in 1 .. n : SubSeq(entries, 1, n)[i] = entries[i]
    BY <1>1, SMT
  <2> HIDE DEF n
  <2>3. n = Len(out)
    BY DEF n
  <2> QED  BY <1>1, <2>1, <2>2, <2>3, SMT
<1>4. first = Get(received, HEADER_SIZE, index - HEADER_SIZE)
  BY <1>3 DEF IInv, ReadsWhatIsThere
<1>5. /\ Len(received) = Len(bytes) /\ HEADER_SIZE <= index /\ index <= Len(received)
      /\ \A i \in 1 .. Len(received) : i \notin {3, 4} => received[i] = bytes[i]
  <2>1. Framed
    BY DEF IInv
  <2>2. Len(received) = HEADER_SIZE + (Len(bytes) - HEADER_SIZE)
    BY <2>1 DEF Framed
  <2>3. Len(received) = Len(bytes)
    BY <1>1, <2>2, SMT DEF HEADER_SIZE
  <2> QED  BY <2>1, <2>3 DEF Framed
<1>6. Len(first) = index - HEADER_SIZE /\ index - HEADER_SIZE \in Nat
  <2>1. /\ index - HEADER_SIZE \in Nat /\ HEADER_SIZE \in Nat
        /\ HEADER_SIZE + (index - HEADER_SIZE) <= Len(received)
    BY <1>1, <1>5, SMT DEF HEADER_SIZE
  <2>2. Len(Get(received, HEADER_SIZE, index - HEADER_SIZE)) = index - HEADER_SIZE
    BY <1>1, <2>1, GetIs
  <2> QED  BY <1>4, <2>1, <2>2
<1>7. /\ all = Get(bytes, HEADER_SIZE, Len(bytes) - HEADER_SIZE)
      /\ Len(all) = Len(bytes) - HEADER_SIZE
      /\ \A i \in 1 .. Len(bytes) - HEADER_SIZE : all[i] = bytes[HEADER_SIZE + i]
  <2>1. all = Get(bytes, HEADER_SIZE, Len(bytes) - HEADER_SIZE)
    BY DEF IInv, WireExact
  <2>2. /\ Len(bytes) - HEADER_SIZE \in Nat /\ HEADER_SIZE \in Nat
        /\ HEADER_SIZE + (Len(bytes) - HEADER_SIZE) <= Len(bytes)
    BY <1>1, SMT DEF HEADER_SIZE
  <2> DEFINE g == Get(bytes, HEADER_SIZE, Len(bytes) - HEADER_SIZE)
  <2>3. /\ Len(g) = Len(bytes) - HEADER_SIZE
        /\ \A i \in 1 .. Len(bytes) - HEADER_SIZE : g[i] = bytes[HEADER_SIZE + i]
    BY <1>1, <2>2, GetIs
  <2> HIDE DEF all
  <2> QED  BY <2>1, <2>3
<1>8. /\ Len(first) + Len(w) <= Len(all)
      /\ \A i \in 1 .. Len(w) : all[Len(first) + i] = w[i]
  BY <1>1, EncodedNext
<1>9. w \in Seq(AnyByte) /\ Len(w) \in Nat
  <2>1. w \in Seq(AnyByte)
    BY <1>2, EntryIs
  <2> HIDE DEF w
  <2> QED  BY <2>1
<1> HIDE DEF w, first, all, x, n
<1>10. index + Len(w) <= Len(received)
  BY <1>1, <1>5, <1>6, <1>7, <1>8, <1>9, SMT DEF HEADER_SIZE
<1>11. ASSUME NEW i \in 1 .. Len(w)
       PROVE  received[index + i] = w[i]
  <2> DEFINE k == index - HEADER_SIZE + i
  <2>1. /\ k \in 1 .. Len(bytes) - HEADER_SIZE /\ HEADER_SIZE + k = index + i
        /\ index + i \in 1 .. Len(received) /\ index + i \notin {3, 4}
        /\ k = Len(first) + i
    BY <1>1, <1>5, <1>6, <1>9, <1>10, SMT DEF HEADER_SIZE
  <2> HIDE DEF k
  <2>2. received[index + i] = bytes[index + i]
    BY <1>5, <2>1
  <2>3. all[k] = bytes[HEADER_SIZE + k]
    BY <1>7, <2>1
  <2>4. all[k] = w[i]
    BY <1>8, <2>1
  <2> QED  BY <2>1, <2>2, <2>3, <2>4
<1>12. Get(received, index, Len(w)) = w
  <2> DEFINE g == Get(received, index, Len(w))
  <2>1. g \in Seq(AnyByte) /\ Len(g) = Len(w) /\ \A i \in 1 .. Len(w) : g[i] = received[index + i]
    BY <1>1, <1>9, <1>10, GetIs
  <2> HIDE DEF g
  <2>2. \A i \in 1 .. Len(g) : g[i] = w[i]
    BY <1>11, <2>1
  <2>3. g = w
    BY <1>9, <2>1, <2>2, SameSequence
  <2> QED  BY <2>3 DEF g
<1> QED  BY <1>2, <1>10, <1>12 DEF w, x, n

\* What a step of the reader leaves alone.
LEMMA ReaderLeaves ==
  ASSUME IInv, sent, UNCHANGED <<writer, sent, received>>,
         index' \in Nat, HEADER_SIZE <= index', index' <= Len(received),
         out' \in Seq(Entry), stopped' \in {Nothing} \cup (Kinds \X Widths),
         ReadsWhatIsThere', RoundTrip'
  PROVE  IInv'
<1>1. /\ bytes' = bytes /\ entries' = entries /\ sized' = sized /\ cmd' = cmd
      /\ sent' = sent /\ received' = received
  BY DEF writer
<1>2. PacketTypeOK' /\ HEADER_SIZE <= sized'
  BY <1>1 DEF IInv, PacketTypeOK
<1>3. WireExact' /\ BodySizeExact' /\ \A i \in DOMAIN entries' : Whole(entries'[i])
  BY <1>1 DEF IInv, WireExact, BodySizeExact, BodySize
<1>4. Framed'
  BY <1>1 DEF IInv, Framed, BodySize
<1>5. (~sent' => Unread') /\ (sent' => Framed')
  BY <1>1, <1>4
<1>6. ReadsWhatIsThere' /\ RoundTrip'
  OBVIOUS
<1> QED  BY <1>2, <1>3, <1>5, <1>6, Zenon DEF IInv, Whole, Modulus

\* A read that takes what stands at the index.
LEMMA TookKeeps ==
  ASSUME IInv, sent, UNCHANGED <<writer, sent, received>>,
         NEW e \in Entry, Whole(e),
         index + Len(Wire(e)) <= Len(received), Get(received, index, Len(Wire(e))) = Wire(e),
         Took(e)
  PROVE  IInv'
<1> DEFINE w == Wire(e)
<1>1. /\ bytes' = bytes /\ entries' = entries /\ sized' = sized /\ cmd' = cmd
      /\ sent' = sent /\ received' = received
  BY DEF writer
<1>2. /\ entries \in Seq(Entry) /\ out \in Seq(Entry) /\ Len(out) \in Nat /\ Len(entries) \in Nat
      /\ received \in Seq(AnyByte) /\ index \in Nat /\ Len(received) \in Nat
      /\ HEADER_SIZE <= index
  BY DEF IInv, PacketTypeOK, Framed
<1>3. e.width \in Nat \ {0} /\ Len(w) = e.width + Len(e.text) /\ Len(e.text) \in Nat
  <2>1. e.text \in Seq(AnyByte)
    BY EntryIs
  <2> QED  BY <2>1, EntryIs
<1>4. index' = index + Len(w) /\ out' = Append(out, e) /\ stopped' = Nothing
  <2>1. index' = index + e.width + Len(e.text) /\ out' = Append(out, e) /\ stopped' = Nothing
    BY DEF Took
  <2> DEFINE wide == e.width
             long == Len(e.text)
  <2>2. wide \in Nat /\ long \in Nat /\ Len(w) = wide + long
    BY <1>3
  <2>3. index' = index + wide + long
    BY <2>1
  <2> HIDE DEF w, wide, long
  <2>4. index' = index + (wide + long)
    BY <1>2, <2>2, <2>3, SMT
  <2> QED  BY <2>1, <2>2, <2>4
<1>5. /\ out' \in Seq(Entry) /\ Len(out') = Len(out) + 1 /\ out'[Len(out) + 1] = e
      /\ \A i \in 1 .. Len(out) : out'[i] = out[i]
  BY <1>2, <1>4, SMT
<1>6. Len(w) \in Nat /\ index + Len(w) <= Len(received) /\ Get(received, index, Len(w)) = w
  <2>1. index + Len(w) <= Len(received) /\ Get(received, index, Len(w)) = w
    OBVIOUS
  <2> HIDE DEF w
  <2> QED  BY <1>3, <2>1, SMT
<1>7. index' \in Nat /\ HEADER_SIZE <= index' /\ index' <= Len(received)
  <2> HIDE DEF w
  <2> QED  BY <1>2, <1>4, <1>6, SMT DEF HEADER_SIZE
<1>8. ReadsWhatIsThere'
  <2>1. Encoded(out') = Encoded(out) \o w
    BY <1>2, <1>4, EncodedAppend
  <2>2. Encoded(out) = Get(received, HEADER_SIZE, index - HEADER_SIZE)
    BY DEF IInv, ReadsWhatIsThere
  <2> HIDE DEF w
  <2> DEFINE p == index - HEADER_SIZE
  <2>3. /\ HEADER_SIZE \in Nat /\ p \in Nat /\ HEADER_SIZE + p = index
        /\ p + Len(w) = index' - HEADER_SIZE /\ HEADER_SIZE + p + Len(w) <= Len(received)
    BY <1>2, <1>4, <1>6, SMT DEF HEADER_SIZE
  <2>4. Encoded(out) = Get(received, HEADER_SIZE, p)
    BY <2>2
  <2> HIDE DEF p
  <2>5. Get(received, HEADER_SIZE, p) \o Get(received, HEADER_SIZE + p, Len(w))
          = Get(received, HEADER_SIZE, p + Len(w))
    <3>1. HEADER_SIZE \in Nat /\ p \in Nat /\ Len(w) \in Nat
      BY <1>6, <2>3
    <3>2. HEADER_SIZE + p + Len(w) <= Len(received) /\ received \in Seq(AnyByte)
      BY <1>2, <2>3
    <3> QED  BY <3>1, <3>2, GetJoin
  <2>6. Encoded(out') = Get(received, HEADER_SIZE, index' - HEADER_SIZE)
    <3>1. Get(received, HEADER_SIZE + p, Len(w)) = w
      BY <1>6, <2>3
    <3>2. Encoded(out') = Get(received, HEADER_SIZE, p + Len(w))
      BY <2>1, <2>4, <2>5, <3>1
    <3> QED  BY <2>3, <3>2
  <2> QED  BY <1>1, <2>6 DEF ReadsWhatIsThere
<1> HIDE DEF w
<1>9. RoundTrip'
  <2> SUFFICES ASSUME BodySize(received) = Len(bytes) - HEADER_SIZE,
                      \A i \in DOMAIN entries : entries[i].kind # "torn",
                      Followed'
               PROVE  /\ Cmd(received) = cmd
                      /\ \A i \in DOMAIN out' : out'[i] = entries[i]
                      /\ stopped' = Nothing /\ (Len(out') < Len(entries)
                           => stopped' # Type(entries[Len(out') + 1]))
    BY <1>1 DEF RoundTrip, BodySize, Cmd
  <2>1. /\ Len(out) + 1 <= Len(entries)
        /\ \A i \in 1 .. Len(out) : Type(out[i]) = Type(entries[i])
        /\ Type(e) = Type(entries[Len(out) + 1])
    <3>1. /\ Len(out') <= Len(entries)
          /\ \A i \in 1 .. Len(out) + 1 : Type(out'[i]) = Type(entries[i])
      BY <1>1, <1>5 DEF Followed, Type
    <3>2. /\ \A i \in 1 .. Len(out) : i \in 1 .. Len(out) + 1
          /\ Len(out) + 1 \in 1 .. Len(out) + 1
      BY <1>2, SMT
    <3>3. \A i \in 1 .. Len(out) : Type(out[i]) = Type(entries[i])
      BY <1>5, <3>1, <3>2
    <3>4. Type(e) = Type(entries[Len(out) + 1])
      BY <1>5, <3>1, <3>2
    <3> QED  BY <1>5, <3>1, <3>3, <3>4
  <2>2. Followed /\ Len(out) < Len(entries)
    <3>1. Len(out) < Len(entries) /\ Len(out) <= Len(entries)
      BY <1>2, <2>1
    <3>2. \A i \in DOMAIN out : Type(out[i]) = Type(entries[i])
      <4>1. DOMAIN out = 1 .. Len(out)
        BY <1>2
      <4> QED  BY <2>1, <4>1, Zenon
    <3> QED  BY <3>1, <3>2 DEF Followed
  <2> DEFINE x == entries[Len(out) + 1]
  <2>3. /\ x \in Entry /\ Whole(x) /\ x.kind # "torn"
        /\ index + Len(Wire(x)) <= Len(received)
        /\ Get(received, index, Len(Wire(x))) = Wire(x)
    BY <2>2, NextStands
  <2>4. Type(e) = Type(x) /\ e.kind # "torn"
    BY <2>1, <2>3 DEF Type
  <2> HIDE DEF x
  <2>5. e = x
    BY <1>2, <2>3, <2>4, SameStanding
  <2>6. Cmd(received) = cmd /\ \A i \in 1 .. Len(out) : out[i] = entries[i]
    BY <1>2, <2>2 DEF IInv, RoundTrip
  <2>7. ASSUME NEW i \in DOMAIN out' PROVE out'[i] = entries[i]
    <3>1. i \in 1 .. Len(out) \/ i = Len(out) + 1
      BY <1>2, <1>5, SMT
    <3>2. CASE i \in 1 .. Len(out)
      BY <1>5, <2>6, <3>2
    <3>3. CASE i = Len(out) + 1
      BY <1>5, <2>5, <3>3 DEF x
    <3> QED  BY <3>1, <3>2, <3>3
  <2>8. Len(out') < Len(entries) => stopped' # Type(entries[Len(out') + 1])
    <3> SUFFICES ASSUME Len(out') < Len(entries) PROVE stopped' # Type(entries[Len(out') + 1])
      OBVIOUS
    <3>1. entries[Len(out') + 1] \in Entry
      BY <1>2, <1>5, SMT
    <3>2. entries[Len(out') + 1].kind # "none"
      BY <3>1 DEF Entry, Kinds
    <3> QED  BY <1>4, <3>2 DEF Type, Nothing
  <2> QED  BY <1>4, <2>6, <2>7, <2>8
<1> QED  BY <1>4, <1>5, <1>7, <1>8, <1>9, ReaderLeaves

\* A read that finds too little stops where no entry of its type stands.
LEMMA StopKeeps ==
  ASSUME IInv, sent, UNCHANGED <<writer, sent, received>>,
         NEW k \in Kinds, NEW v \in Widths, Stop(<<k, v>>),
         \A x \in Entry : /\ Whole(x) /\ x.kind # "torn" /\ Type(x) = <<k, v>>
                          /\ Get(received, index, Len(Wire(x))) = Wire(x)
                          => ~(index + Len(Wire(x)) <= Len(received))
  PROVE  IInv'
<1>1. /\ bytes' = bytes /\ entries' = entries /\ sized' = sized /\ cmd' = cmd
      /\ sent' = sent /\ received' = received
      /\ index' = index /\ out' = out /\ stopped' = <<k, v>>
  BY DEF writer, Stop
<1>2. /\ index \in Nat /\ HEADER_SIZE <= index /\ index <= Len(received) /\ out \in Seq(Entry)
      /\ <<k, v>> \in Kinds \X Widths
  BY DEF IInv, PacketTypeOK, Framed
<1>3. ReadsWhatIsThere'
  BY <1>1 DEF IInv, ReadsWhatIsThere
<1>4. RoundTrip'
  <2> SUFFICES ASSUME BodySize(received) = Len(bytes) - HEADER_SIZE,
                      \A i \in DOMAIN entries : entries[i].kind # "torn",
                      Followed
               PROVE  /\ Cmd(received) = cmd
                      /\ \A i \in DOMAIN out : out[i] = entries[i]
                      /\ Len(out) < Len(entries) => <<k, v>> # Type(entries[Len(out) + 1])
    BY <1>1 DEF RoundTrip, BodySize, Cmd, Followed, Type
  <2>1. Cmd(received) = cmd /\ \A i \in DOMAIN out : out[i] = entries[i]
    BY DEF IInv, RoundTrip
  <2>2. ASSUME Len(out) < Len(entries), <<k, v>> = Type(entries[Len(out) + 1])
        PROVE  FALSE
    <3> DEFINE x == entries[Len(out) + 1]
    <3>1. /\ x \in Entry /\ Whole(x) /\ x.kind # "torn"
          /\ index + Len(Wire(x)) <= Len(received)
          /\ Get(received, index, Len(Wire(x))) = Wire(x)
      BY <2>2, NextStands
    <3> HIDE DEF x
    <3>2. Type(x) = <<k, v>>
      BY <2>2 DEF x
    <3> QED  BY <3>1, <3>2, Zenon
  <2> QED  BY <2>1, <2>2
<1> QED  BY <1>1, <1>2, <1>3, <1>4, ReaderLeaves

-----------------------------------------------------------------------------
(* The steps of the reader *)

\* A number is what its bytes say, and too few bytes are left for none of its width.
LEMMA StepReadNumber ==
  ASSUME IInv, NEW v \in Widths, ReadNumber(v)
  PROVE  IInv'
<1>1. sent /\ UNCHANGED <<writer, sent, received>>
  BY DEF ReadNumber, Reading
<1>2. /\ received \in Seq(AnyByte) /\ index \in Nat /\ Len(received) \in Nat
  BY DEF IInv, PacketTypeOK
<1>3. v \in Nat
  BY DEF Widths
<1>4. CASE Holds(received, index, v)
  <2> DEFINE ds == Get(received, index, v)
             e == AsNumber(v, FromDigits(ds))
  <2>1. index + v <= Len(received) /\ Took(e)
    BY <1>4 DEF ReadNumber, Holds
  <2>2. ds \in Seq(AnyByte) /\ Len(ds) = v
    BY <1>2, <1>3, <2>1, GetIs
  <2> HIDE DEF ds
  <2>3. FromDigits(ds) \in Nat /\ Digits(FromDigits(ds), v) = ds /\ FromDigits(ds) < Modulus(v)
    <3>1. FromDigits(ds) \in Nat /\ Digits(FromDigits(ds), v) = ds
      BY <2>2, DigitsOfNumber
    <3>2. FromDigits(ds) \in 0 .. Modulus(v) - 1
      BY <2>2, BelowModulus
    <3>3. Modulus(v) \in Nat
      BY ModulusIs, Bytes256, SMT DEF Widths
    <3>4. FromDigits(ds) < Modulus(v)
      BY <3>1, <3>2, <3>3, SMT
    <3> QED  BY <3>1, <3>4
  <2>4. /\ e \in Entry /\ e.kind = "number" /\ e.text = << >>
        /\ e.value = FromDigits(ds) /\ e.width = v
    BY <2>3 DEF AsNumber, Entry, Kinds
  <2> HIDE DEF e
  <2>5. Whole(e) /\ e.kind # "torn"
    BY <2>3, <2>4 DEF Whole
  <2>6. Wire(e) = ds
    <3>1. ds \o << >> = ds
      BY <2>2, SMT
    <3> QED  BY <2>3, <2>4, <3>1 DEF Wire
  <2>7. Len(Wire(e)) = v
    BY <2>2, <2>6
  <2>8. index + Len(Wire(e)) <= Len(received) /\ Get(received, index, Len(Wire(e))) = Wire(e)
    BY <2>1, <2>6, <2>7 DEF ds
  <2> QED  BY <1>1, <2>1, <2>4, <2>5, <2>8, TookKeeps
<1>5. CASE ~Holds(received, index, v)
  <2>1. ~(index + v <= Len(received)) /\ Stop(<<"number", v>>)
    BY <1>5 DEF ReadNumber, Holds
  <2>2. ASSUME NEW x \in Entry, Type(x) = <<"number", v>>
        PROVE  ~(index + Len(Wire(x)) <= Len(received))
    <3>1. x.width = v
      BY <2>2 DEF Type
    <3>2. Len(Wire(x)) = v + Len(x.text) /\ x.text \in Seq(AnyByte)
      BY <3>1, EntryIs
    <3>3. Len(x.text) \in Nat
      BY <3>2
    <3> QED  BY <1>2, <1>3, <2>1, <3>2, <3>3, SMT
  <2>3. "number" \in Kinds
    BY DEF Kinds
  <2> QED  BY <1>1, <2>1, <2>2, <2>3, StopKeeps
<1> QED  BY <1>4, <1>5

\* A string is its length and as many bytes; where these are missing no whole string stands.
LEMMA StepReadString ==
  ASSUME IInv, ReadString
  PROVE  IInv'
<1> DEFINE ds == Get(received, index, LengthWidth)
           n == FromDigits(ds)
           text == Get(received, index + LengthWidth, n)
           e == AsString(text)
<1>1. sent /\ UNCHANGED <<writer, sent, received>>
  BY DEF ReadString, Reading
<1>2. /\ received \in Seq(AnyByte) /\ index \in Nat /\ Len(received) \in Nat
  BY DEF IInv, PacketTypeOK
<1>3. LengthWidth = 4 /\ LengthWidth \in Widths /\ LengthWidth \in Nat /\ "string" \in Kinds
  BY DEF LengthWidth, Widths, Kinds
<1>4. ASSUME NEW x \in Entry, Whole(x), x.kind # "torn", Type(x) = <<"string", LengthWidth>>
      PROVE  /\ x.kind = "string" /\ x.width = LengthWidth /\ x.value = Len(x.text)
             /\ Len(Wire(x)) = LengthWidth + Len(x.text) /\ Len(x.text) \in Nat
  <2>1. x.kind = "string" /\ x.width = LengthWidth
    BY <1>4 DEF Type
  <2>2. Len(Wire(x)) = LengthWidth + Len(x.text) /\ x.text \in Seq(AnyByte)
    BY <2>1, EntryIs
  <2>3. x.value = Len(x.text)
    BY <1>4, <2>1 DEF Whole
  <2> QED  BY <2>1, <2>2, <2>3
<1>5. CASE ~Holds(received, index, LengthWidth)
  <2>1. ~(index + LengthWidth <= Len(received)) /\ Stop(<<"string", LengthWidth>>)
    BY <1>5 DEF ReadString, Holds
  <2>2. ASSUME NEW x \in Entry, Whole(x), x.kind # "torn", Type(x) = <<"string", LengthWidth>>
        PROVE  ~(index + Len(Wire(x)) <= Len(received))
    <3>1. Len(Wire(x)) = LengthWidth + Len(x.text) /\ Len(x.text) \in Nat
      BY <1>4, <2>2
    <3> QED  BY <1>2, <1>3, <2>1, <3>1, SMT
  <2> QED  BY <1>1, <1>3, <2>1, <2>2, StopKeeps
<1>6. CASE Holds(received, index, LengthWidth)
  <2>1. index + LengthWidth <= Len(received)
    BY <1>6 DEF Holds
  <2>2. ds \in Seq(AnyByte) /\ Len(ds) = LengthWidth
    BY <1>2, <1>3, <2>1, GetIs
  <2>3. n \in Nat /\ Digits(n, LengthWidth) = ds /\ n < Modulus(LengthWidth)
    <3> HIDE DEF ds
    <3>1. n \in Nat /\ Digits(n, LengthWidth) = ds
      BY <1>3, <2>2, DigitsOfNumber
    <3>2. n \in 0 .. Modulus(LengthWidth) - 1
      BY <1>3, <2>2, BelowModulus
    <3>3. Modulus(LengthWidth) \in Nat
      BY <1>3, ModulusIs
    <3> HIDE DEF n
    <3>4. n < Modulus(LengthWidth)
      BY <3>1, <3>2, <3>3, SMT
    <3> QED  BY <3>1, <3>4
  <2>4. \/ Took(AsTorn(n))
        \/ Holds(received, index + LengthWidth, n) /\ Took(e)
        \/ ~Holds(received, index + LengthWidth, n) /\ Stop(<<"string", LengthWidth>>)
    BY <1>6 DEF ReadString
  <2>5. CASE Holds(received, index + LengthWidth, n) /\ Took(e)
    <3>1. index + LengthWidth \in Nat /\ index + LengthWidth + n <= Len(received)
      <4> HIDE DEF n
      <4> QED  BY <1>2, <1>3, <2>3, <2>5, SMT DEF Holds
    <3>2. text \in Seq(AnyByte) /\ Len(text) = n
      <4> HIDE DEF n
      <4> QED  BY <1>2, <2>3, <3>1, GetIs
    <3>3. ds \o text = Get(received, index, LengthWidth + n)
      <4> HIDE DEF n
      <4>1. LengthWidth \in Nat /\ n \in Nat
        BY <1>3, <2>3
      <4>2. Get(received, index, LengthWidth) \o Get(received, index + LengthWidth, n)
              = Get(received, index, LengthWidth + n)
        BY <1>2, <3>1, <4>1, GetJoin
      <4> QED  BY <4>2
    <3> HIDE DEF text, n, ds
    <3>4. /\ e \in Entry /\ e.kind = "string" /\ e.width = LengthWidth
          /\ e.value = n /\ e.text = text
      <4>1. e = [kind |-> "string", width |-> LengthWidth, value |-> n, text |-> text]
        BY <3>2 DEF AsString
      <4> HIDE DEF e
      <4> QED  BY <1>3, <2>3, <3>2, <4>1 DEF Entry
    <3> HIDE DEF e
    <3>5. Whole(e) /\ e.kind # "torn"
      BY <2>3, <3>2, <3>4 DEF Whole
    <3>6. Wire(e) = ds \o text
      BY <2>3, <3>4 DEF Wire
    <3>7. Len(Wire(e)) = LengthWidth + n
      BY <3>2, <3>4, EntryIs
    <3>8. index + Len(Wire(e)) <= Len(received) /\ Get(received, index, Len(Wire(e))) = Wire(e)
      <4>1. index + (LengthWidth + n) <= Len(received)
        BY <1>2, <1>3, <2>3, <3>1, SMT
      <4> QED  BY <3>3, <3>6, <3>7, <4>1
    <3>9. Took(e)
      BY <2>5
    <3> QED  BY <1>1, <3>4, <3>5, <3>8, <3>9, TookKeeps
  <2>6. CASE ~Holds(received, index + LengthWidth, n) /\ Stop(<<"string", LengthWidth>>)
    <3>1. ~(index + LengthWidth + n <= Len(received)) /\ Stop(<<"string", LengthWidth>>)
      <4> HIDE DEF n
      <4> QED  BY <2>6 DEF Holds
    <3>2. ASSUME NEW x \in Entry, Whole(x), x.kind # "torn", Type(x) = <<"string", LengthWidth>>,
                 Get(received, index, Len(Wire(x))) = Wire(x),
                 index + Len(Wire(x)) <= Len(received)
          PROVE  FALSE
      <4>1. /\ x.width = LengthWidth /\ x.value = Len(x.text)
            /\ Len(Wire(x)) = LengthWidth + Len(x.text) /\ Len(x.text) \in Nat
        BY <1>4, <3>2
      <4>2. x.value = FromDigits(Get(received, index, x.width))
        BY <1>2, <3>2, ValueStands
      <4>3. n = Len(x.text)
        BY <4>1, <4>2
      <4> HIDE DEF n
      <4>4. index + Len(Wire(x)) <= Len(received)
        BY <3>2
      <4>5. ~(index + LengthWidth + n <= Len(received))
        BY <3>1
      <4>6. Len(Wire(x)) = LengthWidth + n /\ n \in Nat
        BY <4>1, <4>3
      <4>7. index + (LengthWidth + n) <= Len(received)
        BY <4>4, <4>6
      <4> QED  BY <1>2, <1>3, <4>5, <4>6, <4>7, SMT
    <3>3. \A x \in Entry : /\ Whole(x) /\ x.kind # "torn" /\ Type(x) = <<"string", LengthWidth>>
                           /\ Get(received, index, Len(Wire(x))) = Wire(x)
                           => ~(index + Len(Wire(x)) <= Len(received))
      BY <3>2, Zenon
    <3> QED  BY <1>1, <1>3, <3>1, <3>3, StopKeeps
  <2>7. CASE Took(AsTorn(n))
    <3> DEFINE torn == AsTorn(n)
    <3> HIDE DEF n
    <3>1. torn = [kind |-> "torn", width |-> LengthWidth, value |-> n, text |-> << >>]
      BY DEF AsTorn
    <3>2. Took(torn)
      BY <2>7
    <3> HIDE DEF torn
    <3>3. torn \in Entry /\ torn.text = << >> /\ torn.value = n /\ torn.width = LengthWidth
      BY <1>3, <2>3, <3>1 DEF Entry, Kinds
    <3>4. Whole(torn)
      BY <3>1 DEF Whole
    <3> HIDE DEF ds
    <3>5. Wire(torn) = ds
      <4>1. ds \o << >> = ds
        BY <2>2, SMT
      <4> QED  BY <2>3, <3>3, <4>1 DEF Wire
    <3>6. Len(Wire(torn)) = LengthWidth
      BY <2>2, <3>5
    <3>7. Get(received, index, Len(Wire(torn))) = Wire(torn)
      BY <3>5, <3>6 DEF ds
    <3> QED  BY <1>1, <2>1, <3>2, <3>3, <3>4, <3>6, <3>7, TookKeeps
  <2> QED  BY <2>4, <2>5, <2>6, <2>7
<1> QED  BY <1>5, <1>6

\* Every step of writer, wire and reader keeps the invariant.
LEMMA NextIInv == IInv /\ [PacketNext]_packetVars => IInv'
<1> SUFFICES ASSUME IInv, [PacketNext]_packetVars PROVE IInv'
  OBVIOUS
<1>1. ASSUME NEW n \in Numbers, AppendNumber(n[1], n[2]) PROVE IInv'
  BY <1>1, StepAppendNumber
<1>2. ASSUME NEW s \in Strings, AppendString(s) PROVE IInv'
  BY <1>2, StepAppendString
<1>3. CASE SetBodySize
  BY <1>3, StepSetBodySize
<1>4. CASE Send
  BY <1>4, StepSend
<1>5. ASSUME NEW v \in Widths, ReadNumber(v) PROVE IInv'
  BY <1>5, StepReadNumber
<1>6. CASE ReadString
  BY <1>6, StepReadString
<1>7. CASE UNCHANGED packetVars
  BY <1>7, StutterIInv
<1> QED  BY <1>1, <1>2, <1>3, <1>4, <1>5, <1>6, <1>7, Zenon DEF PacketNext

\* The invariant holds in every state, whatever is appended and whatever is asked for.
THEOREM CodecInductive == PacketSpec => []IInv
  BY InitIInv, NextIInv, PTL DEF PacketSpec

\* buffer_writer.h, buffer_reader.h and packet.h, for any capacity up to what the size
\* field can say, any numbers and strings and any order of calls: the wire has what was
\* appended, the header the size of the body, the reader takes apart what is there, and
\* one that asks for the types that were written gets the values.
THEOREM CodecIsExact == PacketSpec => []CodecExact
<1>1. IInv => CodecExact
  BY DEF IInv, CodecExact
<1> QED  BY <1>1, CodecInductive, PTL
=============================================================================
