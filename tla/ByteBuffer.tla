----------------------------- MODULE ByteBuffer -----------------------------
(***************************************************************************)
(* Buffer: bytes in memory of a fixed capacity, with memory of others      *)
(* behind it, and a count of those in use.  Sizes are computed modulo      *)
(* 2^w; offsets are counted from 0, as in the code.                        *)
(***************************************************************************)
EXTENDS Integers, Sequences

CONSTANTS Byte,      \* the values of a byte
          Capacity,  \* of the buffer
          Behind,    \* bound: bytes of memory behind it, as many as a move may reach
          SizeMod,   \* 2^w, for the w bits of a size_t
          MaxText,   \* bound: bytes of a text that is appended, copied or set
          Starts,    \* where bytes are removed
          Lens       \* how many; start + len does not wrap, or the move's size would

ASSUME BufferAssumption ==
  /\ Byte # {}
  /\ {Capacity, Behind, MaxText, SizeMod} \subseteq Nat
  /\ Capacity + Behind + MaxText < SizeMod /\ Capacity <= Behind
  /\ Starts \subseteq 0 .. SizeMod - 1 /\ Lens \subseteq 0 .. SizeMod - 1

VARIABLES mem,    \* the memory, from data_ on
          ptr,    \* ptr_: the bytes in use
          call,   \* history: the last call
          extent  \* history: the memory it has touched reaches up to here

bufferVars == <<mem, ptr, call, extent>>

Texts == UNION {[1 .. n -> Byte] : n \in 0 .. MaxText}
Call == [name : {"none", "append", "copy", "remove", "set_size", "set"}, text : Texts,
         at : 0 .. SizeMod - 1, len : 0 .. SizeMod - 1]
NoCall == [name |-> "none", text |-> << >>, at |-> 0, len |-> 0]

BufferTypeOK == /\ mem \in [1 .. Capacity + Behind -> Byte]
                /\ ptr \in 0 .. Capacity
                /\ call \in Call
                /\ extent \in Nat

BufferInit == /\ mem = [i \in 1 .. Capacity + Behind |-> CHOOSE b \in Byte : TRUE]
              /\ ptr = 0
              /\ call = NoCall
              /\ extent = 0

Called(name, text, at, len) ==
  call' = [name |-> name, text |-> text, at |-> at, len |-> len]

\* What a check that fails, or throws, leaves.
Refuse == UNCHANGED <<mem, ptr>> /\ extent' = 0

\* memcpy of a text to an offset
Put(text, at) ==
  /\ mem' = [i \in DOMAIN mem |-> IF i \in at + 1 .. at + Len(text) THEN text[i - at] ELSE mem[i]]
  /\ extent' = at + Len(text)

Room == Capacity - ptr

Append_(text) ==
  /\ Called("append", text, 0, 0)
  /\ IF Room < Len(text) THEN Refuse ELSE Put(text, ptr) /\ ptr' = ptr + Len(text)

Copy(text) == /\ Called("copy", text, 0, 0)
              /\ IF Len(text) > Capacity THEN Refuse ELSE Put(text, 0) /\ ptr' = Len(text)

\* BufferWriter::set, which never grows the buffer.
Set(text, index) ==
  /\ Called("set", text, index, 0)
  /\ IF (index + Len(text)) % SizeMod > ptr THEN Refuse ELSE Put(text, index) /\ UNCHANGED ptr

SetSize(n) == /\ Called("set_size", << >>, 0, n)
              /\ ptr' = IF n > Capacity THEN ptr ELSE n
              /\ UNCHANGED mem /\ extent' = 0

\* Faulty: moves the bytes behind the gap only as far as the gap is long.
MutMoveGap(start, len) ==
  /\ mem' = [i \in DOMAIN mem |-> IF i \in start + 1 .. start + len THEN mem[i + len] ELSE mem[i]]
  /\ extent' = start + 2 * len

\* memmove(data_ + start, data_ + start + len, ptr_ - len): start more bytes than are left.
Move(start, len) ==
  /\ mem' = [i \in DOMAIN mem |->
               IF i \in start + 1 .. start + ptr - len THEN mem[i + len] ELSE mem[i]]
  /\ extent' = start + ptr

Remove_(start, len) ==
  /\ Called("remove", << >>, start, len)
  /\ IF start >= ptr THEN Refuse
     ELSE IF (start + len) % SizeMod >= ptr
          THEN ptr' = start /\ UNCHANGED mem /\ extent' = 0
          ELSE Move(start, len) /\ ptr' = ptr - len

BufferNext == \/ \E text \in Texts : \/ Append_(text) \/ Copy(text)
                                     \/ \E index \in 0 .. Capacity : Set(text, index)
              \/ \E n \in 0 .. Capacity + 1 : n < SizeMod /\ SetSize(n)
              \/ \E start \in Starts, len \in Lens : start + len < SizeMod /\ Remove_(start, len)

BufferSpec == BufferInit /\ [][BufferNext]_bufferVars

-----------------------------------------------------------------------------
\* Only a removal from the middle touches memory behind the buffer: a removal from the
\* front, which is the only one the decoder makes, and all other calls stay inside.
OverrunForCause == extent > Capacity => call.name = "remove" /\ call.at > 0

\* Whatever is removed from where: the bytes in use are what the sequence of calls
\* makes of them, and no call strays from the buffer but for that reason.
Abstract == INSTANCE ByteSequence WITH content <- SubSeq(mem, 1, ptr)
ImplementsBytes == Abstract!Spec /\ [](BufferTypeOK /\ OverrunForCause)
=============================================================================
