---------------------------- MODULE PacketCodec ----------------------------
(***************************************************************************)
(* A packet from its WriterPacket to the ReaderPacket of the peer: numbers *)
(* and strings appended behind the header, the size set in the header, the *)
(* frame that the decoder cuts out by that size, and what is read from it. *)
(*                                                                         *)
(* A byte has Base values (256).  Numbers are in network order, that is    *)
(* with their most significant byte first, whatever the order of the host. *)
(***************************************************************************)
EXTENDS Integers, Sequences

CONSTANTS Base,            \* the values of a byte
          PacketCapacity,  \* of a packet's buffer (0x10000)
          MagicBytes,      \* 'L', 'I'
          Cmds,            \* the commands of packets
          Numbers,         \* <<width, value>> of the numbers that are appended
          Strings,         \* the strings that are appended
          MaxEntries,      \* bound: calls of append and append_string
          MaxReads         \* bound: values that are read

AnyByte == 0 .. Base - 1
Widths == {1, 2, 4}
HEADER_SIZE == 6
LengthWidth == 4   \* sizeof(uint32_t), of a string's length

\* How many values a number of w bytes has.
Modulus(w) == CASE w = 1 -> Base
               [] w = 2 -> Base * Base
               [] w = 4 -> Base * Base * Base * Base

ASSUME PacketAssumption ==
  /\ Base \in Nat \ {0, 1} /\ MaxEntries \in Nat /\ MaxReads \in Nat
  /\ PacketCapacity \in HEADER_SIZE .. Base * Base
  /\ MagicBytes \in [1 .. 2 -> AnyByte]
  /\ Cmds \subseteq 0 .. Modulus(2) - 1
  /\ \A n \in Numbers : n[1] \in Widths /\ n[2] \in 0 .. Modulus(n[1]) - 1
  /\ Strings \subseteq Seq(AnyByte)

VARIABLES bytes,     \* the writer's buffer
          entries,   \* history: what each append has left in it
          sized,     \* history: bytes in the buffer at the last set_body_size
          cmd,       \* the command it was made with
          sent,      \* the packet has been sent
          received,  \* the frame in the reader's buffer
          index,     \* BufferReader::index_
          out,       \* what reads have moved the index over
          stopped    \* history: what the last read wanted, if there was not enough

writer == <<bytes, entries, sized, cmd>>
reader == <<received, index, out, stopped>>
packetVars == <<writer, sent, reader>>

\* A value with the type it is written and read as; torn: a string without its text.
Kinds == {"number", "string", "torn"}
Entry == [kind : Kinds, width : Widths, value : Nat, text : Seq(AnyByte)]
AsNumber(w, v) == [kind |-> "number", width |-> w, value |-> v, text |-> << >>]
AsString(s) == [kind |-> "string", width |-> LengthWidth, value |-> Len(s), text |-> s]
AsTorn(n) == [kind |-> "torn", width |-> LengthWidth, value |-> n, text |-> << >>]
Type(e) == <<e.kind, e.width>>
Nothing == <<"none", 0>>

PacketTypeOK == /\ bytes \in Seq(AnyByte) /\ Len(bytes) \in HEADER_SIZE .. PacketCapacity
          /\ entries \in Seq(Entry)
          /\ sized \in 0 .. Len(bytes)
          /\ cmd \in Cmds
          /\ sent \in BOOLEAN
          /\ received \in Seq(AnyByte)
          /\ index \in Nat
          /\ out \in Seq(Entry)
          /\ stopped \in {Nothing} \cup (Kinds \X Widths)

-----------------------------------------------------------------------------
\* A number without its last 0, 1, 2, and 3 bytes.
Shifted(v) == <<v, v \div Base, (v \div Base) \div Base,
                ((v \div Base) \div Base) \div Base>>

\* SwapH2N: a number of w bytes, the most significant first.
Digits(v, w) == [i \in 1 .. w |-> Shifted(v)[w - i + 1] % Base]

\* SwapN2H
FromDigits(ds) == CASE Len(ds) = 1 -> ds[1]
                    [] Len(ds) = 2 -> ds[1] * Base + ds[2]
                    [] Len(ds) = 4 -> ((ds[1] * Base + ds[2]) * Base + ds[3]) * Base + ds[4]

\* IBuffer::get
Holds(s, at, n) == at + n <= Len(s)
Get(s, at, n) == SubSeq(s, at + 1, at + n)

\* IBuffer::set
Overwrite(s, text, at) == SubSeq(s, 1, at) \o text \o SubSeq(s, at + Len(text) + 1, Len(s))

BodySize(s) == FromDigits(Get(s, 2, 2))
Cmd(s) == FromDigits(Get(s, 4, 2))

\* WriterPacket::WriterPacket: the size is 0 until it is set.
PacketInit == /\ cmd \in Cmds
        /\ bytes = MagicBytes \o Digits(0, 2) \o Digits(cmd, 2)
        /\ entries = << >> /\ sized = HEADER_SIZE
        /\ sent = FALSE
        /\ received = << >> /\ index = HEADER_SIZE /\ out = << >> /\ stopped = Nothing

-----------------------------------------------------------------------------
(* The writer *)

Free == PacketCapacity - Len(bytes)

Left(e) == entries' = Append(entries, e)

AppendNumber(w, v) ==
  /\ Len(entries) < MaxEntries
  /\ IF Free < w THEN UNCHANGED <<bytes, entries>>
     ELSE bytes' = bytes \o Digits(v, w) /\ Left(AsNumber(w, v))
  /\ UNCHANGED <<sized, cmd, sent, reader>>

\* append throws when the text does not fit, so the length in front of it stays: it
\* would be removed only if append returned false.
AppendString(s) ==
  /\ Len(entries) < MaxEntries
  /\ CASE Free < LengthWidth -> UNCHANGED <<bytes, entries>>
       [] Free >= LengthWidth + Len(s) ->
            bytes' = bytes \o Digits(Len(s), LengthWidth) \o s /\ Left(AsString(s))
       [] OTHER ->
            /\ bytes' = bytes \o Digits(Len(s), LengthWidth)
            /\ Left(AsTorn(Len(s)))
  /\ UNCHANGED <<sized, cmd, sent, reader>>

\* The application sets the size; the size is cut to 16 bits.
SetBodySize ==
  /\ LET size == (Len(bytes) - HEADER_SIZE) % Modulus(2)
     IN  bytes' = Overwrite(bytes, Digits(size, 2), 2)
  /\ sized' = Len(bytes)
  /\ UNCHANGED <<entries, cmd, sent, reader>>

\* The bytes go to the peer, whose decoder cuts the packet out by its header.
Send == /\ ~sent
        /\ sent' = TRUE
        /\ received' = Get(bytes, 0, HEADER_SIZE + BodySize(bytes))
        /\ UNCHANGED <<writer, index, out, stopped>>

-----------------------------------------------------------------------------
(* The reader: it may read other types than were written, and read on *)

Reading == sent /\ Len(out) < MaxReads

Stop(type) == stopped' = type /\ UNCHANGED <<index, out>>

Took(e) == /\ index' = index + e.width + Len(e.text)
           /\ out' = Append(out, e)
           /\ stopped' = Nothing

ReadNumber(w) ==
  /\ Reading
  /\ IF Holds(received, index, w) THEN Took(AsNumber(w, FromDigits(Get(received, index, w))))
     ELSE Stop(<<"number", w>>)
  /\ UNCHANGED <<writer, sent, received>>

\* Faulty: leaves the index behind the length of a string it could not read.
MutReadStringLeaves ==
  /\ Reading
  /\ IF ~Holds(received, index, LengthWidth) THEN Stop(<<"string", LengthWidth>>)
     ELSE LET n == FromDigits(Get(received, index, LengthWidth))
          IN  IF Holds(received, index + LengthWidth, n)
              THEN Took(AsString(Get(received, index + LengthWidth, n)))
              ELSE /\ index' = index + LengthWidth
                   /\ stopped' = <<"string", LengthWidth>>
                   /\ UNCHANGED out
  /\ UNCHANGED <<writer, sent, received>>

\* get_string makes room for as many bytes as the length says before it looks for them.
\* If there is no memory, the exception leaves the index behind the length.
\* get_string sets the index back when the text is not there.
ReadString ==
  /\ Reading
  /\ IF ~Holds(received, index, LengthWidth) THEN Stop(<<"string", LengthWidth>>)
     ELSE LET n == FromDigits(Get(received, index, LengthWidth))
          IN  \/ n # 0 /\ Took(AsTorn(n))
              \/ IF Holds(received, index + LengthWidth, n)
                 THEN Took(AsString(Get(received, index + LengthWidth, n)))
                 ELSE Stop(<<"string", LengthWidth>>)
  /\ UNCHANGED <<writer, sent, received>>

PacketNext == \/ \E n \in Numbers : AppendNumber(n[1], n[2])
        \/ \E s \in Strings : AppendString(s)
        \/ SetBodySize \/ Send
        \/ \E w \in Widths : ReadNumber(w)
        \/ ReadString

PacketSpec == PacketInit /\ [][PacketNext]_packetVars

-----------------------------------------------------------------------------
\* Entries one behind the other, each a number or a length and the text it counts.
Encoded(es) ==
  LET first[n \in 0 .. Len(es)] ==
        IF n = 0 THEN << >>
        ELSE first[n - 1] \o Digits(es[n].value, es[n].width) \o es[n].text
  IN  first[Len(es)]

\* However appends succeed and fail, the buffer is the header and what they have
\* left: a string that does not fit leaves its length, all other failures nothing.
WireExact == /\ Get(bytes, 0, 2) = MagicBytes
             /\ Get(bytes, 4, 2) = Digits(cmd, 2)
             /\ Get(bytes, HEADER_SIZE, Len(bytes) - HEADER_SIZE) = Encoded(entries)

\* The size in the header is that of the body when it was set, whatever the body's.
BodySizeExact == BodySize(bytes) = sized - HEADER_SIZE

\* Reads take values apart as they were put together: what has been read encodes to the
\* bytes up to the index, whatever was asked for, and a read that stops moves nothing; one
\* that finds no memory for a string moves over its length.
ReadsWhatIsThere ==
  sent => Encoded(out) = Get(received, HEADER_SIZE, index - HEADER_SIZE)

\* A reader that reads the types that were written, from a packet whose size was set
\* after the last append and whose strings all did fit, gets the values, and does not
\* stop before the last, unless it runs out of memory.
Followed == /\ Len(out) <= Len(entries)
            /\ \A i \in DOMAIN out : Type(out[i]) = Type(entries[i])

RoundTrip ==
  /\ sent /\ BodySize(received) = Len(bytes) - HEADER_SIZE
  /\ \A i \in DOMAIN entries : entries[i].kind # "torn"
  /\ Followed
  => /\ Cmd(received) = cmd
     /\ \A i \in DOMAIN out : out[i] = entries[i]
     /\ Len(out) < Len(entries) => stopped # Type(entries[Len(out) + 1])

\* A packet is on the wire, and in the end with its reader, what its writer made.
CodecExact == PacketTypeOK /\ WireExact /\ BodySizeExact /\ ReadsWhatIsThere /\ RoundTrip
=============================================================================
