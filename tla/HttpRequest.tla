---------------------------- MODULE HttpRequest ----------------------------
(***************************************************************************)
(* The bytes a peer of the HTTP server sends, and what is in them.         *)
(*                                                                         *)
(* A stream is a sequence of kinds of bytes.  Two bytes of a kind differ   *)
(* by their positions, so a text is the sequence of the positions it was   *)
(* made from: two texts are equal when they are the same bytes in the same *)
(* order.  "eol" is a line end, LF or CR LF.                               *)
(***************************************************************************)
EXTENDS Integers, Sequences, FiniteSets

Kinds == {"method",           \* the request line before the URL
          "slash", "char",    \* the URL: '/', and what can only follow one
          "line",             \* the request line after the URL
          "field", "colon",   \* a header's name
          "value", "sp",      \* a header's value; white space before or in it
          "eol",
          "body",             \* the body, or a chunk's data
          "size", "last",     \* a chunk's size, not zero and zero
          "bad",              \* a byte the parser refuses where it stands
          "next"}             \* bytes that follow the request

\* The bytes first .. past-1.
Piece(first, past) == [i \in 1 .. past - first |-> first + i - 1]

\* These positions in their order: the k-th is the one that k of them do not pass.
InOrder(S) ==
  [k \in 1 .. Cardinality(S) |-> CHOOSE i \in S : Cardinality({j \in S : j <= i}) = k]

\* The bytes of these kinds among the positions P.
Text(s, P, kinds) == InOrder({i \in P : s[i] \in kinds})

UrlOf(s) == Text(s, DOMAIN s, {"slash", "char"})
BodyOf(s) == Text(s, DOMAIN s, {"body"})
Chunked(s) == \E i \in DOMAIN s : s[i] = "last"
HasBody(s) == \E i \in DOMAIN s : s[i] = "body"
ChunksOf(s) == {i \in DOMAIN s : s[i] = "body" /\ s[i - 1] # "body"}

\* The lines that start with a header's name, and the line from one of them to
\* the next: a folded value goes on over a line end and white space.
Names(s) == {i \in DOMAIN s : s[i] = "field" /\ s[i - 1] # "field"}
Line(s, i) == {j \in i .. Len(s) : \A k \in Names(s) : k <= i \/ j < k}

\* White space belongs to a value once it has begun.
ValueFrom(s, P) ==
  {j \in P : \E k \in P : k <= j /\ s[k] = "value"}

HeaderOf(s, i) ==
  <<Text(s, Line(s, i), {"field"}),
    Text(s, ValueFrom(s, Line(s, i)), {"value", "sp"})>>

InTrailer(s, i) == \E k \in 1 .. i : s[k] = "last"

HeadersOf(s) == {HeaderOf(s, i) : i \in {j \in Names(s) : ~InTrailer(s, j)}}

\* The header lines after the last chunk, but for the last of them.
TrailersButLast(s) ==
  {HeaderOf(s, i) : i \in {j \in Names(s) : InTrailer(s, j) /\ \E k \in Names(s) : j < k}}

\* Where the request ends, and whether every byte of it can be parsed.
Ends(s) == Cardinality({i \in DOMAIN s : s[i] # "next"})
WellFormed(s) == \A i \in DOMAIN s : s[i] # "bad"

-----------------------------------------------------------------------------
(* The grammar of requests, byte by byte *)

\* What may follow the line end at i, by what is before it: an empty line ends the
\* headers, and the request unless a body or chunks follow, or the trailers.
AfterLine(s, i) ==
  CASE s[i - 1] \in {"slash", "char", "line", "last"} -> {"field", "eol"}
    [] s[i - 1] \in {"colon", "value", "sp"} -> {"field", "sp", "eol"}
    [] s[i - 1] = "size" -> {"body"}
    [] s[i - 1] = "body" -> {"size", "last"}
    [] s[i - 1] = "eol" /\ Chunked(s) /\ ~InTrailer(s, i) -> {"size", "last"}
    [] s[i - 1] = "eol" /\ ~Chunked(s) /\ HasBody(s) -> {"body"}
    [] OTHER -> {}

\* What may follow the byte at i within the request.
Follow(s, i) ==
  CASE s[i] = "method" -> {"method", "slash"}
    [] s[i] \in {"slash", "char"} -> {"slash", "char", "line", "eol"}
    [] s[i] = "line" -> {"line", "eol"}
    [] s[i] = "field" -> {"field", "colon"}
    [] s[i] \in {"colon", "value", "sp"} -> {"value", "sp", "eol"}
    [] s[i] = "size" -> {"size", "eol"}
    [] s[i] = "last" -> {"eol"}
    [] s[i] = "body" -> IF Chunked(s) THEN {"body", "eol"} ELSE {"body"}
    [] s[i] = "eol" -> AfterLine(s, i)
    [] OTHER -> {}

\* A request, up to the first byte that cannot be parsed if there is one, and maybe
\* more bytes behind it.  One without such a byte ends where nothing may follow, or
\* with the last byte of a body whose length it tells.
IsRequest(s) ==
  /\ \A i \in DOMAIN s : s[i] # "next" <=> i <= Ends(s)
  /\ 1 \in DOMAIN s /\ s[1] \in {"method", "bad"}
  /\ \A i \in 1 .. Ends(s) - 1 :
       (\A k \in 1 .. i : s[k] # "bad") => \E b \in Follow(s, i) : s[i + 1] \in {b, "bad"}
  /\ WellFormed(s) => \/ s[Ends(s)] = "body" /\ ~Chunked(s)
                      \/ Follow(s, Ends(s)) = {}
=============================================================================
