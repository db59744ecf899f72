------------------------------- MODULE HttpUrl -------------------------------
(***************************************************************************)
(* The URL of a request: http_parser_parse_url, which url_obj::from_buf    *)
(* runs on each piece of it that http_parser_execute hands to on_url, and  *)
(* the accessors a handler reads it with.                                  *)
(*                                                                         *)
(* A text is a sequence of characters, one for each class the parser tells *)
(* apart; digits are themselves, since the port is a number.  The result   *)
(* of a call (struct http_parser_url) is written over the one before.      *)
(***************************************************************************)
EXTENDS Integers, Sequences, FiniteSets

LOCAL INSTANCE SequencesExt

CONSTANTS Targets,     \* the targets of requests a peer may send, in parts
          MaxPieces,   \* bound: calls of on_url for one request
          FieldMod,    \* offsets and lengths are kept modulo this (2^16)
          MaxPort      \* the largest port (0xffff)

ASSUME UrlAssumption ==
  /\ MaxPieces \in Nat \ {0} /\ FieldMod \in Nat \ {0} /\ MaxPort \in Nat

Digit == {"0", "1", "2", "3", "4", "5", "6", "7", "8", "9"}
ValueOf(d) == CHOOSE n \in 0 .. 9 : <<"0", "1", "2", "3", "4", "5", "6", "7", "8", "9">>[n + 1] = d

\* "a" and "h" stand for the letters that are hexadecimal digits and for the others,
\* "~" for marks, "&" for delimiters that a user's name may have, "<" for characters
\* of a path that a host cannot have.
Alpha == {"a", "h"}
Alphanum == Alpha \cup Digit
Hex == {"a"} \cup Digit
UserinfoChar == Alphanum \cup {"-", ".", "~", "*", "%", ":", "&"}
HostChar == Alphanum \cup {"-", "."}
ZoneChar == Alphanum \cup {"%", ".", "-", "~"}
UrlChar == UserinfoChar \cup {"/", "@", "[", "]", "<"}

-----------------------------------------------------------------------------
(* parse_url_char *)

ServerRows == {<<{"/"}, "path">>, <<{"?"}, "query_start">>, <<{"@"}, "server_with_at">>,
               <<UserinfoChar \cup {"[", "]"}, "server">>}

UrlRows ==
  [before_url |-> {<<{"/", "*"}, "path">>, <<Alpha, "schema">>},
   schema |-> {<<Alpha, "schema">>, <<{":"}, "schema_slash">>},
   schema_slash |-> {<<{"/"}, "schema_slash_slash">>},
   schema_slash_slash |-> {<<{"/"}, "server_start">>},
   server_start |-> ServerRows,
   server |-> ServerRows,
   server_with_at |-> {row \in ServerRows : "@" \notin row[1]},
   path |-> {<<UrlChar, "path">>, <<{"?"}, "query_start">>, <<{"#"}, "fragment_start">>},
   query_start |-> {<<UrlChar \cup {"?"}, "query">>, <<{"#"}, "fragment_start">>},
   query |-> {<<UrlChar \cup {"?"}, "query">>, <<{"#"}, "fragment_start">>},
   fragment_start |-> {<<UrlChar \cup {"?"}, "fragment">>, <<{"#"}, "fragment_start">>},
   fragment |-> {<<UrlChar \cup {"?", "#"}, "fragment">>},
   dead |-> {}]

\* http_parse_host_char
HostRows ==
  [userinfo_start |-> {<<{"@"}, "host_start">>, <<UserinfoChar, "userinfo">>},
   userinfo |-> {<<{"@"}, "host_start">>, <<UserinfoChar, "userinfo">>},
   host_start |-> {<<{"["}, "v6_start">>, <<HostChar, "host">>},
   host |-> {<<HostChar, "host">>, <<{":"}, "port_start">>},
   v6_end |-> {<<{":"}, "port_start">>},
   v6_start |-> {<<Hex \cup {":", "."}, "v6">>},
   v6 |-> {<<{"]"}, "v6_end">>, <<Hex \cup {":", "."}, "v6">>, <<{"%"}, "v6_zone_start">>},
   v6_zone_start |-> {<<ZoneChar, "v6_zone">>},
   v6_zone |-> {<<{"]"}, "v6_end">>, <<ZoneChar, "v6_zone">>},
   port_start |-> {<<Digit, "port">>},
   port |-> {<<Digit, "port">>},
   dead |-> {}]

After(rows, s, ch) ==
  LET to == {row[2] : row \in {r \in rows[s] : ch \in r[1]}}
  IN  IF to = {} THEN "dead" ELSE CHOOSE next \in to : TRUE

UrlStep(s, ch) == After(UrlRows, s, ch)
HostStep(s, ch) == After(HostRows, s, ch)

-----------------------------------------------------------------------------
(* http_parser_parse_url *)

Fields == {"schema", "host", "port", "path", "query", "fragment", "userinfo"}

\* struct http_parser_url: field_set, field_data and port.
NoUrl == [set |-> {}, off |-> [f \in Fields |-> 0], len |-> [f \in Fields |-> 0], port |-> 0]

Open(u, f, at) == [u EXCEPT !.off[f] = at % FieldMod, !.len[f] = 1, !.set = @ \cup {f}]
Longer(u, f) == [u EXCEPT !.len[f] = (@ + 1) % FieldMod]

\* The field a state belongs to; delimiters belong to none.
FieldOf == [schema |-> "schema", server |-> "host", server_with_at |-> "host",
            path |-> "path", query |-> "query", fragment |-> "fragment"]

\* One character; p has the state, the offset, the last field, and found_at.
ScanUrl(p, ch) ==
  LET s == UrlStep(p.s, ch)
      here == [p EXCEPT !.s = s, !.at = @ + 1, !.found = @ \/ s = "server_with_at"]
  IN  IF s \notin DOMAIN FieldOf THEN here
      ELSE IF FieldOf[s] = p.last THEN [here EXCEPT !.u = Longer(@, p.last)]
      ELSE [here EXCEPT !.u = Open(@, FieldOf[s], p.at), !.last = FieldOf[s]]

\* http_parse_host: the field a state adds to, and the states it may end in.
HostFieldOf == [userinfo |-> "userinfo", host |-> "host", v6 |-> "host",
                v6_zone_start |-> "host", v6_zone |-> "host", port |-> "port"]
HostEnds == {"host", "v6_end", "port"}

\* The host's length is counted anew, and only v6 and host states move its start.
ScanHost(p, ch) ==
  LET s == HostStep(p.s, ch)
      here == [p EXCEPT !.s = s, !.at = @ + 1]
  IN  IF s \notin DOMAIN HostFieldOf THEN here
      ELSE IF s = p.s \/ s \in {"v6_zone_start", "v6_zone"}
           THEN [here EXCEPT !.u = Longer(@, HostFieldOf[s])]
           ELSE IF HostFieldOf[s] = "host"
                THEN [here EXCEPT !.u.off["host"] = p.at % FieldMod, !.u = Longer(@, "host")]
                ELSE [here EXCEPT !.u = Open(@, HostFieldOf[s], p.at)]

\* Faulty: keeps the length that was counted with the user and the port.
MutParseHostKeepsLength(text, p) ==
  FoldLeft(ScanHost,
           [s |-> IF p.found THEN "userinfo_start" ELSE "host_start",
            at |-> p.u.off["host"], u |-> p.u],
           SubSeq(text, p.u.off["host"] + 1, p.u.off["host"] + p.u.len["host"]))

ParseHost(text, p) ==
  FoldLeft(ScanHost,
           [s |-> IF p.found THEN "userinfo_start" ELSE "host_start",
            at |-> p.u.off["host"],
            u |-> [p.u EXCEPT !.len["host"] = 0]],
           SubSeq(text, p.u.off["host"] + 1, p.u.off["host"] + p.u.len["host"]))

Number(digits) == FoldLeft(LAMBDA v, d : 10 * v + ValueOf(d), 0, digits)

\* strtoul: it stops at the first character that is no digit.
Strtoul(s) ==
  Number(SubSeq(s, 1, CHOOSE n \in 0 .. Len(s) :
                        /\ \A i \in 1 .. n : s[i] \in Digit
                        /\ n = Len(s) \/ s[n + 1] \notin Digit))

\* Faulty: starts after the port's first digit.
MutPortOfNext(text, u, after) ==
  Strtoul(SubSeq(text \o after, u.off["port"] + 2, Len(text \o after)))

\* The port's last digit may be the last of the text: what follows is read, too.
PortOf(text, u, after) == Strtoul(SubSeq(text \o after, u.off["port"] + 1, Len(text \o after)))

Failed == [ok |-> FALSE]

\* from_buf leaves is_connect at its default.
StartState == "before_url"

\* u has what the call before has left in field_data.
ParseUrl(text, u, after) ==
  LET scan == FoldLeft(ScanUrl,
                       [s |-> StartState, at |-> 0, last |-> "none", found |-> FALSE,
                        u |-> [u EXCEPT !.set = {}, !.port = 0]], text)
      host == ParseHost(text, scan)
      v == IF "host" \in scan.u.set THEN host.u ELSE scan.u
  IN  CASE scan.s = "dead" -> Failed
        [] "schema" \in scan.u.set /\ "host" \notin scan.u.set -> Failed
        [] "host" \in scan.u.set /\ host.s \notin HostEnds -> Failed
        [] OTHER -> IF "port" \notin v.set THEN [ok |-> TRUE, u |-> v]
                    ELSE IF PortOf(text, v, after) > MaxPort THEN Failed
                    ELSE [ok |-> TRUE, u |-> [v EXCEPT !.port = PortOf(text, v, after)]]

-----------------------------------------------------------------------------
(* The targets http_parser_execute accepts: it runs the same automaton, started  *)
(* after the method, and no target ends in the scheme or before the host.        *)

Scanned(text, connect) ==
  FoldLeft(UrlStep, IF connect THEN "server_start" ELSE "before_url", text)

Accepted(text, connect) ==
  Scanned(text, connect) \notin {"dead", "before_url", "schema", "schema_slash",
                                 "schema_slash_slash", "server_start"}

-----------------------------------------------------------------------------
(* A target in parts, each with its delimiters, and what they should be taken for *)

Spelled(t) == (IF t.schema = << >> THEN << >> ELSE t.schema \o <<":", "/", "/">>)
              \o t.user \o t.host \o t.port \o t.path \o t.query \o t.fragment

AllBut(s, chars) == SelectSeq(s, LAMBDA ch : ch \notin chars)
AfterFirst(s) == IF s = << >> THEN s ELSE Tail(s)

Part(t, f) == CASE f = "schema" -> t.schema
                [] f = "userinfo" -> AllBut(t.user, {"@"})
                [] f = "host" -> AllBut(t.host, {"[", "]"})
                [] f = "port" -> AfterFirst(t.port)
                [] f = "path" -> t.path
                [] f = "query" -> AfterFirst(t.query)
                [] f = "fragment" -> AllBut(t.fragment, {"#"})

Over(s, chars) == \A i \in DOMAIN s : s[i] \in chars
Bracketed(s) == Len(s) > 2 /\ s[1] = "[" /\ s[Len(s)] = "]"

\* Hexadecimal digits, and a zone that is not empty.
IsV6(s) == \/ s # << >> /\ Over(s, Hex \cup {":", "."})
           \/ \E n \in 2 .. Len(s) - 1 :
                /\ Over(SubSeq(s, 1, n - 1), Hex \cup {":", "."})
                /\ s[n] = "%"
                /\ Over(SubSeq(s, n + 1, Len(s)), ZoneChar)

IsHost(s) == \/ s # << >> /\ Over(s, HostChar)
             \/ Bracketed(s) /\ IsV6(SubSeq(s, 2, Len(s) - 1))

IsPort(s) == \/ s = << >>
             \/ Len(s) > 1 /\ Over(Tail(s), Digit) /\ Number(Tail(s)) <= MaxPort

HostPort(t) == IsHost(t.host) /\ IsPort(t.port)
                 /\ Over(SubSeq(t.user, 1, Len(t.user) - 1), UserinfoChar)

\* An absolute URL with a host, or what follows one.
WellFormed(t) == IF t.schema = << >> THEN t.user \o t.host \o t.port = << >>
                                     ELSE HostPort(t)

-----------------------------------------------------------------------------
VARIABLES target,    \* what the peer asked for
          connect,   \* its method is CONNECT
          taken,     \* characters handed to on_url so far
          pieces,    \* calls of on_url
          buf,       \* url_obj::buf_, the last of the pieces
          handle,    \* url_obj::handle_
          status     \* "reading", "served", or what threw: "cut" (a piece), "refused"

vars == <<target, connect, taken, pieces, buf, handle, status>>

Url == Spelled(target)

TypeOK == /\ target \in Targets
          /\ connect \in BOOLEAN
          /\ taken \in 0 .. Len(Url)
          /\ pieces \in 0 .. MaxPieces
          /\ buf = SubSeq(Url, taken - Len(buf) + 1, taken)
          /\ handle.set \subseteq Fields
          /\ \A f \in Fields : handle.off[f] < FieldMod /\ handle.len[f] < FieldMod
          /\ handle.port \in 0 .. MaxPort
          /\ status \in {"reading", "served", "cut", "refused"}

Init == /\ target \in Targets
        /\ connect \in BOOLEAN
        /\ Accepted(Spelled(target), connect)
        /\ taken = 0 /\ pieces = 0 /\ buf = << >>
        /\ handle = NoUrl
        /\ status = "reading"

\* url_obj::from_buf.  The text is kept before it is parsed.
\* A failed call leaves part of its result in handle_, which nobody reads any more: the
\* exception ends the read callback and with it the request.
FromBuf(n, after, then, otherwise) ==
  LET text == SubSeq(Url, taken + 1, taken + n)
      result == ParseUrl(text, handle, after)
  IN  /\ taken' = taken + n
      /\ pieces' = pieces + 1
      /\ buf' = text
      /\ IF result.ok
         THEN handle' = result.u /\ status' = then
         ELSE handle' = handle /\ status' = otherwise
      /\ UNCHANGED <<target, connect>>

\* A read ends in the URL: what is in memory after it is anything.
Piece(n) == /\ status = "reading"
            /\ n \in 1 .. Len(Url) - taken
            /\ pieces < MaxPieces - 1
            /\ \E after \in {<< >>, <<"9">>} : FromBuf(n, after, "reading", "cut")

\* The URL ends in this read, with a space or a line end.
LastPiece == /\ status = "reading"
        /\ FromBuf(Len(Url) - taken, <<" ">>, "served", "refused")

Next == LastPiece \/ \E n \in 1 .. Len(Url) : Piece(n)

Spec == Init /\ [][Next]_vars

-----------------------------------------------------------------------------
(* The accessors.  A field is read if its guard holds: that of host is the bit of *)
(* the scheme, that of fragment the bit of the query.                             *)

Has(f) == f \in handle.set
GuardOf == [schema |-> "schema", host |-> "schema", path |-> "path", query |-> "query",
            fragment |-> "query"]
Accessors == DOMAIN GuardOf

\* std::string::substr throws when the offset is past the end, and stops at it.
Throws(f) == Has(GuardOf[f]) /\ handle.off[f] > Len(buf)
Value(f) == SubSeq(buf, handle.off[f] + 1, handle.off[f] + handle.len[f])
Accessor(f, default) == IF Has(GuardOf[f]) THEN Value(f) ELSE default

\* The ports it may return.  The scheme is compared with "HTTP", which is what schema()
\* returns for none, and which four letters that are not hexadecimal may spell.
PortAccessor == CASE Has("path") -> {handle.port}
                  [] ~Has("path") /\ ~Has("schema") -> {80}
                  [] ~Has("path") /\ Has("schema") ->
                       {443} \cup (IF Value("schema") = <<"h", "h", "h", "h">> THEN {80} ELSE {})

-----------------------------------------------------------------------------
(* What on_url makes of a URL *)

Whole == pieces = 1 /\ status \in {"served", "refused"}
Served == status = "served"

\* A URL that arrives in one read is taken apart as it was put together, but that
\* a length is kept modulo 2^16: a field of 65536 bytes, a read's worth, is empty.
FieldsExact ==
  Served /\ Whole =>
    \A f \in Fields :
      /\ Has(f) <=> Part(target, f) # << >>
      /\ Has(f) => /\ handle.off[f] + handle.len[f] <= Len(buf)
                   /\ Value(f) = SubSeq(Part(target, f), 1, Len(Part(target, f)) % FieldMod)

\* ... and it is refused, by an exception through the parser, exactly when it is an
\* absolute URL without a valid host or port.
ServedIffWellFormed ==
  Whole /\ ~connect => (Served <=> WellFormed(target))

\* No request to connect to a host is served: from_buf never tells the parser that
\* it is one, which then takes the host for a scheme.
ConnectThrows ==
  connect /\ Served => target.schema # << >> \/ target.user \o target.host \o target.port = << >>

\* A URL is parsed for what it is, or its request ends in an exception.
UrlExact == TypeOK /\ FieldsExact /\ ServedIffWellFormed /\ ConnectThrows

-----------------------------------------------------------------------------
(* What a handler gets to see of it *)

\* However the URL is cut, the port comes from its characters and not from memory
\* that follows them.
PortFromUrl ==
  Served => handle.port = (IF Has("port") THEN Number(Value("port")) ELSE 0)

\* An accessor of a URL that arrived whole throws nothing, and returns its part or
\* nothing: the fragment's is empty without a query, even if there is one.
AccessorsSafe ==
  Served /\ Whole =>
    \A f \in Accessors :
      /\ ~Throws(f)
      /\ Accessor(f, << >>) \in {<< >>, SubSeq(Part(target, f), 1, Len(Part(target, f)) % FieldMod)}

\* The accessor returns the port of a URL with a path, which has no default: 0 if none
\* is given.  Without a path it returns a default, whatever port is given.
PortAccessorExact ==
  Served /\ Whole =>
    IF target.path = << >> THEN PortAccessor \subseteq {80, 443}
    ELSE PortAccessor = {IF target.port = << >> THEN 0 ELSE Number(Tail(target.port))}

\* The accessors return parts of the URL or defaults, and never what was in memory.
UrlAccessors == PortFromUrl /\ AccessorsSafe /\ PortAccessorExact

\* http_parser.h: field_data is indexed for a field iff its bit is set.
IndexedIffSet == Served => \A f \in Accessors : Has(GuardOf[f]) <=> Has(f)
=============================================================================
