---------------------------- MODULE HttpResponse ----------------------------
(***************************************************************************)
(* What a handler makes of its response: its status, its headers, and the  *)
(* ends that put the text together.  Bodies are told apart by their length *)
(* only; the write itself is a matter of HttpConnection.                   *)
(***************************************************************************)
EXTENDS Integers, Sequences

CONSTANTS Bodies,     \* lengths of the bodies a handler may send
          Statuses,   \* the codes it may set
          Supported,  \* those get_status_text knows
          Spellings,  \* the headers it may set, in every spelling
          Values,     \* and their values
          MaxCalls    \* bound: calls of the handler

ASSUME ResponseAssumption ==
  /\ Bodies \subseteq Nat /\ Values \subseteq Nat /\ MaxCalls \in Nat
  /\ Supported \subseteq Statuses /\ 200 \in Supported

VARIABLES code,     \* status_
          headers,  \* headers_: the names there are, in lower case, with their values
          calls,    \* calls so far
          tried,    \* history: the bodies of the ends so far, those that threw included
          named,    \* history: the handler has set a Content-Length
          texts     \* what was written: status, headers and body

responseVars == <<code, headers, calls, tried, named, texts>>

\* ci_less: names are equal if their spelling in lower case is.
Lower(name) == CASE name \in {"Content-Length", "content-length"} -> "content-length"
                 [] name \in {"Content-Type", "CONTENT-TYPE"} -> "content-type"
                 [] OTHER -> name

Html == 0   \* "text/html"

HeaderNames == {Lower(n) : n \in Spellings \cup {"Content-Length", "Content-Type"}}
Headers == UNION {[names -> Bodies \cup Values \cup {Html}] : names \in SUBSET HeaderNames}

ResponseTypeOK == /\ code \in Statuses
                  /\ headers \in Headers
                  /\ calls \in 0 .. MaxCalls
                  /\ tried \in Seq(Bodies)
                  /\ named \in BOOLEAN
                  /\ texts \in Seq([status : Statuses, headers : Headers, body : Bodies])

ResponseInit == /\ code = 200
                /\ headers = [n \in {"content-type"} |-> Html]
                /\ calls = 0 /\ tried = << >> /\ named = FALSE /\ texts = << >>

CountCall == calls < MaxCalls /\ calls' = calls + 1

\* Faulty: a name in another spelling is another header.
MutWithSpelled(name, value) ==
  [n \in DOMAIN headers \cup {name} |-> IF n = name THEN value ELSE headers[n]]

With(name, value) ==
  [n \in DOMAIN headers \cup {Lower(name)} |-> IF n = Lower(name) THEN value ELSE headers[n]]

SetStatus(status) == /\ CountCall
                     /\ code' = status
                     /\ UNCHANGED <<headers, tried, named, texts>>

SetHeader(name, value) ==
  /\ CountCall
  /\ headers' = With(name, value)
  /\ named' = (named \/ Lower(name) = "content-length")
  /\ UNCHANGED <<code, tried, texts>>

LengthFound == "content-length" \in DOMAIN headers

\* get_status_text knows the code; it throws otherwise.
StatusText(status) == status \in Supported

\* The length is set before the status is looked at, and it stays if that throws.
EndResponse(body) ==
  /\ CountCall
  /\ headers' = IF LengthFound THEN headers ELSE With("Content-Length", body)
  /\ tried' = Append(tried, body)
  /\ texts' = IF StatusText(code)
              THEN Append(texts, [status |-> code, headers |-> headers', body |-> body])
              ELSE texts
  /\ UNCHANGED <<code, named>>

ResponseNext == \/ \E status \in Statuses : SetStatus(status)
                \/ \E name \in Spellings, value \in Values : SetHeader(name, value)
                \/ \E body \in Bodies : EndResponse(body)

ResponseSpec == ResponseInit /\ [][ResponseNext]_responseVars

-----------------------------------------------------------------------------
\* Every response has a length, and unless the handler has set it that is the length
\* of the first body it tried to end with, whatever it did in between: of the body it
\* sends only if that is the first, since an end that throws stores its length, too.
LengthOfFirstEnd ==
  \A i \in DOMAIN texts :
    /\ "content-length" \in DOMAIN texts[i].headers
    /\ named \/ texts[i].headers["content-length"] = tried[1]

\* No response goes out with a status that has no text, in whichever order statuses
\* are set and ends are tried.
WrittenSupported == \A i \in DOMAIN texts : texts[i].status \in Supported

\* Every response that goes out has a status line and a length.
ResponseExact == ResponseTypeOK /\ LengthOfFirstEnd /\ WrittenSupported
=============================================================================
