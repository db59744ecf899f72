-------------------------- MODULE MCHttpConnection --------------------------
(* The streams the runs of HttpConnection take. *)
EXTENDS HttpConnection

Get == <<"method", "slash", "char", "slash", "line", "eol", "eol">>

\* An empty value, a value after white space that is folded, a second request.
Headers == <<"method", "slash", "eol",
             "field", "field", "colon", "eol",
             "field", "colon", "sp", "value", "eol", "sp", "value", "eol",
             "eol", "next", "next">>

\* Content-Length.
Post == <<"method", "slash", "line", "eol",
          "field", "colon", "value", "value", "eol",
          "eol", "body", "body", "body", "next">>

OneChunk == <<"method", "slash", "eol", "field", "colon", "value", "eol", "eol",
              "size", "eol", "body", "body", "eol", "last", "eol", "eol">>

Chunked2 == <<"method", "slash", "eol", "field", "colon", "value", "eol", "eol",
              "size", "size", "eol", "body", "eol", "size", "eol", "body", "eol",
              "last", "eol", "field", "colon", "value", "eol",
              "field", "field", "colon", "eol", "eol">>

BadUrl == <<"method", "slash", "char", "bad", "eol", "eol">>
BadHeader == <<"method", "slash", "eol", "field", "colon", "eol", "bad", "eol", "eol">>

MCRequests == {Get, Headers, Post, OneChunk, Chunked2, BadUrl, BadHeader}

\* The streams are requests of the grammar.
ASSUME RequestsAssumption == \A s \in MCRequests : IsRequest(s)
=============================================================================
