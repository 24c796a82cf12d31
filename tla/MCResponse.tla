----------------------------- MODULE MCResponse -----------------------------
(* Small answers for the run of Response. *)
EXTENDS Response

Crlf == <<CR, LF>>

Statuses == {"HTTP/1.0 200 OK", "HTTP/1.0 300 Many", "HTTP/1.1 404 Not Found"}

\* Header lines behind the status.
Fields ==
  {<<>>, <<"Content-Type: text/html">> \o Crlf, <<"content-type:image/png">> \o Crlf,
   <<"Content-Type: text/html">> \o Crlf \o <<"Content-type: text/css">> \o Crlf,
   <<"Content-Type: a:text/html">> \o Crlf, <<"x", Nul, "x">> \o Crlf}

Bodies == {<<>>, <<"x">>, <<CR, LF, CR, LF, "x">>, <<"x", Nul, "y">>, <<"x", "y", LF, "z">>}

Long == <<"1", "2", "3", "4", "5", "6", "7", "8", "9">>

MCStreams ==
  {<<s>> \o Crlf \o f \o Crlf \o b : s \in Statuses, f \in Fields, b \in Bodies}
    \cup {<<"HTTP/1.0 200 OK">> \o Crlf \o <<"Content-Type: text/html">> \o Crlf \o Crlf \o Long,
          <<"x", CR, CR, LF>> \o Crlf \o Crlf \o <<"y">>}

MCModules == {{}, {"headerfilter"}, {"savehtml"}, {"headerfilter", "savehtml"}}
Accepted == {"image/"}
=============================================================================
