----------------------------- MODULE MCFrontier -----------------------------
(* Small webs for the runs of Frontier. A page is at <<domain, port, path>>. *)
EXTENDS Frontier, TLC

CONSTANTS t1, t2

Symmetry == Permutations(Threads)

\* The pages link to each other in a ring, in several spellings.
Ring ==
  [seeds |-> <<"http://a.com/", " ">>,
   pages |-> (<<"a.com", 80, "">> :> <<"/x/", "/l.jpg", "y.html">>)
          @@ (<<"a.com", 80, "x">> :> <<"https://b.org/ ", "http://">>)
          @@ (<<"b.org", 80, "">> :> <<"http://a.com/x ", "/", "//c.io">>)]

\* Two pages with the same new links.
Race ==
  [seeds |-> <<"a.com/1", "https://a.com/2">>,
   pages |-> (<<"a.com", 80, "1">> :> <<"/3/", "/4">>)
          @@ (<<"a.com", 80, "2">> :> <<"http://a.com/4/", "/3">>)
          @@ (<<"a.com", 80, "4">> :> <<"/1", "/2/">>)]

\* Ports, hosts whose names begin with http, files of the same name.
Names ==
  [seeds |-> <<"a.io:81/p/q", "http://httpd.io/">>,
   pages |-> (<<"a.io", 81, "p/q">> :> <<"/p/q", "http://a.i/op/q">>)
          @@ (<<"a.io", 80, "p/q">> :> <<"/p_q", "/httpd:">>)
          @@ (<<"httpd.io", 80, "">> :> <<"/i", "httpd.html">>)]

\* A chain of pages; the longest url that is queued and one that is too long.
Deep ==
  [seeds |-> <<"a.com">>,
   pages |-> (<<"a.com", 80, "">> :> <<"/x">>) @@ (<<"a.com", 80, "x">> :> <<"/y">>)
          @@ (<<"a.com", 80, "y">> :> <<"/z">>) @@ (<<"a.com", 80, "z">> :> <<"/", "/long/long/long", "/long/long/longs">>)]

\* A host with an underscore, and a file of the same name on another; a link
\* that is nothing but its scheme.
Underscores ==
  [seeds |-> <<"a_i/p", "a/i/p">>,
   pages |-> (<<"a_i", 80, "p">> :> <<"https://">>)]

MCSites == {Ring, Race, Names, Deep, Underscores}
BinSuffixes == ".jpg.jpeg.gif.png.ico.bmp.swf"
=============================================================================
