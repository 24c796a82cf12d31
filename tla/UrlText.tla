------------------------------ MODULE UrlText ------------------------------
(***************************************************************************)
(* What url.c does to the text of a url on its way from a link to a        *)
(* request: is_bin_url, attach_domain, urlNormalized, surl2Ourl, url2fn.   *)
(***************************************************************************)
EXTENDS Text

CONSTANTS
  MAX_LINK_LEN,
  BIN_SUFFIXES,   \* the suffixes of binary files in one string
  Null

(* What the literals of url.c consist of, which TLC computes and the       *)
(* provers, to which a literal is an atom, take from here.                 *)
ASSUME LiteralsAssumption ==
  /\ {"", "/", "//", "_", "s", "http", "http://", "https://"} \subseteq STRING
  /\ Len("") = 0 /\ \A c \in {"/", "_", "s"} : Len(c) = 1
  /\ Len("//") = 2
  /\ Len("http") = 4 /\ Len("http://") = 7 /\ Len("https://") = 8
  /\ IsPrefix("http", "http://") /\ IsPrefix("http", "https://")
  /\ Char("https://", 5) = "s" /\ Char("http://", 5) # "s"
  /\ Places("http", "/") = {} /\ "/" \notin Spaces

-----------------------------------------------------------------------------
(* From the last dot on, the url is a piece of the list of suffixes.       *)
is_bin_url(url) ==
  LET dots == Places(url, ".")
  IN  dots # {} /\ strstr(BIN_SUFFIXES, From(url, Max(dots) - 1))

(* An absolute link stays, one from the root gets the page's domain, which *)
(* has lost its port; every other link is dropped.                         *)
attach_domain(url, domain) ==
  CASE IsPrefix("http", url) -> url
    [] ~IsPrefix("http", url) /\ IsPrefix("/", url) -> domain \o url
    [] OTHER -> Null

WithoutSpaces(url) ==
  SubSeq(url, 1, Max({0} \cup {k \in 1 .. Len(url) : Char(url, k) \notin Spaces}))

(* Mutant: any long url is taken to begin with its scheme. *)
SchemeLenAlways(url) ==
  IF Len(url) > 7 THEN IF Char(url, 5) = "s" THEN 8 ELSE 7 ELSE 0

(* The characters taken for "http://" or "https://". *)
SchemeLen(url) ==
  IF Len(url) > 7 /\ IsPrefix("http", url)
  THEN IF Char(url, 5) = "s" THEN 8 ELSE 7
  ELSE 0

(* When the scheme was all there was, url[-1] is the high byte of the size *)
(* of a small block: not a slash.                                          *)
WithoutSlash(url) ==
  IF url # "" /\ Char(url, Len(url)) = "/" THEN SubSeq(url, 1, Len(url) - 1) ELSE url

urlNormalized(url) ==
  LET text == WithoutSpaces(url)
      rest == WithoutSlash(From(text, SchemeLen(text)))
  IN  IF text = "" \/ Len(rest) > MAX_LINK_LEN THEN Null ELSE rest

-----------------------------------------------------------------------------
Port(text) == IF atoi(text) = 0 THEN 80 ELSE atoi(text)

(* Up to the first slash there are the host and its port, behind it the    *)
(* path.                                                                   *)
surl2Ourl(surl) ==
  LET url == surl.url
      slashes == Places(url, "/")
      host == IF slashes = {} THEN url ELSE SubSeq(url, 1, Min(slashes) - 1)
      path == IF slashes = {} THEN "" ELSE From(url, Min(slashes))
      colons == Places(host, ":")
  IN  [domain |-> IF colons = {} THEN host ELSE SubSeq(host, 1, Min(colons) - 1),
       port |-> IF colons = {} THEN 80 ELSE Port(From(host, Min(colons))),
       path |-> path,
       level |-> surl.level]

(* Mutant: nothing between the host and the path. *)
url2fnJoined(url) ==
  LET p == url.path
      name[n \in 0 .. Len(p)] ==
        IF n = 0 THEN url.domain
        ELSE name[n - 1] \o (IF Char(p, n) = "/" THEN "_" ELSE Char(p, n))
  IN  name[Len(p)]

url2fn(url) ==
  LET p == url.path
      name[n \in 0 .. Len(p)] ==
        IF n = 0 THEN url.domain \o "_"
        ELSE name[n - 1] \o (IF Char(p, n) = "/" THEN "_" ELSE Char(p, n))
  IN  name[Len(p)]
=============================================================================
