--------------------------- MODULE FrontierProofs ---------------------------
(* Theorems about Frontier, for every web, any number of jobs and whatever *)
(* the functions of UrlText make of a link.                                *)
EXTENDS Frontier, Foundations

-----------------------------------------------------------------------------
(* The literals, for lemmas in which they are sequences like any other.    *)
Nothing == ""
Slash == "/"
Under == "_"
Ess == "s"
Http == "http"
Http2 == "http://"
Https == "https://"

Spelt(C) ==
  /\ Nothing \in Seq(C) /\ Slash \in Seq(C) /\ Under \in Seq(C) /\ Ess \in Seq(C)
  /\ Http \in Seq(C) /\ Http2 \in Seq(C) /\ Https \in Seq(C)
  /\ NoServer \in Seq(C) /\ Len(NoServer) = 2
  /\ Len(Nothing) = 0 /\ Len(Slash) = 1 /\ Len(Under) = 1 /\ Len(Ess) = 1
  /\ Len(Http) = 4 /\ Len(Http2) = 7 /\ Len(Https) = 8
  /\ IsPrefix(Http, Http2) /\ IsPrefix(Http, Https)
  /\ Char(Https, 5) = Ess /\ Char(Http2, 5) # Ess
  /\ Places(Http, Slash) = {} /\ Slash \notin Spaces /\ Slash # Under

LEMMA LiteralsSpelt ==
  ASSUME NEW C, STRING = Seq(C)
  PROVE  Spelt(C)
<1>1. /\ Nothing \in Seq(C) /\ Slash \in Seq(C) /\ Under \in Seq(C) /\ Ess \in Seq(C)
      /\ Http \in Seq(C) /\ Http2 \in Seq(C) /\ Https \in Seq(C)
  BY LiteralsAssumption, Zenon DEF Nothing, Slash, Under, Ess, Http, Http2, Https
<1>0. NoServer \in Seq(C) /\ Len(NoServer) = 2
  BY LiteralsAssumption, Zenon DEF NoServer
<1>2. /\ Len(Nothing) = 0 /\ Len(Slash) = 1 /\ Len(Under) = 1 /\ Len(Ess) = 1
      /\ Len(Http) = 4 /\ Len(Http2) = 7 /\ Len(Https) = 8
  BY LiteralsAssumption, Zenon DEF Nothing, Slash, Under, Ess, Http, Http2, Https
<1>3. /\ IsPrefix(Http, Http2) /\ IsPrefix(Http, Https)
      /\ Char(Https, 5) = Ess /\ Char(Http2, 5) # Ess
      /\ Places(Http, Slash) = {} /\ Slash \notin Spaces
  BY LiteralsAssumption, Zenon DEF Slash, Ess, Http, Http2, Https
<1>4. Slash # Under
  BY DEF Slash, Under
<1> QED
  BY <1>0, <1>1, <1>2, <1>3, <1>4, Zenon DEF Spelt

LEMMA SlashCut ==
  ASSUME NEW C, Spelt(C), NEW s \in Seq(C)
  PROVE  /\ WithoutSlash(s) \in Seq(C) /\ Len(WithoutSlash(s)) <= Len(s)
         /\ \/ WithoutSlash(s) = s
            \/ s = WithoutSlash(s) \o Slash
<1> DEFINE r == SubSeq(s, 1, Len(s) - 1)
<1>1. WithoutSlash(s) = IF s # Nothing /\ Char(s, Len(s)) = Slash THEN r ELSE s
  BY Zenon DEF WithoutSlash, Nothing, Slash
<1>2. CASE s # Nothing /\ Char(s, Len(s)) = Slash
  <2>1. Len(s) # 0
    <3>1. Len(s) = 0 => s = Nothing
      BY SeqEqual DEF Spelt
    <3> QED
      BY <1>2, <3>1
  <2>2. Len(s) \in 1 .. Len(s) /\ Len(s) - 1 \in 0 .. Len(s)
    BY <2>1
  <2>3. r \in Seq(C) /\ Len(r) = Len(s) - 1 /\ \A i \in 1 .. Len(r) : r[i] = s[i]
    BY <2>2, UpToIs
  <2>4. s[Len(s)] = Slash[1]
    BY <1>2, <2>2, CharIs
  <2>5. /\ Len(r \o Slash) = Len(s) /\ r \o Slash \in Seq(C)
        /\ \A i \in 1 .. Len(s) : (r \o Slash)[i] = IF i <= Len(r) THEN r[i] ELSE Slash[i - Len(r)]
    <3> HIDE DEF r
    <3>1. Slash \in Seq(C) /\ Len(Slash) = 1
      BY DEF Spelt
    <3>2. Len(r) + Len(Slash) = Len(s)
      BY <2>1, <2>3, <3>1
    <3>3. /\ r \o Slash \in Seq(C) /\ Len(r \o Slash) = Len(r) + Len(Slash)
          /\ \A i \in 1 .. Len(r) + Len(Slash) :
               (r \o Slash)[i] = IF i <= Len(r) THEN r[i] ELSE Slash[i - Len(r)]
      BY <2>3, <3>1, ConcatProperties
    <3> QED
      BY ONLY <3>2, <3>3
  <2>6. \A i \in 1 .. Len(s) : (r \o Slash)[i] = s[i]
    <3> HIDE DEF r
    <3> TAKE i \in 1 .. Len(s)
    <3>1. i <= Len(r) => i \in 1 .. Len(r)
      BY <2>3
    <3>2. ~ (i <= Len(r)) => i = Len(s) /\ i - Len(r) = 1
      BY <2>3, <2>1
    <3> QED
      BY <2>3, <2>4, <2>5, <3>1, <3>2
  <2>7. s = r \o Slash
    <3> HIDE DEF r
    <3> QED
      BY <2>5, <2>6, SeqEqual
  <2> HIDE DEF r
  <2> QED
    BY <1>1, <1>2, <2>3, <2>7
<1> QED
  BY <1>1, <1>2 

LEMMA PlacesIn ==
  ASSUME NEW C, NEW s \in Seq(C), NEW c PROVE Places(s, c) \subseteq 1 .. Len(s)
  BY DEF Places

LEMMA SpacesCut ==
  ASSUME NEW C, NEW s \in Seq(C)
  PROVE  \E k \in 0 .. Len(s) : 
    /\ WithoutSpaces(s) = SubSeq(s, 1, k)
    /\ k # 0 => Char(s, k) \notin Spaces
    /\ \A i \in (k + 1) .. Len(s) : Char(s, i) \in Spaces
<1> DEFINE P == {0} \cup {k \in 1 .. Len(s) : Char(s, k) \notin Spaces}
<1>1. P \subseteq 0 .. Len(s) /\ P # {} /\ Len(s) \in Nat
  OBVIOUS
<1>2. Max(P) \in P /\ \A k \in P : k <= Max(P)
  <2> HIDE DEF P
  <2> QED
    BY <1>1, Extremes
<1>3. WithoutSpaces(s) = SubSeq(s, 1, Max(P))
  BY Zenon DEF WithoutSpaces
<1>4. Max(P) \in 0 .. Len(s) /\ (Max(P) # 0 => Char(s, Max(P)) \notin Spaces)
  BY <1>2
<1>5. \A i \in (Max(P) + 1) .. Len(s) : Char(s, i) \in Spaces
  BY <1>2
<1> QED
  BY <1>3, <1>4, <1>5

LEMMA SchemeLenIs ==
  ASSUME NEW C, NEW s \in Seq(C)
  PROVE  /\ SchemeLen(s) \in 0 .. Len(s)
         /\ SchemeLen(s) = IF Len(s) > 7 /\ IsPrefix(Http, s)
                            THEN IF Char(s, 5) = Ess THEN 8 ELSE 7
                            ELSE 0
<1>1. SchemeLen(s) = IF Len(s) > 7 /\ IsPrefix(Http, s)
                     THEN IF Char(s, 5) = Ess THEN 8 ELSE 7
                     ELSE 0
  BY Zenon DEF SchemeLen, Http, Ess
<1> QED
  BY <1>1

Stripped(s) == WithoutSlash(From(WithoutSpaces(s), SchemeLen(WithoutSpaces(s))))

LEMMA NormalIs ==
  ASSUME NEW C, Spelt(C), NEW s \in Seq(C), urlNormalized(s) # Null
  PROVE  urlNormalized(s) = Stripped(s) /\ Stripped(s) \in Seq(C)
<1> DEFINE t == WithoutSpaces(s)
           r == From(t, SchemeLen(t))
<1>1. urlNormalized(s) = Stripped(s)
  BY Zenon DEF urlNormalized, Stripped
<1>2. t \in Seq(C)
  <2>1. PICK k \in 0 .. Len(s) : t = SubSeq(s, 1, k)
    BY SpacesCut
  <2> QED
    BY <2>1, UpToIs
<1>3. r \in Seq(C)
  <2> HIDE DEF t
  <2> QED
    BY <1>2, SchemeLenIs, FromIs
<1>4. WithoutSlash(r) \in Seq(C)
  <2> HIDE DEF r
  <2> QED
    BY <1>3, SlashCut
<1> QED
  BY <1>1, <1>4 DEF Stripped

LEMMA AttachIs ==
  ASSUME NEW C, NEW s \in Seq(C), NEW d \in Seq(C), attach_domain(s, d) # Null
  PROVE  /\ attach_domain(s, d) \in Seq(C)
         /\ \/ IsPrefix(Http, s) /\ attach_domain(s, d) = s
            \/ ~IsPrefix(Http, s) /\ IsPrefix(Slash, s) /\ attach_domain(s, d) = d \o s
<1>1. attach_domain(s, d) =
        CASE IsPrefix(Http, s) -> s
          [] ~IsPrefix(Http, s) /\ IsPrefix(Slash, s) -> d \o s
          [] OTHER -> Null
  BY Zenon DEF attach_domain, Http, Slash
<1>2. d \o s \in Seq(C)
  BY ConcatProperties
<1> QED
  BY <1>1, <1>2

LEMMA TargetIs ==
  ASSUME NEW C, Spelt(C), NEW s \in Seq(C), NEW d \in Seq(C), Target(s, d) # Null
  PROVE  /\ attach_domain(s, d) # Null /\ attach_domain(s, d) \in Seq(C)
         /\ Target(s, d) = Stripped(attach_domain(s, d)) /\ Target(s, d) \in Seq(C)
<1>1. attach_domain(s, d) # Null /\ Target(s, d) = urlNormalized(attach_domain(s, d))
  BY Zenon DEF Target
<1> QED
  BY <1>1, AttachIs, NormalIs

SurlsOf(C) == [url : Seq(C), level : Nat]
OurlsOf(C) == [domain : Seq(C), port : Int, path : Seq(C), level : Nat]

LEMMA OurlIs ==
  ASSUME NEW C, Spelt(C), NEW s \in SurlsOf(C)
  PROVE  surl2Ourl(s) \in OurlsOf(C)
<1> DEFINE url == s.url
           slashes == Places(url, "/")
           host == IF slashes = {} THEN url ELSE SubSeq(url, 1, Min(slashes) - 1)
           path == IF slashes = {} THEN "" ELSE From(url, Min(slashes))
           colons == Places(host, ":")
           domain == IF colons = {} THEN host ELSE SubSeq(host, 1, Min(colons) - 1)
           port == IF colons = {} THEN 80 ELSE Port(From(host, Min(colons)))
<1>1. surl2Ourl(s) = [domain |-> domain, port |-> port, path |-> path, level |-> s.level]
  BY Zenon DEF surl2Ourl
<1>2. url \in Seq(C) /\ s.level \in Nat
  BY DEF SurlsOf
<1>3. ASSUME NEW t \in Seq(C), NEW c, Places(t, c) # {}
      PROVE  Min(Places(t, c)) \in 1 .. Len(t)
  <2>1. Places(t, c) \subseteq 1 .. Len(t)
    BY PlacesIn
  <2>2. Places(t, c) \subseteq 0 .. Len(t) /\ Len(t) \in Nat
    BY <2>1
  <2> QED
    BY <1>3, <2>1, <2>2, Extremes
<1>4. ASSUME NEW t \in Seq(C), NEW c, Places(t, c) # {}
      PROVE  /\ SubSeq(t, 1, Min(Places(t, c)) - 1) \in Seq(C)
             /\ From(t, Min(Places(t, c))) \in Seq(C)
  <2>1. Min(Places(t, c)) \in 1 .. Len(t)
    BY <1>3, <1>4
  <2>2. Min(Places(t, c)) - 1 \in 0 .. Len(t) /\ Min(Places(t, c)) \in Nat
    BY <2>1
  <2> QED
    BY <2>2, UpToIs, FromSeq
<1> HIDE DEF url
<1>5. host \in Seq(C)
  BY <1>2, <1>4
<1>6. path \in Seq(C)
  <2>1. "" \in Seq(C)
    BY Zenon DEF Spelt, Nothing
  <2>2. CASE slashes = {}
    <3>1. path = ""
      BY <2>2, Zenon
    <3> QED
      BY <2>1, <3>1, Zenon
  <2>3. CASE slashes # {}
    <3>1. path = From(url, Min(slashes))
      BY <2>3, Zenon
    <3> QED
      BY <1>2, <1>4, <2>3, <3>1
  <2> QED
    BY <2>2, <2>3
<1> HIDE DEF host, path
<1>7. domain \in Seq(C)
  BY <1>4, <1>5
<1>8. port \in Int
  <2>1. \A t \in Seq(C) : Port(t) \in Int
    BY AtoiInt DEF Port
  <2>2. CASE colons = {}
    BY <2>2
  <2>3. CASE colons # {}
    <3>1. From(host, Min(colons)) \in Seq(C)
      BY <1>4, <1>5, <2>3
    <3> QED
      BY <2>1, <2>3, <3>1
  <2> QED
    BY <2>2, <2>3
<1> HIDE DEF domain, port
<1> QED
  BY <1>1, <1>2, <1>6, <1>7, <1>8 DEF OurlsOf

(* Up to the first place of c. *)
Before(s, c) == IF Places(s, c) = {} THEN s ELSE SubSeq(s, 1, Min(Places(s, c)) - 1)

Behind(s, c) == IF Places(s, c) = {} THEN "" ELSE From(s, Min(Places(s, c)))

LEMMA BeforeIs ==
  ASSUME NEW C, NEW s \in Seq(C), NEW c
  PROVE  /\ Before(s, c) \in Seq(C) /\ Len(Before(s, c)) <= Len(s)
         /\ Places(Before(s, c), c) = {}
         /\ \A e : Places(s, e) = {} => Places(Before(s, c), e) = {}
<1>1. CASE Places(s, c) = {}
  BY <1>1 DEF Before
<1>2. CASE Places(s, c) # {}
  <2> DEFINE m == Min(Places(s, c))
             h == SubSeq(s, 1, m - 1)
  <2>1. Places(s, c) \subseteq 1 .. Len(s) /\ Places(s, c) \subseteq 0 .. Len(s) /\ Len(s) \in Nat
    BY PlacesIn
  <2>2. m \in 1 .. Len(s) /\ \A k \in Places(s, c) : m <= k
    BY <1>2, <2>1, Extremes
  <2>3. Before(s, c) = h
    BY <1>2 DEF Before
  <2> HIDE DEF m
  <2>4. 1 \in 1 .. (Len(s) + 1) /\ m - 1 \in (1 - 1) .. Len(s)
    BY <2>1, <2>2
  <2>5. /\ h \in Seq(C) /\ Len(h) = (m - 1) - 1 + 1
        /\ \A k \in 1 .. ((m - 1) - 1 + 1) : Char(h, k) = Char(s, 1 + k - 1)
    BY <2>4, PartIs
  <2> HIDE DEF h
  <2>6. Len(h) = m - 1 /\ \A k \in 1 .. Len(h) : k \in 1 .. Len(s) /\ k < m /\ Char(h, k) = Char(s, k)
    BY <2>1, <2>2, <2>5
  <2>7. Places(h, c) = {}
    BY <2>2, <2>6 DEF Places
  <2>8. ASSUME NEW e, Places(s, e) = {} PROVE Places(h, e) = {}
    BY <2>6, <2>8 DEF Places
  <2> QED
    BY <2>1, <2>2, <2>3, <2>5, <2>6, <2>7, <2>8
<1> QED
  BY <1>1, <1>2

LEMMA OurlParts ==
  ASSUME NEW s
  PROVE  /\ surl2Ourl(s).domain = Before(Before(s.url, "/"), ":")
         /\ surl2Ourl(s).path = Behind(s.url, "/")
         /\ surl2Ourl(s) = [domain |-> Before(Before(s.url, "/"), ":"),
                            port |-> IF Places(Before(s.url, "/"), ":") = {} THEN 80
                                     ELSE Port(From(Before(s.url, "/"),
                                                    Min(Places(Before(s.url, "/"), ":")))),
                            path |-> Behind(s.url, "/"),
                            level |-> s.level]
<1> DEFINE h == Before(s.url, "/")
           d == Before(h, ":")
           p == IF Places(h, ":") = {} THEN 80 ELSE Port(From(h, Min(Places(h, ":"))))
           w == Behind(s.url, "/")
           l == s.level
<1>1. surl2Ourl(s) = [domain |-> d, port |-> p, path |-> w, level |-> l]
  BY Zenon DEF surl2Ourl, Before, Behind
<1> HIDE DEF d, p, w, l
<1>2. surl2Ourl(s).domain = d /\ surl2Ourl(s).path = w
  BY <1>1
<1> QED
  BY <1>1, <1>2, Zenon DEF d, p, w, l

(* A host has no slash and no colon. *)
Plain(d) == Places(d, "/") = {} /\ Places(d, ":") = {}

LEMMA OurlPlain ==
  ASSUME NEW C, NEW s \in SurlsOf(C)
  PROVE  Plain(surl2Ourl(s).domain)
<1>1. s.url \in Seq(C)
  BY DEF SurlsOf
<1> DEFINE u == s.url
<1> HIDE DEF u
<1>2. u \in Seq(C)
  BY <1>1 DEF u
<1>3. Before(u, "/") \in Seq(C) /\ Places(Before(u, "/"), "/") = {}
  BY <1>2, BeforeIs, Zenon
<1> DEFINE h == Before(u, "/")
<1> HIDE DEF h
<1>4. h \in Seq(C) /\ Places(h, "/") = {}
  BY <1>3, Zenon DEF h
<1>5. Places(Before(h, ":"), "/") = {} /\ Places(Before(h, ":"), ":") = {}
  BY <1>4, BeforeIs, Zenon
<1>6. surl2Ourl(s).domain = Before(h, ":")
  BY OurlParts, Zenon DEF h, u
<1> QED
  BY <1>5, <1>6, Zenon DEF Plain

(* A request is no longer than the url it was made of. *)
LEMMA OurlFits ==
  ASSUME NEW C, Spelt(C), NEW s \in SurlsOf(C)
  PROVE  Len(surl2Ourl(s).domain) + Len(surl2Ourl(s).path) <= Len(s.url)
<1> DEFINE u == s.url
           c == "/"
           e == ":"
           P == Places(u, c)
           h == Before(u, c)
           d == Before(h, e)
           w == Behind(u, c)
<1>1. u \in Seq(C)
  BY DEF SurlsOf
<1>2. surl2Ourl(s).domain = d /\ surl2Ourl(s).path = w
  BY OurlParts, Zenon
<1>3. Nothing \in Seq(C) /\ Len(Nothing) = 0
  BY DEF Spelt
<1>4. w = IF P = {} THEN Nothing ELSE From(u, Min(P))
  BY Zenon DEF Behind, Nothing
<1>5. h = IF P = {} THEN u ELSE SubSeq(u, 1, Min(P) - 1)
  BY Zenon DEF Before
<1>6. P \subseteq 1 .. Len(u)
  <2> HIDE DEF u, c
  <2> QED
    BY <1>1, PlacesIn
<1> HIDE DEF u, c, e, P, w
<1>7. h \in Seq(C)
  BY <1>1, BeforeIs
<1> HIDE DEF h
<1>8. d \in Seq(C) /\ Len(d) <= Len(h)
  BY <1>7, BeforeIs
<1> HIDE DEF d
<1>9. Len(h) + Len(w) <= Len(u)
  <2>1. CASE P = {}
    BY <1>1, <1>3, <1>4, <1>5, <2>1
  <2>2. CASE P # {}
    <3>1. P \subseteq 0 .. Len(u) /\ Len(u) \in Nat
      BY <1>1, <1>6
    <3>2. Min(P) \in 1 .. Len(u)
      BY <1>6, <2>2, <3>1, Extremes
    <3>3. Min(P) - 1 \in 0 .. Len(u) /\ Min(P) \in 0 .. Len(u)
      BY <3>1, <3>2
    <3>4. Len(h) = Min(P) - 1
      BY <1>1, <1>5, <2>2, <3>3, UpToIs
    <3>5. Len(w) = Len(u) - Min(P)
      BY <1>1, <1>4, <2>2, <3>3, FromIs
    <3> QED
      BY <3>1, <3>2, <3>4, <3>5
  <2> QED
    BY <2>1, <2>2
<1>10. w \in Seq(C)
  <2>1. CASE P = {}
    BY <1>3, <1>4, <2>1
  <2>2. CASE P # {}
    <3>1. Min(P) \in Nat
      <4>1. P \subseteq 0 .. Len(u) /\ Len(u) \in Nat
        BY <1>1, <1>6
      <4>2. Min(P) \in 0 .. Len(u)
        BY <2>2, <4>1, Extremes
      <4> QED
        BY <4>1, <4>2
    <3> QED
      BY <1>1, <1>4, <2>2, <3>1, FromSeq
  <2> QED
    BY <2>1, <2>2
<1>11. Len(d) \in Nat /\ Len(h) \in Nat /\ Len(w) \in Nat /\ Len(u) \in Nat
  BY <1>1, <1>7, <1>8, <1>10
<1>12. Len(d) + Len(w) <= Len(u)
  BY ONLY <1>8, <1>9, <1>11
<1> QED
  BY <1>2, <1>12, Zenon DEF u

(* A url that begins with a host and goes on, if at all, with a slash, is  *)
(* asked of that host, at port 80.                                         *)
LEMMA HostFirst ==
  ASSUME NEW C, Spelt(C), NEW d \in Seq(C), Plain(d), NEW u \in Seq(C), IsPrefix(d, u),
         Len(u) > Len(d) => u[Len(d) + 1] = Slash[1], NEW l
  PROVE  surl2Ourl(Surl(u, l)) =
           [domain |-> d, port |-> 80, path |-> From(u, Len(d) + 1), level |-> l]
<1> DEFINE P == Places(u, Slash)
<1>1. Slash \in Seq(C) /\ Len(Slash) = 1 /\ Nothing \in Seq(C) /\ Len(Nothing) = 0
  BY DEF Spelt
<1>2. Len(d) <= Len(u) /\ \A i \in 1 .. Len(d) : d[i] = u[i]
  BY PrefixIs
<1>3. Places(d, Slash) = {} /\ Places(d, ":") = {}
  BY Zenon DEF Plain, Slash
<1>4. ASSUME NEW i \in 1 .. Len(d) PROVE i \in 1 .. Len(u) /\ i \notin P
  <2>1. i \in 1 .. Len(u) /\ d[i] = u[i]
    BY <1>2
  <2>2. Char(d, i) # Slash
    BY <1>3 DEF Places
  <2>3. Char(d, i) = Char(u, i)
    BY <2>1, CharSame
  <2> QED
    BY <2>1, <2>2, <2>3 DEF Places
<1>5. P \subseteq 1 .. Len(u) /\ P \subseteq 0 .. Len(u) /\ Len(u) \in Nat /\ Len(d) \in Nat
  BY PlacesIn
<1>6. Len(u) > Len(d) => Len(d) + 1 \in P
  <2> SUFFICES ASSUME Len(u) > Len(d) PROVE Len(d) + 1 \in P
    OBVIOUS
  <2>1. Len(d) + 1 \in 1 .. Len(u)
    BY <1>5
  <2>2. Char(u, Len(d) + 1) = Slash
    BY <1>1, <2>1, LetterAt
  <2> QED
    BY <2>1, <2>2 DEF Places
<1>7. Before(u, Slash) = d /\ Behind(u, Slash) = From(u, Len(d) + 1)
  <2>1. CASE Len(u) > Len(d)
    <3>1. Min(P) \in P /\ \A k \in P : Min(P) <= k
      BY <1>5, <1>6, <2>1, Extremes
    <3> DEFINE m == Min(P)
    <3> HIDE DEF P, m
    <3>2. m \in P /\ m <= Len(d) + 1
      BY <1>6, <2>1, <3>1 DEF m
    <3>3. m \in 1 .. Len(u) /\ m \notin 1 .. Len(d)
      BY <1>4, <1>5, <3>2
    <3>4. m = Len(d) + 1 /\ m - 1 = Len(d)
      BY <1>5, <3>2, <3>3
    <3>5. SubSeq(u, 1, Len(d)) = d
      <4>1. Len(d) \in 0 .. Len(u)
        BY <1>5, <2>1
      <4> DEFINE h == SubSeq(u, 1, Len(d))
      <4>2. h \in Seq(C) /\ Len(h) = Len(d) /\ \A i \in 1 .. Len(d) : h[i] = u[i]
        BY <4>1, UpToIs
      <4> HIDE DEF h
      <4>3. h = d
        BY <1>2, <4>2, SeqEqual
      <4> QED
        BY <4>3 DEF h
    <3>6. P # {}
      BY <3>1
    <3>7. Before(u, Slash) = SubSeq(u, 1, Min(P) - 1) /\ Behind(u, Slash) = From(u, Min(P))
      BY <3>6, Zenon DEF Before, Behind, P
    <3> QED
      BY <3>4, <3>5, <3>7, Zenon DEF m
  <2>2. CASE Len(u) <= Len(d)
    <3>1. Len(u) = Len(d)
      BY <1>2, <1>5, <2>2
    <3>2. u = d
      BY <1>2, <3>1, SeqEqual
    <3>3. P = {}
      BY <1>4, <1>5, <3>1
    <3>4. From(u, Len(d) + 1) = <<>>
      <4>1. Len(d) + 1 + 1 > Len(u)
        BY <1>5, <3>1
      <4> QED
        BY <4>1, SubSeqEmpty DEF From
    <3>5. Nothing = <<>>
      BY <1>1, EmptySeq
    <3>6. Before(u, Slash) = u /\ Behind(u, Slash) = Nothing
      BY <3>3, Zenon DEF Before, Behind, P, Nothing
    <3> QED
      BY <3>2, <3>4, <3>5, <3>6
  <2> QED
    BY <1>5, <2>1, <2>2
<1>8. Surl(u, l).url = u /\ Surl(u, l).level = l
  BY DEF Surl
<1>9. Before(u, "/") = d /\ Behind(u, "/") = From(u, Len(d) + 1)
  BY <1>7, Zenon DEF Slash
<1>10. Before(d, ":") = d
  BY <1>3, Zenon DEF Before
<1> QED
  BY <1>3, <1>8, <1>9, <1>10, OurlParts, Zenon

-----------------------------------------------------------------------------
LEMMA PrefixRest ==
  ASSUME NEW C, NEW s \in Seq(C), NEW t \in Seq(C), IsPrefix(s, t)
  PROVE  t = s \o From(t, Len(s)) /\ Len(s) \in 0 .. Len(t)
<1>1. Len(s) \in 0 .. Len(t) /\ SubSeq(t, 1, Len(s)) = s
  BY SubSeqFull DEF IsPrefix
<1>2. SubSeq(t, 1, Len(s)) \o SubSeq(t, Len(s) + 1, Len(t)) = SubSeq(t, 1, Len(t))
  <2>1. 1 \in 1 .. Len(t) + 1 /\ Len(s) \in (1 - 1) .. Len(t) /\ Len(t) \in Len(s) .. Len(t)
    BY <1>1
  <2> QED
    BY <2>1, ConcatAdjacentSubSeq
<1>3. SubSeq(t, 1, Len(t)) = t
  BY SubSeqFull
<1> QED
  BY <1>1, <1>2, <1>3, Zenon DEF From

(* Spaces are cut off the end of the second of two texts. *)
LEMMA SpacesBehind ==
  ASSUME NEW C, NEW d \in Seq(C), NEW s \in Seq(C), WithoutSpaces(s) # <<>>
  PROVE  WithoutSpaces(d \o s) = d \o WithoutSpaces(s)
<1> DEFINE t == d \o s
<1>1. /\ t \in Seq(C) /\ Len(t) = Len(d) + Len(s)
      /\ \A i \in 1 .. Len(d) + Len(s) : t[i] = IF i <= Len(d) THEN d[i] ELSE s[i - Len(d)]
  BY ConcatProperties
<1>2. PICK k \in 0 .. Len(s) :
        /\ WithoutSpaces(s) = SubSeq(s, 1, k)
        /\ k # 0 => Char(s, k) \notin Spaces
        /\ \A i \in (k + 1) .. Len(s) : Char(s, i) \in Spaces
  BY SpacesCut
<1> HIDE DEF t
<1>3. PICK m \in 0 .. Len(t) :
        /\ WithoutSpaces(t) = SubSeq(t, 1, m)
        /\ m # 0 => Char(t, m) \notin Spaces
        /\ \A i \in (m + 1) .. Len(t) : Char(t, i) \in Spaces
  BY <1>1, SpacesCut
<1>4. k # 0
  <2>1. SubSeq(s, 1, 0) = <<>>
    BY SubSeqEmpty
  <2> QED
    BY <1>2, <2>1
<1>5. Len(d) \in Nat /\ Len(s) \in Nat
  OBVIOUS
<1>6. ASSUME NEW i \in 1 .. Len(s) PROVE Char(t, Len(d) + i) = Char(s, i)
  <2>1. Len(d) + i \in 1 .. Len(t) /\ Len(d) + i \in 1 .. Len(d) + Len(s)
        /\ ~ (Len(d) + i <= Len(d)) /\ (Len(d) + i) - Len(d) = i
    BY <1>1, <1>5
  <2>2. t[Len(d) + i] = s[i]
    BY <1>1, <2>1
  <2> QED
    BY <1>1, <2>1, <2>2, CharSame
<1>7. m = Len(d) + k
  <2>1. CASE m < Len(d) + k
    <3>1. Len(d) + k \in (m + 1) .. Len(t) /\ k \in 1 .. Len(s)
      BY <1>1, <1>4, <1>5, <2>1
    <3> QED
      BY <1>2, <1>3, <1>4, <1>6, <3>1
  <2>2. CASE m > Len(d) + k
    <3>1. m - Len(d) \in (k + 1) .. Len(s) /\ m - Len(d) \in 1 .. Len(s) /\ m # 0
          /\ Len(d) + (m - Len(d)) = m
      BY <1>1, <1>5, <2>2
    <3> QED
      BY <1>2, <1>3, <1>6, <3>1
  <2> QED
    BY <1>5, <2>1, <2>2
<1> DEFINE l == SubSeq(s, 1, k)
           w == SubSeq(t, 1, m)
<1>8. l \in Seq(C) /\ Len(l) = k /\ \A i \in 1 .. k : l[i] = s[i]
  BY UpToIs
<1>9. w \in Seq(C) /\ Len(w) = m /\ \A i \in 1 .. m : w[i] = t[i]
  BY <1>1, UpToIs
<1> HIDE DEF l, w
<1>10. /\ d \o l \in Seq(C) /\ Len(d \o l) = Len(d) + Len(l)
       /\ \A i \in 1 .. Len(d) + Len(l) : (d \o l)[i] = IF i <= Len(d) THEN d[i] ELSE l[i - Len(d)]
  BY <1>8, ConcatProperties
<1>11. ASSUME NEW i \in 1 .. Len(w) PROVE w[i] = (d \o l)[i]
  <2>1. i \in 1 .. m /\ i \in 1 .. Len(d) + Len(l) /\ i \in 1 .. Len(d) + Len(s)
    BY <1>5, <1>7, <1>8, <1>9
  <2>2. w[i] = IF i <= Len(d) THEN d[i] ELSE s[i - Len(d)]
    BY <1>1, <1>9, <2>1
  <2>3. ~ (i <= Len(d)) => i - Len(d) \in 1 .. k
    BY <1>5, <1>7, <2>1
  <2> QED
    BY <1>8, <1>10, <2>1, <2>2, <2>3
<1>12. w = d \o l
  BY <1>7, <1>8, <1>9, <1>10, <1>11, SeqEqual
<1> QED
  BY <1>2, <1>3, <1>12 DEF l, w, t

(* What is left of a text without its scheme and its last slash.           *)
LEMMA CutBoth ==
  ASSUME NEW C, Spelt(C), NEW p \in Seq(C), NEW t \in Seq(C), IsPrefix(p, t),
         SchemeLen(t) = Len(p)
  PROVE  LET a == WithoutSlash(From(t, SchemeLen(t)))
         IN  t = p \o a \/ t = p \o (a \o Slash)
<1> DEFINE a == WithoutSlash(From(t, SchemeLen(t)))
<1>1. t = p \o From(t, Len(p)) /\ Len(p) \in 0 .. Len(t)
  BY PrefixRest
<1>2. From(t, Len(p)) \in Seq(C)
  BY <1>1, FromIs
<1>3. From(t, Len(p)) = a \/ From(t, Len(p)) = a \o Slash
  BY <1>2, SlashCut
<1> QED
  BY <1>1, <1>3

(* A link with a scheme means what follows it, but for "http://" alone.    *)
LEMMA SchemeMeans ==
  ASSUME NEW C, Spelt(C), NEW raw \in Seq(C), NEW d \in Seq(C), Target(raw, d) # Null,
         NEW S \in {Http2, Https}, IsPrefix(S, WithoutSpaces(raw)),
         WithoutSpaces(raw) # Http2
  PROVE  WithoutSpaces(raw) \in {S \o Target(raw, d), S \o (Target(raw, d) \o Slash)}
<1> DEFINE link == WithoutSpaces(raw)
<1>1. PICK k \in 0 .. Len(raw) : link = SubSeq(raw, 1, k)
  BY SpacesCut
<1>2. link \in Seq(C) /\ Len(link) = k /\ \A i \in 1 .. k : link[i] = raw[i]
  BY <1>1, UpToIs
<1> HIDE DEF link
<1>3. IsPrefix(S, link) /\ link # Http2
  BY DEF link
<1>4. /\ S \in Seq(C) /\ Http \in Seq(C) /\ Ess \in Seq(C) /\ Len(Ess) = 1
      /\ Len(Http) = 4 /\ IsPrefix(Http, S)
      /\ Len(S) = IF S = Https THEN 8 ELSE 7
      /\ Char(S, 5) = Ess <=> S = Https
  <2>1. Https # Http2
    BY DEF Spelt
  <2> QED
    BY <2>1 DEF Spelt
<1>5. Len(S) \in {7, 8}
  BY <1>4
<1>6. Len(S) <= Len(link) /\ \A i \in 1 .. Len(S) : S[i] = link[i]
  <2>1. S \in Seq(C) /\ link \in Seq(C) /\ IsPrefix(S, link)
    BY <1>2, <1>3, <1>4
  <2> QED
    BY <2>1, PrefixIs
<1>7. Len(link) > 7
  <2>1. Len(S) <= Len(link)
    BY <1>6
  <2>2. S # Https => Len(S) # Len(link)
    BY <1>2, <1>3, <1>4, <1>6, SeqEqual
  <2> QED
    BY <1>2, <1>4, <2>1, <2>2
<1>a. Len(S) \in Nat /\ 7 <= Len(S) /\ Len(S) <= k /\ k > 7 /\ k \in Nat /\ k <= Len(raw)
  <2>1. Len(S) \in Nat /\ 7 <= Len(S)
    <3>1. \A n \in {7, 8} : n \in Nat /\ 7 <= n
      OBVIOUS
    <3> QED
      BY <1>5, <3>1, Zenon
  <2>2. k \in Nat /\ k <= Len(raw) /\ Len(link) = k
    BY <1>2
  <2> QED
    BY <1>6, <1>7, <2>1, <2>2
<1>b. 5 \in 1 .. Len(S) /\ 5 \in 1 .. k /\ k > 7
      /\ \A i \in 1 .. 4 : i \in 1 .. Len(S) /\ i \in 1 .. k
  BY ONLY <1>a
<1>8. \A i \in 1 .. 4 : Http[i] = S[i]
  <2>1. \A i \in 1 .. Len(Http) : Http[i] = S[i]
    <3>1. Http \in Seq(C) /\ S \in Seq(C) /\ IsPrefix(Http, S)
      BY <1>4
    <3> QED
      BY <3>1, PrefixIs
  <2>2. Len(Http) = 4
    BY <1>4
  <2> QED
    BY ONLY <2>1, <2>2
<1>9. IsPrefix(Http, link) /\ IsPrefix(Http, raw)
  <2>1. \A i \in 1 .. 4 : Http[i] = link[i] /\ Http[i] = raw[i]
    BY <1>2, <1>6, <1>8, <1>b
  <2>2. Len(Http) = 4
    BY <1>4
  <2>3. \A i \in 1 .. Len(Http) : Http[i] = link[i] /\ Http[i] = raw[i]
    BY ONLY <2>1, <2>2
  <2>4. Len(Http) <= Len(link) /\ Len(Http) <= Len(raw)
    BY <1>2, <1>a, <2>2
  <2> QED
    BY <1>2, <1>4, <2>3, <2>4, PrefixIs
<1>10. Target(raw, d) = Stripped(raw)
  BY <1>9, TargetIs, AttachIs
<1>11. SchemeLen(link) = Len(S)
  <2>1. 5 \in 1 .. Len(S) /\ 5 \in 1 .. Len(link) /\ Len(link) > 7 /\ link[5] = S[5]
    BY <1>b, <1>2, <1>6
  <2>2. Char(link, 5) = Char(S, 5)
    <3>1. S \in Seq(C)
      BY <1>4
    <3> QED
      BY <1>2, <2>1, <3>1, CharSame
  <2>3. SchemeLen(link) = IF Char(link, 5) = Ess THEN 8 ELSE 7
    BY <1>2, <1>9, <2>1, SchemeLenIs
  <2> QED
    BY <1>4, <2>2, <2>3
<1>12. Target(raw, d) = WithoutSlash(From(link, SchemeLen(link)))
  BY <1>10 DEF Stripped, link
<1>13. link = S \o Target(raw, d) \/ link = S \o (Target(raw, d) \o Slash)
  <2>1. S \in Seq(C) /\ link \in Seq(C)
    BY <1>2, <1>4
  <2> QED
    BY <1>3, <1>11, <1>12, <2>1, CutBoth, Zenon
<1> QED
  BY <1>13 DEF link

(* No letter of "http" is a slash. *)
LEMMA HttpNoSlash ==
  ASSUME NEW C, Spelt(C)
  PROVE  \A i \in 1 .. 4 : Http[i] # Slash[1]
<1> SUFFICES ASSUME NEW i \in 1 .. 4 PROVE Http[i] # Slash[1]
  OBVIOUS
<1>1. Http \in Seq(C) /\ Len(Http) = 4 /\ Slash \in Seq(C) /\ Len(Slash) = 1
  BY DEF Spelt
<1>2. i \in 1 .. Len(Http) /\ Char(Http, i) # Slash
  BY <1>1 DEF Spelt, Places
<1> QED
  BY <1>1, <1>2, LetterAt

(* What a text is that begins with a slash. *)
LEMMA Rooted ==
  ASSUME NEW C, Spelt(C), NEW s \in Seq(C), IsPrefix(Slash, s)
  PROVE  Len(s) >= 1 /\ s[1] = Slash[1] /\ ~IsPrefix(Http, s)
<1>1. /\ Http \in Seq(C) /\ Len(Http) = 4 /\ Slash \in Seq(C) /\ Len(Slash) = 1
  BY DEF Spelt
<1>2. Len(Slash) <= Len(s) /\ \A i \in 1 .. Len(Slash) : Slash[i] = s[i]
  <2>1. Slash \in Seq(C)
    BY <1>1
  <2> QED
    BY <2>1, PrefixIs
<1>3. Len(s) >= 1 /\ s[1] = Slash[1]
  BY <1>1, <1>2
<1>4. IsPrefix(Http, s) => Http[1] = s[1]
  <2>1. IsPrefix(Http, s) => \A i \in 1 .. Len(Http) : Http[i] = s[i]
    <3>1. Http \in Seq(C)
      BY <1>1
    <3> QED
      BY <3>1, PrefixIs
  <2>2. 1 \in 1 .. Len(Http)
    BY <1>1
  <2> QED
    BY <2>1, <2>2, Zenon
<1> QED
  BY <1>3, <1>4, HttpNoSlash

(* A link from the root behind its page's host d: how much is taken for    *)
(* the scheme.                                                             *)
Cut(d, link) == IsPrefix(Http, d) /\ Len(d \o link) > 7

LEMMA RootTarget ==
  ASSUME NEW C, Spelt(C), NEW raw \in Seq(C), NEW d \in Seq(C), Target(raw, d) # Null,
         IsPrefix(Slash, WithoutSpaces(raw))
  PROVE  LET link == WithoutSpaces(raw)
             t == d \o link
         IN  /\ link \in Seq(C) /\ t \in Seq(C)
             /\ Target(raw, d) = WithoutSlash(From(t, SchemeLen(t)))
             /\ SchemeLen(t) \in IF Cut(d, link) THEN {7, 8} ELSE {0}
<1> DEFINE link == WithoutSpaces(raw)
           t == d \o link
<1>1. PICK k \in 0 .. Len(raw) : link = SubSeq(raw, 1, k)
  BY SpacesCut
<1>2. link \in Seq(C) /\ Len(link) = k /\ \A i \in 1 .. k : link[i] = raw[i]
  BY <1>1, UpToIs
<1> HIDE DEF link
<1>3. Http \in Seq(C) /\ Slash \in Seq(C) /\ Len(Slash) = 1 /\ Len(Http) = 4
  BY DEF Spelt
<1>4. Len(link) >= 1 /\ link[1] = Slash[1]
  <2>1. IsPrefix(Slash, link)
    BY DEF link
  <2> QED
    BY <1>2, <2>1, Rooted
<1>5. \A i \in 1 .. 4 : Http[i] # Slash[1]
  BY HttpNoSlash
<1>6. ~IsPrefix(Http, raw)
  <2>1. raw[1] = Slash[1]
    BY <1>2, <1>4
  <2>2. IsPrefix(Http, raw) => Http[1] = raw[1]
    <3>1. IsPrefix(Http, raw) => \A i \in 1 .. Len(Http) : Http[i] = raw[i]
      <4>1. Http \in Seq(C)
        BY <1>3
      <4> QED
        BY <4>1, PrefixIs
    <3>2. 1 \in 1 .. Len(Http)
      BY <1>3
    <3> QED
      BY <3>1, <3>2, Zenon
  <2> QED
    BY <1>5, <2>1, <2>2
<1>7. Target(raw, d) = Stripped(d \o raw)
  <2>1. attach_domain(raw, d) # Null /\ Target(raw, d) = Stripped(attach_domain(raw, d))
    BY TargetIs
  <2>2. attach_domain(raw, d) = d \o raw
    BY <1>6, <2>1, AttachIs
  <2> QED
    BY <2>1, <2>2
<1>8. WithoutSpaces(d \o raw) = t
  <2>1. link # <<>>
    BY <1>2, <1>4
  <2> QED
    BY <2>1, SpacesBehind DEF link
<1>9. /\ t \in Seq(C) /\ Len(t) = Len(d) + Len(link)
      /\ \A i \in 1 .. Len(d) + Len(link) : t[i] = IF i <= Len(d) THEN d[i] ELSE link[i - Len(d)]
  BY <1>2, ConcatProperties
<1>c. Cut(d, link) <=> IsPrefix(Http, d) /\ Len(t) > 7
  BY Zenon DEF Cut, t
<1> HIDE DEF t
<1>10. IsPrefix(Http, t) <=> IsPrefix(Http, d)
  <2>a. IsPrefix(Http, t) <=> Len(Http) <= Len(t) /\ \A i \in 1 .. Len(Http) : Http[i] = t[i]
    <3>1. Http \in Seq(C) /\ t \in Seq(C)
      BY <1>3, <1>9
    <3> QED
      BY <3>1, PrefixIs
  <2>b. IsPrefix(Http, d) <=> Len(Http) <= Len(d) /\ \A i \in 1 .. Len(Http) : Http[i] = d[i]
    <3>1. Http \in Seq(C)
      BY <1>3
    <3> QED
      BY <3>1, PrefixIs
  <2>c. Len(Http) = 4 /\ Len(d) \in Nat /\ Len(link) \in Nat
    BY <1>2, <1>3
  <2>1. CASE Len(d) >= 4
    <3>1. \A i \in 1 .. 4 : t[i] = d[i]
      BY <1>9, <2>1, <2>c
    <3>2. 4 <= Len(t)
      BY <1>9, <2>1, <2>c
    <3> QED
      BY ONLY <2>1, <2>a, <2>b, <2>c, <3>1, <3>2
  <2>2. CASE Len(d) < 4
    <3>1. Len(d) + 1 \in 1 .. 4 /\ Len(d) + 1 \in 1 .. Len(d) + Len(link)
          /\ ~ (Len(d) + 1 <= Len(d)) /\ (Len(d) + 1) - Len(d) = 1
      BY <1>4, <2>2, <2>c
    <3>2. t[Len(d) + 1] = Slash[1]
      BY <1>4, <1>9, <3>1
    <3> QED
      BY <1>5, <2>2, <2>a, <2>b, <2>c, <3>1, <3>2
  <2> QED
    BY <2>1, <2>2, <2>c
<1>11. SchemeLen(t) \in IF Cut(d, link) THEN {7, 8} ELSE {0}
  BY <1>9, <1>10, <1>c, SchemeLenIs
<1>12. Target(raw, d) = WithoutSlash(From(t, SchemeLen(t)))
  BY <1>7, <1>8 DEF Stripped
<1> QED
  BY <1>2, <1>9, <1>11, <1>12 DEF t, link

(* What was cut is too short for a url of the page's host. *)
LEMMA CutShort ==
  ASSUME NEW C, Spelt(C), NEW d \in Seq(C), NEW link \in Seq(C), NEW a,
         a = WithoutSlash(From(d \o link, SchemeLen(d \o link))),
         SchemeLen(d \o link) \in {7, 8}, NEW u \in {a, a \o Slash}
  PROVE  u \in Seq(C) /\ Len(u) + 6 <= Len(d) + Len(link)
<1> DEFINE t == d \o link
           n == SchemeLen(t)
<1>1. t \in Seq(C) /\ Len(t) = Len(d) + Len(link) /\ Len(d) \in Nat /\ Len(link) \in Nat
  BY ConcatProperties
<1> HIDE DEF t
<1>2. n \in 0 .. Len(t) /\ n >= 7
  <2>1. n \in {7, 8}
    BY DEF t
  <2> QED
    BY <1>1, <2>1, SchemeLenIs
<1> HIDE DEF n
<1>3. From(t, n) \in Seq(C) /\ Len(From(t, n)) = Len(t) - n
  BY <1>1, <1>2, FromIs
<1> DEFINE r == From(t, n)
<1> HIDE DEF r
<1>4. r \in Seq(C) /\ Len(r) = Len(t) - n /\ a = WithoutSlash(r)
  BY <1>3 DEF r, n, t
<1>5. a \in Seq(C) /\ Len(a) <= Len(r)
  BY <1>4, SlashCut
<1>6. Slash \in Seq(C) /\ Len(Slash) = 1
  BY DEF Spelt
<1>7. u \in Seq(C) /\ Len(u) <= Len(a) + 1
  <2>1. a \o Slash \in Seq(C) /\ Len(a \o Slash) = Len(a) + Len(Slash)
    <3>1. a \in Seq(C) /\ Slash \in Seq(C)
      BY <1>5, <1>6
    <3> QED
      BY <3>1, ConcatProperties
  <2>2. Len(a) \in Nat
    BY <1>5
  <2>3. Len(a) <= Len(a) + 1 /\ Len(a \o Slash) <= Len(a) + 1
    BY <1>6, <2>1, <2>2
  <2> QED
    BY <1>5, <2>1, <2>3, Zenon
<1>8. Len(a) \in Nat /\ Len(u) \in Nat
  BY <1>5, <1>7
<1> QED
  BY <1>1, <1>2, <1>4, <1>5, <1>7, <1>8

(* Where nothing is cut, both forms are urls of the page's host, and one   *)
(* of them is the link behind it.                                          *)
OfHost(C, d, u, n) ==
  /\ u \in Seq(C) /\ Len(u) + 1 >= n /\ IsPrefix(d, u)
  /\ Len(u) > Len(d) => u[Len(d) + 1] = Slash[1]

LEMMA KeptForms ==
  ASSUME NEW C, Spelt(C), NEW d \in Seq(C), NEW link \in Seq(C), IsPrefix(Slash, link), NEW a,
         a = WithoutSlash(From(d \o link, SchemeLen(d \o link))), SchemeLen(d \o link) = 0
  PROVE  /\ d \o link \in {a, a \o Slash}
         /\ \A u \in {a, a \o Slash} : OfHost(C, d, u, Len(d) + Len(link))
<1> DEFINE t == d \o link
<1>0. Len(link) >= 1 /\ link[1] = Slash[1]
  BY Rooted
<1>1. /\ t \in Seq(C) /\ Len(t) = Len(d) + Len(link) /\ Len(d) \in Nat /\ Len(link) \in Nat
      /\ \A i \in 1 .. Len(d) + Len(link) : t[i] = IF i <= Len(d) THEN d[i] ELSE link[i - Len(d)]
  BY ConcatProperties
<1>2. a = WithoutSlash(From(t, 0))
  OBVIOUS
<1> HIDE DEF t
<1>3. From(t, 0) = t
  <2>1. SubSeq(t, 1, Len(t)) = t
    BY <1>1, SubSeqFull
  <2> QED
    BY <2>1 DEF From
<1>4. /\ a \in Seq(C) /\ Len(a) <= Len(t)
      /\ a = t \/ t = a \o Slash
  <2>1. a = WithoutSlash(t)
    BY <1>2, <1>3, Zenon
  <2>2. /\ WithoutSlash(t) \in Seq(C) /\ Len(WithoutSlash(t)) <= Len(t)
        /\ WithoutSlash(t) = t \/ t = WithoutSlash(t) \o Slash
    BY <1>1, SlashCut, Zenon
  <2> QED
    BY <2>1, <2>2, Zenon
<1>5. Slash \in Seq(C) /\ Len(Slash) = 1
  BY DEF Spelt
<1>6. /\ a \o Slash \in Seq(C) /\ Len(a \o Slash) = Len(a) + 1 /\ Len(a) \in Nat
      /\ \A i \in 1 .. Len(a) + 1 : (a \o Slash)[i] = IF i <= Len(a) THEN a[i] ELSE Slash[i - Len(a)]
  <2>1. /\ a \o Slash \in Seq(C) /\ Len(a \o Slash) = Len(a) + Len(Slash)
        /\ \A i \in 1 .. Len(a) + Len(Slash) :
             (a \o Slash)[i] = IF i <= Len(a) THEN a[i] ELSE Slash[i - Len(a)]
    <3>1. a \in Seq(C) /\ Slash \in Seq(C)
      BY <1>4, <1>5
    <3> QED
      BY <3>1, ConcatProperties
  <2> QED
    BY <1>4, <1>5, <2>1
<1> DEFINE b == a \o Slash
<1> HIDE DEF b
<1>7. /\ b \in Seq(C) /\ Len(b) = Len(a) + 1
      /\ \A i \in 1 .. Len(a) : b[i] = a[i]
  <2>1. \A i \in 1 .. Len(a) : i \in 1 .. Len(a) + 1 /\ i <= Len(a)
    BY <1>6
  <2> QED
    BY <1>6, <2>1 DEF b
<1>8. b[Len(a) + 1] = Slash[1]
  <2>1. Len(a) + 1 \in 1 .. Len(a) + 1 /\ ~ (Len(a) + 1 <= Len(a)) /\ Len(a) + 1 - Len(a) = 1
    BY <1>6
  <2> QED
    BY <1>6, <2>1 DEF b
<1>9. a = t \/ t = b
  BY <1>4 DEF b
<1>10. Len(a) + 1 >= Len(t) /\ Len(a) >= Len(d)
  BY <1>0, <1>1, <1>4, <1>6, <1>7, <1>9
<1>11. \A i \in 1 .. Len(d) : a[i] = d[i]
  <2> TAKE i \in 1 .. Len(d)
  <2>1. i \in 1 .. Len(a) /\ i \in 1 .. Len(d) + Len(link) /\ i <= Len(d)
    BY <1>1, <1>6, <1>10
  <2>2. t[i] = d[i]
    BY <1>1, <2>1
  <2>3. a[i] = t[i]
    BY <1>7, <1>9, <2>1
  <2> QED
    BY <2>2, <2>3
<1>12. t[Len(d) + 1] = Slash[1]
  <2>1. Len(d) + 1 \in 1 .. Len(d) + Len(link) /\ ~ (Len(d) + 1 <= Len(d)) /\ Len(d) + 1 - Len(d) = 1
    BY <1>0, <1>1
  <2> QED
    BY <1>0, <1>1, <2>1
<1>13. Len(a) > Len(d) => a[Len(d) + 1] = Slash[1]
  <2> SUFFICES ASSUME Len(a) > Len(d) PROVE a[Len(d) + 1] = Slash[1]
    OBVIOUS
  <2>1. Len(d) + 1 \in 1 .. Len(a)
    BY <1>1, <1>6
  <2>2. a[Len(d) + 1] = t[Len(d) + 1]
    BY <1>7, <1>9, <2>1
  <2> QED
    BY <1>12, <2>2
<1>14. IsPrefix(d, a)
  BY <1>4, <1>10, <1>11, PrefixIs
<1>15. IsPrefix(d, b)
  <2>1. \A i \in 1 .. Len(d) : b[i] = d[i]
    <3> TAKE i \in 1 .. Len(d)
    <3>1. i \in 1 .. Len(a)
      BY <1>1, <1>6, <1>10
    <3> QED
      BY <1>7, <1>11, <3>1
  <2>2. Len(d) <= Len(b)
    BY <1>1, <1>6, <1>7, <1>10
  <2> QED
    BY <1>7, <2>1, <2>2, PrefixIs
<1>16. b[Len(d) + 1] = Slash[1]
  <2>1. CASE Len(a) > Len(d)
    <3>1. Len(d) + 1 \in 1 .. Len(a)
      BY <1>1, <1>6, <2>1
    <3> QED
      BY <1>7, <1>13, <2>1, <3>1
  <2>2. CASE Len(a) = Len(d)
    BY <1>8, <2>2
  <2> QED
    BY <1>1, <1>6, <1>10, <2>1, <2>2
<1>17. Len(a) + 1 >= Len(d) + Len(link) /\ Len(b) + 1 >= Len(d) + Len(link)
  BY <1>1, <1>6, <1>7, <1>10
<1>18. \A u \in {a, b} : OfHost(C, d, u, Len(d) + Len(link))
  BY <1>4, <1>7, <1>13, <1>14, <1>15, <1>16, <1>17, Zenon DEF OfHost
<1> QED
  BY <1>9, <1>18, Zenon DEF b, t

LEMMA ConcatFrom ==
  ASSUME NEW C, NEW d \in Seq(C), NEW s \in Seq(C), Len(s) >= 1
  PROVE  From(d \o s, Len(d) + 1) = From(s, 1)
<1> DEFINE t == d \o s
           v == From(t, Len(d) + 1)
           w == From(s, 1)
<1>1. /\ t \in Seq(C) /\ Len(t) = Len(d) + Len(s) /\ Len(d) \in Nat /\ Len(s) \in Nat
      /\ \A i \in 1 .. Len(d) + Len(s) : t[i] = IF i <= Len(d) THEN d[i] ELSE s[i - Len(d)]
  BY ConcatProperties
<1> HIDE DEF t
<1>2. Len(d) + 1 \in 0 .. Len(t) /\ 1 \in 0 .. Len(s)
  BY <1>1
<1>3. /\ v \in Seq(C) /\ Len(v) = Len(t) - (Len(d) + 1)
      /\ \A i \in 1 .. (Len(t) - (Len(d) + 1)) : v[i] = t[(Len(d) + 1) + i]
  BY <1>1, <1>2, FromIs
<1>4. w \in Seq(C) /\ Len(w) = Len(s) - 1 /\ \A i \in 1 .. (Len(s) - 1) : w[i] = s[1 + i]
  BY <1>2, FromIs
<1> HIDE DEF v, w
<1>5. Len(v) = Len(w)
  BY <1>1, <1>3, <1>4
<1>6. ASSUME NEW i \in 1 .. Len(v) PROVE v[i] = w[i]
  <2>1. /\ i \in 1 .. (Len(s) - 1) /\ i \in 1 .. (Len(t) - (Len(d) + 1))
        /\ (Len(d) + 1) + i \in 1 .. Len(d) + Len(s) /\ ~ ((Len(d) + 1) + i <= Len(d))
        /\ ((Len(d) + 1) + i) - Len(d) = 1 + i
    BY <1>1, <1>3
  <2>2. v[i] = s[1 + i]
    BY <1>1, <1>3, <2>1
  <2> QED
    BY <1>4, <2>1, <2>2
<1>7. v = w
  BY <1>3, <1>4, <1>5, <1>6, SeqEqual
<1> QED
  BY <1>7 DEF v, w, t

LEMMA ConcatPrefix ==
  ASSUME NEW C, NEW s \in Seq(C), NEW u \in Seq(C)
  PROVE  IsPrefix(s, s \o u) /\ Len(s \o u) = Len(s) + Len(u) /\ s \o u \in Seq(C)
<1> DEFINE v == s \o u
<1>1. /\ v \in Seq(C) /\ Len(v) = Len(s) + Len(u) /\ Len(s) \in Nat /\ Len(u) \in Nat
      /\ \A i \in 1 .. Len(s) + Len(u) : v[i] = IF i <= Len(s) THEN s[i] ELSE u[i - Len(s)]
  BY ConcatProperties
<1> HIDE DEF v
<1>2. \A i \in 1 .. Len(s) : i \in 1 .. Len(s) + Len(u) /\ i <= Len(s)
  BY <1>1
<1>3. \A i \in 1 .. Len(s) : s[i] = v[i]
  BY <1>1, <1>2
<1>4. IsPrefix(s, v)
  BY <1>1, <1>3, PrefixIs
<1> QED
  BY <1>1, <1>4 DEF v

(* A text from the root has no scheme. *)
LEMMA RootNoScheme ==
  ASSUME NEW C, Spelt(C), NEW link \in Seq(C), IsPrefix(Slash, link), NEW S \in {Http2, Https}
  PROVE  ~IsPrefix(S, link)
<1>1. /\ S \in Seq(C) /\ Http \in Seq(C) /\ IsPrefix(Http, S)
  BY DEF Spelt
<1>2. IsPrefix(S, link) => Len(S) <= Len(link) /\ \A i \in 1 .. Len(S) : S[i] = link[i]
  BY <1>1, PrefixIs
<1>3. Len(Http) <= Len(S) /\ \A i \in 1 .. Len(Http) : Http[i] = S[i]
  BY <1>1, PrefixIs
<1>4. Len(Http) \in Nat /\ Len(S) \in Nat /\ Len(link) \in Nat
  BY <1>1
<1>5. IsPrefix(S, link) => IsPrefix(Http, link)
  <2> SUFFICES ASSUME IsPrefix(S, link) PROVE IsPrefix(Http, link)
    OBVIOUS
  <2>1. Len(Http) <= Len(link) /\ \A i \in 1 .. Len(Http) : Http[i] = link[i]
    BY <1>2, <1>3, <1>4
  <2> QED
    BY <1>1, <2>1, PrefixIs
<1> QED
  BY <1>5, Rooted

(* Means, Misread and Spoken with the literals by name. *)
Rerooted(p, link) == [p EXCEPT !.path = From(link, 1)]

LEMMA MeansIs ==
  ASSUME NEW link, NEW p, NEW u
  PROVE  Means(link, p, u) <=>
           \/ \E S \in {Http2, Https} : link = S \o u
           \/ link = NoServer \o u
           \/ /\ IsPrefix(Slash, link) /\ ~IsPrefix(NoServer, link)
              /\ surl2Ourl(Surl(u, p.level)) = Rerooted(p, link)
<1>1. Schemes = {Http2, Https}
  BY Zenon DEF Schemes, Http2, Https
<1>2. Means(link, p, u) <=>
        \/ \E S \in Schemes \cup {NoServer} : link = S \o u
        \/ /\ IsPrefix(Slash, link) /\ ~IsPrefix(NoServer, link)
           /\ surl2Ourl(Surl(u, p.level)) = Rerooted(p, link)
  BY Zenon DEF Means, Slash, Rerooted
<1> QED
  BY <1>1, <1>2, Zenon

LEMMA MisreadIs ==
  ASSUME NEW link, NEW p
  PROVE  Misread(link, p) <=>
           /\ IsPrefix(Slash, link)
           /\ IsPrefix(NoServer, link) \/ p.port # 80 \/ Cut(p.domain, link)
  BY Zenon DEF Misread, Slash, Cut, Http

LEMMA SpokenIs ==
  ASSUME NEW link, NEW p
  PROVE  Spoken(link, p) <=>
           \/ /\ link # Http2
              /\ \E S \in {Http2, Https} : IsPrefix(S, link)
           \/ IsPrefix(Slash, link) /\ ~(IsPrefix(NoServer, link) /\ IsPrefix(Http, p.domain))
<1>1. Schemes = {Http2, Https}
  BY Zenon DEF Schemes, Http2, Https
<1>2. Spoken(link, p) <=>
        \/ link # Http2 /\ Absolute(link)
        \/ IsPrefix(Slash, link) /\ ~(IsPrefix(NoServer, link) /\ IsPrefix(Http, p.domain))
  BY Zenon DEF Spoken, Slash, Http, Http2
<1> QED
  BY <1>1, <1>2, Zenon DEF Absolute

(* A link from the root means one of the forms of what is asked, unless it *)
(* is misread.                                                             *)
LEMMA RootMeans ==
  ASSUME NEW C, Spelt(C), NEW raw \in Seq(C), NEW p \in OurlsOf(C), Plain(p.domain),
         Target(raw, p.domain) # Null, IsPrefix(Slash, WithoutSpaces(raw)),
         Spoken(WithoutSpaces(raw), p), NEW a, a = Target(raw, p.domain)
  PROVE  (\E u \in {a, a \o Slash} : Means(WithoutSpaces(raw), p, u))
           <=> ~Misread(WithoutSpaces(raw), p)
<1> DEFINE d == p.domain
           link == WithoutSpaces(raw)
           n == SchemeLen(d \o link)
<1>1. d \in Seq(C) /\ Plain(d) /\ p.level \in Nat
  BY DEF OurlsOf
<1>2. /\ link \in Seq(C) /\ a = WithoutSlash(From(d \o link, n))
      /\ n \in IF Cut(d, link) THEN {7, 8} ELSE {0}
  BY <1>1, RootTarget
<1>3. IsPrefix(Slash, link) /\ Spoken(link, p)
  OBVIOUS
<1> HIDE DEF link
<1>4. Misread(link, p) <=> IsPrefix(NoServer, link) \/ p.port # 80 \/ Cut(d, link)
  BY <1>3, MisreadIs, Zenon
<1>5. \A S \in {Http2, Https} : ~IsPrefix(S, link)
  BY <1>2, <1>3, RootNoScheme
<1>6. ~(IsPrefix(NoServer, link) /\ IsPrefix(Http, d))
  BY <1>3, <1>5, SpokenIs, Zenon
<1>7. Len(link) >= 1 /\ link[1] = Slash[1] /\ Len(d) \in Nat /\ Len(link) \in Nat
  BY <1>1, <1>2, <1>3, Rooted
<1>8. ASSUME NEW u \in Seq(C), Means(link, p, u)
      PROVE  \/ link = NoServer \o u
             \/ ~IsPrefix(NoServer, link) /\ surl2Ourl(Surl(u, p.level)) = Rerooted(p, link)
  <2>1. \A S \in {Http2, Https} : link # S \o u
    <3> SUFFICES ASSUME NEW S \in {Http2, Https}, link = S \o u PROVE FALSE
      OBVIOUS
    <3>1. S \in Seq(C)
      BY DEF Spelt
    <3>2. IsPrefix(S, link)
      BY <3>1, ConcatPrefix
    <3> QED
      BY <1>5, <3>2
  <2> QED
    BY <1>8, <2>1, MeansIs, Zenon
<1>9. ASSUME NEW u \in Seq(C), link = NoServer \o u
      PROVE  IsPrefix(NoServer, link) /\ Len(link) = 2 + Len(u)
  <2>1. NoServer \in Seq(C) /\ Len(NoServer) = 2
    BY DEF Spelt
  <2> QED
    BY <1>9, <2>1, ConcatPrefix
<1>r. /\ Rerooted(p, link) = [domain |-> d, port |-> p.port, path |-> From(link, 1), level |-> p.level]
      /\ Rerooted(p, link).domain = d /\ Rerooted(p, link).port = p.port
      /\ Rerooted(p, link).path = From(link, 1) /\ Len(From(link, 1)) = Len(link) - 1
  <2>1. 1 \in 0 .. Len(link)
    BY <1>7
  <2>2. Len(From(link, 1)) = Len(link) - 1
    BY <1>2, <2>1, FromIs
  <2>3. p = [domain |-> p.domain, port |-> p.port, path |-> p.path, level |-> p.level]
    BY DEF OurlsOf
  <2> QED
    BY <2>2, <2>3 DEF Rerooted
<1> HIDE DEF d, n
<1>10. CASE Cut(d, link)
  <2>1. IsPrefix(Http, d) /\ ~IsPrefix(NoServer, link)
    BY <1>6, <1>10, Zenon DEF Cut
  <2>2. ASSUME NEW u \in {a, a \o Slash}, Means(link, p, u) PROVE FALSE
    <3>1. u \in Seq(C) /\ Len(u) + 6 <= Len(d) + Len(link)
      <4>1. SchemeLen(d \o link) \in {7, 8} /\ a = WithoutSlash(From(d \o link, SchemeLen(d \o link)))
        BY <1>2, <1>10 DEF n
      <4> QED
        BY <1>1, <1>2, <2>2, <4>1, CutShort
    <3>2. surl2Ourl(Surl(u, p.level)) = Rerooted(p, link)
      BY <1>8, <1>9, <2>1, <2>2, <3>1
    <3>3. Surl(u, p.level) \in SurlsOf(C) /\ Surl(u, p.level).url = u
      BY <1>1, <3>1 DEF Surl, SurlsOf
    <3>4. Len(d) + (Len(link) - 1) <= Len(u)
      BY <1>r, <3>2, <3>3, OurlFits
    <3>5. Len(u) \in Nat
      BY <3>1
    <3>6. \A x, y, z \in Nat : x + (y - 1) <= z /\ z + 6 <= x + y => FALSE
      OBVIOUS
    <3> QED
      BY <1>7, <3>1, <3>4, <3>5, <3>6, Zenon
  <2> QED
    BY <1>4, <1>10, <2>2, Zenon DEF link
<1>11. CASE ~Cut(d, link)
  <2>1. /\ d \o link \in {a, a \o Slash}
        /\ \A u \in {a, a \o Slash} : OfHost(C, d, u, Len(d) + Len(link))
    <3>1. SchemeLen(d \o link) = 0 /\ a = WithoutSlash(From(d \o link, SchemeLen(d \o link)))
      BY <1>2, <1>11 DEF n
    <3>2. d \in Seq(C) /\ link \in Seq(C) /\ IsPrefix(Slash, link)
      BY <1>1, <1>2, <1>3
    <3> QED
      BY <3>1, <3>2, KeptForms, Zenon
  <2>2. ASSUME NEW u \in {a, a \o Slash}
        PROVE  /\ link # NoServer \o u
               /\ surl2Ourl(Surl(u, p.level)) =
                    [domain |-> d, port |-> 80, path |-> From(u, Len(d) + 1), level |-> p.level]
    <3>1. /\ u \in Seq(C) /\ Len(u) + 1 >= Len(d) + Len(link) /\ IsPrefix(d, u)
          /\ Len(u) > Len(d) => u[Len(d) + 1] = Slash[1]
      BY <2>1, <2>2, Zenon DEF OfHost
    <3>2. Len(u) \in Nat
      BY <3>1
    <3>3. link # NoServer \o u
      BY <1>7, <1>9, <3>1, <3>2
    <3> QED
      BY <1>1, <3>1, <3>3, HostFirst
  <2>3. CASE IsPrefix(NoServer, link) \/ p.port # 80
    <3>1. ASSUME NEW u \in {a, a \o Slash}, Means(link, p, u) PROVE FALSE
      <4>1. u \in Seq(C)
        BY <2>1, <3>1, Zenon DEF OfHost
      <4>2. ~IsPrefix(NoServer, link) /\ surl2Ourl(Surl(u, p.level)) = Rerooted(p, link)
        BY <1>8, <2>2, <3>1, <4>1
      <4>3. [domain |-> d, port |-> 80, path |-> From(u, Len(d) + 1), level |-> p.level].port = 80
        OBVIOUS
      <4>4. surl2Ourl(Surl(u, p.level)).port = 80
        BY <2>2, <3>1, <4>3, Zenon
      <4> QED
        BY <1>r, <2>3, <4>2, <4>4, Zenon
    <3> QED
      BY <1>4, <2>3, <3>1, Zenon DEF link
  <2>4. CASE ~IsPrefix(NoServer, link) /\ p.port = 80
    <3> DEFINE t == d \o link
    <3>1. t \in {a, a \o Slash}
      BY <2>1
    <3>2. From(t, Len(d) + 1) = From(link, 1)
      BY <1>1, <1>2, <1>7, ConcatFrom, Zenon
    <3>3. surl2Ourl(Surl(t, p.level)) = Rerooted(p, link)
      BY <1>r, <2>2, <2>4, <3>1, <3>2, Zenon
    <3>4. Means(link, p, t)
      BY <1>3, <2>4, <3>3, MeansIs, Zenon
    <3> QED
      BY <1>4, <1>11, <2>4, <3>1, <3>4, Zenon DEF link
  <2> QED
    BY <2>3, <2>4
<1> QED
  BY <1>10, <1>11 DEF link

(* An absolute link means one of the forms of what is asked. *)
LEMMA AbsoluteMeans ==
  ASSUME NEW C, Spelt(C), NEW raw \in Seq(C), NEW p \in OurlsOf(C),
         Target(raw, p.domain) # Null, ~IsPrefix(Slash, WithoutSpaces(raw)),
         Spoken(WithoutSpaces(raw), p), NEW a, a = Target(raw, p.domain)
  PROVE  /\ \E u \in {a, a \o Slash} : Means(WithoutSpaces(raw), p, u)
         /\ ~Misread(WithoutSpaces(raw), p)
<1> DEFINE link == WithoutSpaces(raw)
<1>1. p.domain \in Seq(C)
  BY DEF OurlsOf
<1>2. link # Http2 /\ \E S \in {Http2, Https} : IsPrefix(S, link)
  BY SpokenIs, Zenon
<1>3. PICK S \in {Http2, Https} : IsPrefix(S, link)
  BY <1>2
<1>4. link \in {S \o a, S \o (a \o Slash)}
  BY <1>1, <1>2, <1>3, SchemeMeans
<1>5. PICK u \in {a, a \o Slash} : link = S \o u
  BY <1>4, Zenon
<1>6. Means(link, p, u)
  BY <1>5, MeansIs, Zenon
<1> QED
  BY <1>5, <1>6, MisreadIs, Zenon

(* What a file is called: the host, an underscore, and the path up to its  *)
(* kth character with underscores for slashes.                             *)
Named(C, p, w, k) ==
  /\ w \in Seq(C) /\ Len(w) = (Len(p.domain) + 1) + k
  /\ \A i \in 1 .. Len(p.domain) : w[i] = p.domain[i]
  /\ w[Len(p.domain) + 1] = Under[1]
  /\ \A j \in 1 .. k : w[(Len(p.domain) + 1) + j] = Blurred(Char(p.path, j))[1]

LEMMA PieceIs ==
  ASSUME NEW C, Spelt(C), NEW s \in Seq(C), NEW k \in 1 .. Len(s)
  PROVE  Blurred(Char(s, k)) \in Seq(C) /\ Len(Blurred(Char(s, k))) = 1
<1>1. Char(s, k) \in Seq(C) /\ Len(Char(s, k)) = 1
  BY CharIs
<1>2. Under \in Seq(C) /\ Len(Under) = 1
  BY DEF Spelt
<1>3. Blurred(Char(s, k)) = IF Char(s, k) = Slash THEN Under ELSE Char(s, k)
  BY Zenon DEF Blurred, Slash, Under
<1> QED
  BY <1>1, <1>2, <1>3

LEMMA FileNameIs ==
  ASSUME NEW C, Spelt(C), NEW p \in OurlsOf(C)
  PROVE  Named(C, p, url2fn(p), Len(p.path))
<1> DEFINE n == Len(p.path)
           d == p.domain
           Piece(k) == Blurred(Char(p.path, k))
           Fits(f) == f = [k \in 0 .. n |-> IF k = 0 THEN d \o Under ELSE f[k - 1] \o Piece(k)]
           name == CHOOSE f : Fits(f)
           g == [k \in 0 .. n |-> [v \in Seq(C) |-> IF k = 0 THEN v ELSE v \o Piece(k)]]
<1>1. url2fn(p) = name[n]
  BY Zenon DEF url2fn, Under, Blurred
<1>2. /\ p.path \in Seq(C) /\ d \in Seq(C) /\ n \in Nat /\ Len(d) \in Nat
      /\ Under \in Seq(C) /\ Len(Under) = 1
  BY DEF OurlsOf, Spelt
<1>3. \A k \in 1 .. n : Piece(k) \in Seq(C) /\ Len(Piece(k)) = 1
  BY <1>2, PieceIs
<1>4. /\ d \o Under \in Seq(C) /\ Len(d \o Under) = Len(d) + Len(Under)
      /\ \A i \in 1 .. Len(d) + Len(Under) :
            (d \o Under)[i] = IF i <= Len(d) THEN d[i] ELSE Under[i - Len(d)]
  BY <1>2, ConcatProperties
<1> HIDE DEF n, d, Piece
<1>5. Step(0, n, Seq(C), d \o Under, g)
  <2>1. ASSUME NEW k \in 0 .. n
        PROVE  [v \in Seq(C) |-> IF k = 0 THEN v ELSE v \o Piece(k)] \in [Seq(C) -> Seq(C)]
    <3>1. k # 0 => Piece(k) \in Seq(C)
      BY <1>2, <1>3
    <3>2. \A v \in Seq(C) : (IF k = 0 THEN v ELSE v \o Piece(k)) \in Seq(C)
      BY <3>1, ConcatProperties
    <3> QED
      BY <3>2
  <2>2. g \in [0 .. n -> [Seq(C) -> Seq(C)]]
    BY <2>1, Zenon
  <2> HIDE DEF g
  <2> QED
    BY <1>2, <1>4, <2>2 DEF Step
<1>6. PICK f : Unrolled(0, n, Seq(C), d \o Under, g, f)
  BY <1>5, Recursion
<1>7. \A k \in 0 .. n : k # 0 => k - 1 \in 0 .. n
  BY <1>2
<1>8. Fits(f)
  <2>1. \A k \in 0 .. n : k # 0 => f[k] = f[k - 1] \o Piece(k)
    <3> SUFFICES ASSUME NEW k \in 0 .. n, k # 0 PROVE f[k] = f[k - 1] \o Piece(k)
      OBVIOUS
    <3>1. f[k] = g[k][f[k - 1]] /\ f[k - 1] \in Seq(C)
      BY <1>6, <1>7 DEF Unrolled
    <3> QED
      BY <3>1
  <2>2. \A k \in 0 .. n : f[k] = IF k = 0 THEN d \o Under ELSE f[k - 1] \o Piece(k)
    BY <1>6, <2>1, Zenon DEF Unrolled
  <2> QED
    BY <1>6, <2>2, Zenon DEF Unrolled
<1>9. Fits(name)
  <2> HIDE DEF Fits
  <2> QED
    BY <1>8, Zenon
<1> HIDE DEF name
<1> DEFINE T == {k \in 1 .. (n + 1) : Named(C, p, name[k - 1], k - 1)}
<1>10. 1 \in T
  <2>1. 0 \in 0 .. n /\ 1 \in 1 .. (n + 1) /\ 1 - 1 = 0
    BY <1>2
  <2>2. name[0] = d \o Under
    BY <1>9, <2>1, Zenon
  <2>3. /\ name[0] \in Seq(C) /\ Len(name[0]) = (Len(d) + 1) + 0
        /\ \A i \in 1 .. Len(d) : name[0][i] = d[i]
        /\ name[0][Len(d) + 1] = Under[1]
    <3>1. \A i \in 1 .. Len(d) : i \in 1 .. Len(d) + Len(Under) /\ i <= Len(d)
      BY <1>2
    <3>2. /\ Len(d) + 1 \in 1 .. Len(d) + Len(Under) /\ ~ (Len(d) + 1 <= Len(d))
          /\ (Len(d) + 1) - Len(d) = 1 /\ Len(d) + Len(Under) = (Len(d) + 1) + 0
      BY <1>2
    <3> QED
      BY <1>4, <2>2, <3>1, <3>2
  <2>4. Named(C, p, name[0], 0)
    BY <2>3 DEF Named, d
  <2> QED
    BY <2>1, <2>4
<1>11. ASSUME NEW k \in 1 .. ((n + 1) - 1), k \in T PROVE k + 1 \in T
  <2>1. k \in 1 .. n /\ k \in 0 .. n /\ k # 0 /\ k + 1 \in 1 .. (n + 1) /\ (k + 1) - 1 = k
        /\ k \in Nat /\ k - 1 \in Nat
    BY <1>2
  <2> DEFINE v == name[k - 1]
             w == name[k]
             q == Piece(k)
             m == Len(d) + 1
  <2>2. w = v \o q
    BY <1>9, <2>1, Zenon
  <2>3. Named(C, p, v, k - 1)
    BY <1>11
  <2>4. q \in Seq(C) /\ Len(q) = 1
    BY <1>3, <2>1
  <2>5. v \in Seq(C) /\ Len(v) = m + (k - 1) /\ m \in Nat
    BY <1>2, <2>3 DEF Named, d
  <2>6. /\ v \o q \in Seq(C) /\ Len(v \o q) = Len(v) + Len(q)
        /\ \A i \in 1 .. Len(v) + Len(q) : (v \o q)[i] = IF i <= Len(v) THEN v[i] ELSE q[i - Len(v)]
    <3> HIDE DEF v, q
    <3> QED
      BY <2>4, <2>5, ConcatProperties
  <2> HIDE DEF v, w, q
  <2>7. Len(v) + Len(q) = m + k
    BY <2>1, <2>4, <2>5
  <2>8. /\ \A i \in 1 .. m : i \in 1 .. Len(v) + Len(q) /\ i <= Len(v)
        /\ \A j \in 1 .. (k - 1) : m + j \in 1 .. Len(v) + Len(q) /\ m + j <= Len(v)
        /\ m + k \in 1 .. Len(v) + Len(q) /\ ~ (m + k <= Len(v)) /\ (m + k) - Len(v) = 1
    <3> HIDE DEF m
    <3>1. Len(v) = m + (k - 1) /\ Len(v) + Len(q) = m + k /\ m \in Nat /\ k \in Nat /\ k # 0
      BY <2>1, <2>5, <2>7
    <3> QED
      BY ONLY <3>1
  <2>9. /\ \A i \in 1 .. m : w[i] = v[i]
        /\ \A j \in 1 .. (k - 1) : w[m + j] = v[m + j]
        /\ w[m + k] = q[1]
    BY <2>2, <2>6, <2>8
  <2>10. \A i \in 1 .. Len(d) : i \in 1 .. m
    BY <1>2
  <2>11. m \in 1 .. m
    BY <1>2
  <2>12. /\ \A i \in 1 .. Len(d) : v[i] = d[i]
         /\ v[m] = Under[1]
         /\ \A j \in 1 .. (k - 1) : v[m + j] = Piece(j)[1]
    BY <2>3 DEF Named, d, Piece
  <2>13. \A j \in 1 .. k : w[m + j] = Piece(j)[1]
    <3>1. \A j \in 1 .. k : j # k => j \in 1 .. (k - 1)
      BY <2>1
    <3> QED
      BY <2>9, <2>12, <3>1 DEF q
  <2>14. \A i \in 1 .. Len(d) : w[i] = d[i]
    BY <2>9, <2>10, <2>12
  <2>15. w[m] = Under[1] /\ w \in Seq(C) /\ Len(w) = m + k
    BY <2>2, <2>6, <2>7, <2>9, <2>11, <2>12
  <2>16. Named(C, p, w, k)
    BY <2>13, <2>14, <2>15 DEF Named, d, Piece
  <2> QED
    BY <2>1, <2>16 DEF w
<1>12. n + 1 \in T
  <2>1. n + 1 \in Nat /\ n + 1 \in 1 .. (n + 1)
    BY <1>2
  <2> HIDE DEF T
  <2> QED
    BY <1>10, <1>11, <2>1, Upward
<1>13. Named(C, p, name[n], n)
  <2>1. (n + 1) - 1 = n
    BY <1>2
  <2> QED
    BY <1>12, <2>1
<1> QED
  BY <1>1, <1>13 DEF n

(* A host without an underscore ends before the first one of the file. *)
LEMMA HostNoLonger ==
  ASSUME NEW C, Spelt(C), NEW p \in OurlsOf(C), NEW q \in OurlsOf(C),
         url2fn(p) = url2fn(q), ProperHost(q)
  PROVE  Len(q.domain) <= Len(p.domain)
<1> DEFINE w == url2fn(p)
           m == Len(p.domain)
<1>1. Named(C, p, w, Len(p.path)) /\ Named(C, q, w, Len(q.path))
  BY FileNameIs, Zenon
<1>2. q.domain \in Seq(C) /\ m \in Nat /\ Len(q.domain) \in Nat
  BY DEF OurlsOf
<1> SUFFICES ASSUME m + 1 <= Len(q.domain) PROVE FALSE
  BY <1>2
<1>3. m + 1 \in 1 .. Len(q.domain)
  BY <1>2
<1>4. q.domain[m + 1] = Under[1]
  BY <1>1, <1>3 DEF Named
<1>5. Char(q.domain, m + 1) = Under
  <2>1. Under \in Seq(C) /\ Len(Under) = 1
    BY DEF Spelt
  <2> HIDE DEF m
  <2> QED
    BY <1>2, <1>3, <1>4, <2>1, LetterAt
<1>6. Places(q.domain, Under) = {}
  BY Zenon DEF ProperHost, Under
<1> QED
  BY <1>3, <1>5, <1>6 DEF Places

LEMMA NamesApart ==
  ASSUME NEW C, Spelt(C), NEW p \in OurlsOf(C), NEW q \in OurlsOf(C),
         url2fn(p) = url2fn(q), ProperHost(p), ProperHost(q)
  PROVE  /\ p.domain = q.domain
         /\ Len(p.path) = Len(q.path)
         /\ \A k \in 1 .. Len(p.path) : Blurred(Char(p.path, k)) = Blurred(Char(q.path, k))
<1> DEFINE w == url2fn(p)
           m == Len(p.domain)
           n == Len(p.path)
<1>1. Named(C, p, w, Len(p.path)) /\ Named(C, q, w, Len(q.path))
  BY FileNameIs, Zenon
<1>2. /\ p.domain \in Seq(C) /\ q.domain \in Seq(C) /\ p.path \in Seq(C) /\ q.path \in Seq(C)
      /\ m \in Nat /\ Len(q.domain) \in Nat /\ n \in Nat /\ Len(q.path) \in Nat
  BY DEF OurlsOf
<1>3. Len(q.domain) = m
  <2>1. Len(q.domain) <= Len(p.domain) /\ Len(p.domain) <= Len(q.domain)
    BY HostNoLonger
  <2> QED
    BY <1>2, <2>1
<1> HIDE DEF w
<1>4. \A i \in 1 .. m : w[i] = p.domain[i] /\ w[i] = q.domain[i]
  BY <1>1, <1>3 DEF Named
<1>5. p.domain = q.domain
  BY <1>2, <1>3, <1>4, SeqEqual
<1>6. Len(q.path) = n
  <2>1. (m + 1) + n = (m + 1) + Len(q.path)
    BY <1>1, <1>3 DEF Named
  <2>2. \A x, y, z \in Nat : (x + 1) + y = (x + 1) + z => z = y
    OBVIOUS
  <2> HIDE DEF m, n
  <2> QED
    BY <1>2, <2>1, <2>2, Zenon
<1>7. ASSUME NEW k \in 1 .. n PROVE Blurred(Char(p.path, k)) = Blurred(Char(q.path, k))
  <2> DEFINE a == Blurred(Char(p.path, k))
             b == Blurred(Char(q.path, k))
  <2>0. k \in 1 .. Len(q.path)
    BY <1>6
  <2>1. a[1] = b[1]
    <3>1. w[(m + 1) + k] = a[1]
      BY <1>1 DEF Named
    <3>2. w[(Len(q.domain) + 1) + k] = b[1]
      BY <1>1, <2>0 DEF Named
    <3> QED
      BY <1>3, <3>1, <3>2, Zenon
  <2>2. a \in Seq(C) /\ Len(a) = 1 /\ b \in Seq(C) /\ Len(b) = 1
    BY <1>2, <1>6, PieceIs
  <2> HIDE DEF a, b
  <2>3. \A i \in 1 .. Len(a) : a[i] = b[i]
    BY <2>1, <2>2
  <2>4. a = b
    BY <2>2, <2>3, SeqEqual
  <2> QED
    BY <2>4 DEF a, b
<1> QED
  BY <1>5, <1>6, <1>7

-----------------------------------------------------------------------------
USE FrontierAssumption

Busy(t) == pc[t] \in {"extract", "ask", "push"}

QueueSeq == \E S : taken \in Seq(S) /\ surl_queue \in Seq(S)

Levelled ==
  /\ \A i \in 1 .. Len(Queued) : Queued[i].level \in Nat
  /\ \A t \in Threads : pc[t] # "idle" => page[t].level \in Nat

(* The seeds initApp has not come to are the first ones. *)
SeedsLeft ==
  /\ site \in Sites
  /\ seeds \in Seq(STRING)
  /\ Len(seeds) <= Len(site.seeds)
  /\ \A k \in 1 .. Len(seeds) : seeds[k] = site.seeds[k]

(* LinksOf, of a constant. *)
WebLinks(web, ourl) ==
  LET at == <<ourl.domain, ourl.port, ourl.path>>
  IN  IF at \in DOMAIN web.pages THEN web.pages[at] ELSE <<>>

(* What a job has left are links of its page. *)
LinksLeftOf(t) ==
  /\ Busy(t) =>
       /\ page[t] \in received
       /\ \A k \in 1 .. Len(links[t]) :
            \E m \in DOMAIN WebLinks(site, page[t]) :
              links[t][k] = WebLinks(site, page[t])[m]
  /\ pc[t] \in {"ask", "push"} => Len(links[t]) > 0

LinksLeft ==
  /\ links \in [Threads -> Seq(STRING)]
  /\ \A t \in Threads : LinksLeftOf(t)

Typed ==
  /\ pc \in [Threads -> {"idle", "fetch", "extract", "ask", "push"}]
  /\ page = [t \in Threads |-> page[t]]
  /\ asking = [t \in Threads |-> asking[t]]
  /\ QueueSeq /\ Levelled /\ SeedsLeft /\ LinksLeft

-----------------------------------------------------------------------------
(* How a step changes everything that was ever queued. *)
Same ==
  /\ Len(Queued') = Len(Queued)
  /\ \A i \in 1 .. Len(Queued) : Queued'[i] = Queued[i]

Added(e) ==
  /\ Len(Queued') = Len(Queued) + 1
  /\ Queued'[Len(Queued) + 1] = e
  /\ \A i \in 1 .. Len(Queued) : Queued'[i] = Queued[i]

LEMMA QueuedSeq ==
  ASSUME QueueSeq
  PROVE  /\ Len(Queued) \in Nat /\ DOMAIN Queued = 1 .. Len(Queued)
         /\ Len(Queued) = Len(taken) + Len(surl_queue)
         /\ Len(taken) \in Nat /\ Len(surl_queue) \in Nat
         /\ \A i \in 1 .. Len(taken) : Queued[i] = taken[i]
         /\ \A i \in 1 .. Len(surl_queue) : Queued[Len(taken) + i] = surl_queue[i]
<1>1. PICK S : taken \in Seq(S) /\ surl_queue \in Seq(S)
  BY DEF QueueSeq
<1>2. Queued \in Seq(S)
  BY <1>1 DEF Queued
<1>3. /\ Len(Queued) = Len(taken) + Len(surl_queue)
      /\ \A i \in 1 .. Len(taken) : Queued[i] = taken[i]
      /\ \A i \in 1 .. Len(surl_queue) : Queued[Len(taken) + i] = surl_queue[i]
  BY <1>1 DEF Queued
<1> QED
  BY <1>1, <1>2, <1>3

LEMMA AppendQueued ==
  ASSUME QueueSeq, NEW e, surl_queue' = Append(surl_queue, e), taken' = taken
  PROVE  QueueSeq' /\ Added(e)
<1>1. PICK S : taken \in Seq(S) /\ surl_queue \in Seq(S)
  BY DEF QueueSeq
<1> DEFINE T == S \cup {e}
<1>2. taken \in Seq(T) /\ surl_queue \in Seq(T) /\ e \in T
  <2>1. S \subseteq T
    OBVIOUS
  <2>2. \A s \in Seq(S) : s \in Seq(T)
    <3> SUFFICES ASSUME NEW s \in Seq(S) PROVE s \in Seq(T)
      OBVIOUS
    <3>1. s \in [1 .. Len(s) -> T] /\ Len(s) \in Nat
      BY <2>1
    <3> QED
      BY <3>1
  <2> QED
    BY <1>1, <2>2
<1> HIDE DEF T
<1>3. taken' \in Seq(T) /\ surl_queue' \in Seq(T)
  BY <1>2
<1>4. QueueSeq'
  BY <1>3 DEF QueueSeq
<1>5. /\ Len(surl_queue') = Len(surl_queue) + 1
      /\ surl_queue'[Len(surl_queue) + 1] = e
      /\ \A i \in 1 .. Len(surl_queue) : surl_queue'[i] = surl_queue[i]
  BY <1>2
<1>6. /\ Len(Queued') = Len(taken) + Len(surl_queue')
      /\ \A i \in 1 .. Len(taken) : Queued'[i] = taken[i]
      /\ \A i \in 1 .. Len(surl_queue') : Queued'[Len(taken) + i] = surl_queue'[i]
  BY <1>3 DEF Queued
<1>q. /\ Len(Queued) = Len(taken) + Len(surl_queue)
      /\ Len(taken) \in Nat /\ Len(surl_queue) \in Nat
  BY QueuedSeq
<1>7. Len(Queued') = Len(Queued) + 1
  <2>1. Len(surl_queue') = Len(surl_queue) + 1 /\ Len(Queued') = Len(taken) + Len(surl_queue')
    BY <1>5, <1>6
  <2> QED
    BY ONLY <1>q, <2>1
<1>8. Queued'[Len(Queued) + 1] = e
  <2>1. Len(surl_queue) + 1 \in 1 .. Len(surl_queue')
    BY <1>5, QueuedSeq
  <2>2. Queued'[Len(taken) + (Len(surl_queue) + 1)] = e
    BY <1>5, <1>6, <2>1
  <2>3. Len(Queued) + 1 = Len(taken) + (Len(surl_queue) + 1)
    BY <1>q
  <2> QED
    BY <2>2, <2>3
<1>9. ASSUME NEW i \in 1 .. Len(Queued) PROVE Queued'[i] = Queued[i]
  <2>1. CASE i <= Len(taken)
    BY <1>6, <2>1, QueuedSeq
  <2>2. CASE i > Len(taken)
    <3> DEFINE m == i - Len(taken)
    <3>1. m \in 1 .. Len(surl_queue) /\ m \in 1 .. Len(surl_queue') /\ i = Len(taken) + m
      BY <1>5, <2>2, QueuedSeq
    <3>2. Queued[i] = surl_queue[m] /\ Queued'[i] = surl_queue'[m]
      BY <1>6, <3>1, QueuedSeq
    <3> QED
      BY <1>5, <3>1, <3>2
  <2> QED
    BY <2>1, <2>2, QueuedSeq
<1> QED
  BY <1>4, <1>7, <1>8, <1>9 DEF Added

LEMMA TakeQueued ==
  ASSUME QueueSeq, surl_queue # <<>>,
         surl_queue' = Tail(surl_queue), taken' = Append(taken, Head(surl_queue))
  PROVE  QueueSeq' /\ Same /\ Queued[Len(taken) + 1] = Head(surl_queue)
         /\ Len(taken) + 1 \in 1 .. Len(Queued)
<1>1. PICK S : taken \in Seq(S) /\ surl_queue \in Seq(S)
  BY DEF QueueSeq
<1>2. Head(surl_queue) \in S /\ Tail(surl_queue) \in Seq(S)
  BY <1>1, HeadTailProperties
<1> DEFINE h == Head(surl_queue)
<1>a. taken' \in Seq(S) /\ surl_queue' \in Seq(S) /\ taken' = Append(taken, h) /\ h \in S
  BY <1>1, <1>2, AppendProperties
<1>3. QueueSeq'
  BY <1>a DEF QueueSeq
<1>4. /\ Len(surl_queue) > 0 /\ Len(surl_queue') = Len(surl_queue) - 1
      /\ Head(surl_queue) = surl_queue[1]
      /\ \A i \in 1 .. Len(surl_queue') : surl_queue'[i] = surl_queue[i + 1]
  BY <1>1, HeadTailProperties, EmptySeq
<1> HIDE DEF h
<1>5. /\ Len(taken') = Len(taken) + 1
      /\ taken'[Len(taken) + 1] = h
      /\ \A i \in 1 .. Len(taken) : taken'[i] = taken[i]
  BY <1>1, <1>a, AppendProperties
<1>b. h = Head(surl_queue)
  BY DEF h
<1>6. /\ Len(Queued') = Len(taken') + Len(surl_queue')
      /\ \A i \in 1 .. Len(taken') : Queued'[i] = taken'[i]
      /\ \A i \in 1 .. Len(surl_queue') : Queued'[Len(taken') + i] = surl_queue'[i]
  BY <1>a DEF Queued
<1>q. /\ Len(Queued) = Len(taken) + Len(surl_queue)
      /\ Len(taken) \in Nat /\ Len(surl_queue) \in Nat
  BY QueuedSeq
<1>7. Len(Queued') = Len(Queued)
  BY ONLY <1>4, <1>5, <1>6, <1>q
<1>8. Queued[Len(taken) + 1] = Head(surl_queue) /\ Len(taken) + 1 \in 1 .. Len(Queued)
  BY <1>4, QueuedSeq
<1>9. ASSUME NEW i \in 1 .. Len(Queued) PROVE Queued'[i] = Queued[i]
  <2>1. CASE i <= Len(taken)
    <3>1. i \in 1 .. Len(taken) /\ i \in 1 .. Len(taken')
      BY <1>5, <1>q, <2>1
    <3>2. Queued'[i] = taken'[i] /\ taken'[i] = taken[i]
      BY <1>5, <1>6, <3>1
    <3> QED
      BY <3>1, <3>2, QueuedSeq
  <2>2. CASE i = Len(taken) + 1
    BY <1>5, <1>6, <1>8, <1>b, <2>2, QueuedSeq
  <2>3. CASE i > Len(taken) + 1
    <3> DEFINE m == i - Len(taken) - 1
    <3>1. /\ m \in 1 .. Len(surl_queue') /\ i = Len(taken') + m
          /\ m + 1 \in 1 .. Len(surl_queue) /\ i = Len(taken) + (m + 1)
      BY <1>4, <1>5, <2>3, QueuedSeq
    <3>2. Queued'[i] = surl_queue'[m] /\ Queued[i] = surl_queue[m + 1]
      BY <1>6, <3>1, QueuedSeq
    <3> QED
      BY <1>4, <3>1, <3>2
  <2> QED
    BY <2>1, <2>2, <2>3, QueuedSeq
<1> QED
  BY <1>3, <1>7, <1>8, <1>9 DEF Same

LEMMA KeepQueued ==
  ASSUME QueueSeq, UNCHANGED <<surl_queue, taken>>
  PROVE  QueueSeq' /\ Same
<1>1. QueueSeq'
  BY DEF QueueSeq
<1>2. Queued' = Queued
  BY DEF Queued
<1> QED
  BY <1>1, <1>2 DEF Same

-----------------------------------------------------------------------------
(* The steps as the other lemmas use them: what is ever queued only grows, *)
(* and one job moves at a time.                                            *)
Grown ==
  /\ site' = site
  /\ received \subseteq received' /\ misjudged \subseteq misjudged'
  /\ accepted \subseteq accepted'
  /\ Len(Queued) <= Len(Queued')
  /\ \A i \in 1 .. Len(Queued) : Queued'[i] = Queued[i]

OthersKeep(t) ==
  \A u \in Threads \ {t} :
    /\ pc'[u] = pc[u] /\ page'[u] = page[u]
    /\ links'[u] = links[u] /\ asking'[u] = asking[u]

(* Of the steps that leave everything ever queued as it was. *)
LEMMA SameGrown ==
  ASSUME QueueSeq, Same, UNCHANGED site, received \subseteq received',
         misjudged \subseteq misjudged', accepted \subseteq accepted'
  PROVE  Grown
<1>1. Len(Queued) \in Nat
  BY QueuedSeq
<1> QED
  BY <1>1 DEF Same, Grown

LEMMA AddedGrown ==
  ASSUME QueueSeq, NEW e, Added(e), UNCHANGED <<site, received, misjudged, accepted>>
  PROVE  Grown
<1>1. Len(Queued) \in Nat
  BY QueuedSeq
<1> QED
  BY <1>1 DEF Added, Grown

(* A job that drops the first link it has left keeps the others. *)
LEMMA DropHead ==
  ASSUME LinksLeft, NEW t \in Threads, links[t] # <<>>,
         links' = [links EXCEPT ![t] = Tail(@)]
  PROVE  /\ links' \in [Threads -> Seq(STRING)]
         /\ \A u \in Threads \ {t} : links'[u] = links[u]
         /\ Len(links[t]) \in Nat \ {0} /\ Len(links'[t]) = Len(links[t]) - 1
         /\ Head(links[t]) = links[t][1]
         /\ \A m \in 1 .. Len(links'[t]) : links'[t][m] = links[t][m + 1]
<1>1. links \in [Threads -> Seq(STRING)] /\ links[t] \in Seq(STRING)
  BY DEF LinksLeft
<1>2. /\ Tail(links[t]) \in Seq(STRING) /\ Len(Tail(links[t])) = Len(links[t]) - 1
      /\ \A m \in 1 .. Len(Tail(links[t])) : Tail(links[t])[m] = links[t][m + 1]
      /\ Len(links[t]) \in Nat \ {0}
  BY <1>1, HeadTailProperties, EmptySeq
<1>3. links'[t] = Tail(links[t]) /\ links' \in [Threads -> Seq(STRING)]
  BY <1>1, <1>2
<1>4. \A u \in Threads \ {t} : links'[u] = links[u]
  BY <1>1
<1>5. Head(links[t]) = links[t][1]
  BY <1>1
<1> QED
  BY <1>2, <1>3, <1>4, <1>5

LEMMA LeftOfKept ==
  ASSUME NEW u, LinksLeftOf(u), UNCHANGED site, received \subseteq received',
         pc'[u] = pc[u], page'[u] = page[u], links'[u] = links[u]
  PROVE  LinksLeftOf(u)'
  BY DEF LinksLeftOf, Busy

LEMMA LinksKept ==
  ASSUME LinksLeft, NEW t \in Threads, UNCHANGED <<links, site>>,
         received \subseteq received', pc'[t] \in {"idle", "fetch"},
         \A u \in Threads \ {t} : pc'[u] = pc[u] /\ page'[u] = page[u]
  PROVE  LinksLeft'
<1>1. LinksLeftOf(t)'
  BY DEF LinksLeftOf, Busy
<1>2. \A u \in Threads \ {t} : LinksLeftOf(u)'
  BY LeftOfKept DEF LinksLeft
<1>3. links' \in [Threads -> Seq(STRING)]
  BY DEF LinksLeft
<1> QED
  BY <1>1, <1>2, <1>3 DEF LinksLeft

LEMMA KeepsLevel == \A s : surl2Ourl(s).level = s.level
  BY DEF surl2Ourl

-----------------------------------------------------------------------------
(* What each action does. *)
LEMMA AddSeedStep ==
  ASSUME Typed, AddSeed
  PROVE  /\ Typed' /\ Grown
         /\ seeds # <<>> /\ Len(seeds) \in 1 .. Len(site.seeds)
         /\ Len(seeds') = Len(seeds) - 1
         /\ LET url == urlNormalized(site.seeds[Len(seeds)])
            IN  IF url = Null THEN Same ELSE Added(Surl(url, 0))
<1> DEFINE url == urlNormalized(Last(seeds))
<1>1. /\ Len(seeds) \in 1 .. Len(site.seeds) /\ Last(seeds) = site.seeds[Len(seeds)]
      /\ site.seeds \in Seq(STRING) /\ seeds \in Seq(STRING)
  <2>1. seeds \in Seq(STRING) /\ site.seeds \in Seq(STRING) /\ Len(seeds) \in Nat \ {0}
    BY EmptySeq DEF AddSeed, Typed, SeedsLeft, FrontierAssumption
  <2> QED
    BY <2>1 DEF Typed, SeedsLeft, Last
<1>2. /\ seeds' \in Seq(STRING) /\ Len(seeds') = Len(seeds) - 1
      /\ \A k \in 1 .. Len(seeds') : seeds'[k] = seeds[k]
  <2>1. seeds' = SubSeq(seeds, 1, Len(seeds) - 1)
    BY DEF AddSeed, Front
  <2>2. \A k \in 1 .. Len(seeds) - 1 : seeds[k] \in STRING
    BY <1>1
  <2>3. Len(seeds) - 1 \in Int /\ 1 \in Int
    BY <1>1
  <2> DEFINE n == Len(seeds) - 1
  <2>4. n \in Nat
    BY <1>1
  <2> HIDE DEF n
  <2>5. /\ SubSeq(seeds, 1, n) \in Seq(STRING)
        /\ Len(SubSeq(seeds, 1, n)) = IF 1 <= n THEN n - 1 + 1 ELSE 0
        /\ \A k \in 1 .. n - 1 + 1 : SubSeq(seeds, 1, n)[k] = seeds[1 + k - 1]
    <3>1. \A k \in 1 .. n : seeds[k] \in STRING
      BY <2>2 DEF n
    <3> QED
      BY <2>4, <3>1, SubSeqProperties
  <2>6. Len(SubSeq(seeds, 1, n)) = n /\ \A k \in 1 .. n : SubSeq(seeds, 1, n)[k] = seeds[k]
    BY <2>4, <2>5
  <2> QED
    BY <2>1, <2>5, <2>6 DEF n
<1>3. SeedsLeft'
  <2>1. site' = site
    BY DEF AddSeed
  <2> QED
    BY <1>1, <1>2, <2>1 DEF Typed, SeedsLeft
<1>4. QueueSeq' /\ IF url = Null THEN Same ELSE Added(Surl(url, 0))
  <2>1. CASE url = Null
    BY <2>1, KeepQueued DEF Typed, AddSeed
  <2>2. CASE url # Null
    BY <2>2, AppendQueued DEF Typed, AddSeed
  <2> QED
    BY <2>1, <2>2
<1>5. Grown
  <2>1. UNCHANGED <<site, received, misjudged, accepted>>
    BY DEF AddSeed, askVars
  <2>2. CASE url = Null
    BY <1>4, <2>1, <2>2, SameGrown DEF Typed
  <2>3. CASE url # Null
    BY <1>4, <2>1, <2>3, AddedGrown DEF Typed
  <2> QED
    BY <2>2, <2>3
<1>6. Levelled'
  <2>1. \A i \in 1 .. Len(Queued') : Queued'[i].level \in Nat
    <3>1. Len(Queued) \in Nat /\ \A i \in 1 .. Len(Queued) : Queued[i].level \in Nat
      BY QueuedSeq DEF Typed, Levelled
    <3>2. CASE url = Null
      BY <1>4, <3>1, <3>2 DEF Same
    <3>3. CASE url # Null
      BY <1>4, <3>1, <3>3 DEF Added, Surl
    <3> QED
      BY <3>2, <3>3
  <2> QED
    BY <2>1 DEF Typed, Levelled, AddSeed, jobVars
<1>7. LinksLeft'
  BY DEF Typed, LinksLeft, LinksLeftOf, AddSeed, jobVars, Busy
<1>8. Typed'
  BY <1>3, <1>4, <1>6, <1>7 DEF Typed, AddSeed, jobVars, askVars
<1> QED
  BY <1>1, <1>2, <1>4, <1>5, <1>8 DEF AddSeed

LEMMA TakeStep ==
  ASSUME Typed, NEW t \in Threads, Take(t)
  PROVE  Typed' /\ Grown /\ Same /\ OthersKeep(t)
<1>1. /\ QueueSeq' /\ Same /\ Queued[Len(taken) + 1] = Head(surl_queue)
      /\ Len(taken) + 1 \in 1 .. Len(Queued)
  BY TakeQueued DEF Typed, Take
<1>2. Grown
  BY <1>1, SameGrown DEF Typed, Take, askVars
<1>3. Levelled'
  <2>1. Head(surl_queue).level \in Nat
    BY <1>1 DEF Typed, Levelled
  <2>2. page'[t].level \in Nat
    BY <2>1, KeepsLevel DEF Typed, Take
  <2>3. \A i \in 1 .. Len(Queued') : Queued'[i].level \in Nat
    BY <1>1 DEF Typed, Levelled, Same
  <2>4. \A u \in Threads \ {t} : pc'[u] = pc[u] /\ page'[u] = page[u]
    BY DEF Typed, Take
  <2> QED
    BY <2>2, <2>3, <2>4 DEF Typed, Levelled
<1>4. SeedsLeft'
  BY DEF Typed, SeedsLeft, Take
<1>5. LinksLeft'
  <2>1. pc'[t] = "fetch" /\ \A u \in Threads \ {t} : pc'[u] = pc[u] /\ page'[u] = page[u]
    BY DEF Typed, Take
  <2>2. UNCHANGED <<links, received, site>>
    BY DEF Take
  <2> QED
    BY <2>1, <2>2, LinksKept DEF Typed
<1>6. pc' \in [Threads -> {"idle", "fetch", "extract", "ask", "push"}]
  BY DEF Typed, Take
<1>7. page' = [u \in Threads |-> page'[u]] /\ asking' = [u \in Threads |-> asking'[u]]
  BY DEF Typed, Take, askVars
<1>8. OthersKeep(t)
  BY DEF Typed, OthersKeep, Take, askVars
<1> QED
  BY <1>1, <1>2, <1>3, <1>4, <1>5, <1>6, <1>7, <1>8 DEF Typed

(* A job goes on, and nothing is queued. *)
LEMMA MovesOn ==
  ASSUME Typed, NEW t \in Threads, UNCHANGED <<site, seeds, surl_queue, taken, page>>,
         received \subseteq received', misjudged \subseteq misjudged', accepted \subseteq accepted',
         pc[t] # "idle",
         pc' \in [Threads -> {"idle", "fetch", "extract", "ask", "push"}],
         links' \in [Threads -> Seq(STRING)],
         asking' = [u \in Threads |-> asking'[u]],
         \A u \in Threads \ {t} : pc'[u] = pc[u] /\ links'[u] = links[u],
         LinksLeftOf(t)'
  PROVE  Typed' /\ Grown /\ Same
<1>1. QueueSeq' /\ Same
  BY KeepQueued DEF Typed
<1>2. Grown
  BY <1>1, SameGrown DEF Typed
<1>3. SeedsLeft'
  BY DEF Typed, SeedsLeft
<1>4. Levelled'
  <2>1. \A i \in 1 .. Len(Queued') : Queued'[i].level \in Nat
    BY <1>1 DEF Typed, Levelled, Same
  <2> QED
    BY <2>1 DEF Typed, Levelled
<1>5. LinksLeft'
  <2>1. \A u \in Threads \ {t} : LinksLeftOf(u)'
    BY LeftOfKept DEF Typed, LinksLeft
  <2> QED
    BY <2>1 DEF LinksLeft
<1>6. page' = [u \in Threads |-> page'[u]]
  BY DEF Typed
<1> QED
  BY <1>1, <1>2, <1>3, <1>4, <1>5, <1>6 DEF Typed

LEMMA LeftOfTail ==
  ASSUME LinksLeft, NEW t \in Threads, Busy(t), links[t] # <<>>,
         links' = [links EXCEPT ![t] = Tail(@)], pc'[t] = "extract",
         UNCHANGED <<received, page, site>>
  PROVE  LinksLeftOf(t)'
<1>1. /\ Len(links[t]) \in Nat \ {0} /\ Len(links'[t]) = Len(links[t]) - 1
      /\ \A m \in 1 .. Len(links'[t]) : links'[t][m] = links[t][m + 1]
  BY DropHead
<1>2. /\ page[t] \in received
      /\ \A k \in 1 .. Len(links[t]) :
           \E m \in DOMAIN WebLinks(site, page[t]) : links[t][k] = WebLinks(site, page[t])[m]
  BY DEF LinksLeft, LinksLeftOf
<1>3. ASSUME NEW k \in 1 .. Len(links'[t])
      PROVE  \E m \in DOMAIN WebLinks(site, page[t]) : links'[t][k] = WebLinks(site, page[t])[m]
  <2>1. k + 1 \in 1 .. Len(links[t]) /\ links'[t][k] = links[t][k + 1]
    BY <1>1
  <2> QED
    BY <1>2, <2>1
<1> QED
  BY <1>2, <1>3 DEF LinksLeftOf

LEMMA WebLinksSeq ==
  ASSUME NEW web \in Sites, NEW p
  PROVE  WebLinks(web, p) \in Seq(STRING)
<1>1. <<>> \in Seq(STRING)
  BY EmptySeq
<1> QED
  BY <1>1 DEF WebLinks, FrontierAssumption

LEMMA FetchFailsStep ==
  ASSUME Typed, NEW t \in Threads, FetchFails(t)
  PROVE  Typed' /\ Grown /\ Same /\ OthersKeep(t)
<1>1. UNCHANGED <<site, seeds, surl_queue, taken, page>>
  BY DEF FetchFails
<1>2. /\ received \subseteq received' /\ misjudged \subseteq misjudged'
      /\ accepted \subseteq accepted'
  BY DEF FetchFails, askVars, Seen!Ask, Seen!AnswerNew, Seen!AnswerSeen
<1>3. \A u \in Threads \ {t} : pc'[u] = pc[u] /\ links'[u] = links[u] /\ asking'[u] = asking[u]
  BY DEF Typed, LinksLeft, FetchFails, askVars, Seen!Ask, Seen!AnswerNew, Seen!AnswerSeen
<1>4. /\ pc' \in [Threads -> {"idle", "fetch", "extract", "ask", "push"}]
      /\ links' \in [Threads -> Seq(STRING)]
      /\ asking' = [u \in Threads |-> asking'[u]]
  BY DEF Typed, LinksLeft, FetchFails, askVars, Seen!Ask, Seen!AnswerNew, Seen!AnswerSeen
<1>5. LinksLeftOf(t)'
  BY DEF Typed, LinksLeft, LinksLeftOf, Busy, FetchFails, askVars
<1>6. pc[t] # "idle"
  BY DEF FetchFails
<1>7. Typed' /\ Grown /\ Same
  BY <1>1, <1>2, <1>3, <1>4, <1>5, <1>6, MovesOn
<1> QED
  BY <1>1, <1>3, <1>7 DEF OthersKeep

LEMMA ReceiveStep ==
  ASSUME Typed, NEW t \in Threads, Receive(t)
  PROVE  Typed' /\ Grown /\ Same /\ OthersKeep(t)
<1>1. UNCHANGED <<site, seeds, surl_queue, taken, page>>
  BY DEF Receive
<1>2. /\ received \subseteq received' /\ misjudged \subseteq misjudged'
      /\ accepted \subseteq accepted'
  BY DEF Receive, askVars, Seen!Ask, Seen!AnswerNew, Seen!AnswerSeen
<1>3. \A u \in Threads \ {t} : pc'[u] = pc[u] /\ links'[u] = links[u] /\ asking'[u] = asking[u]
  BY DEF Typed, LinksLeft, Receive, askVars, Seen!Ask, Seen!AnswerNew, Seen!AnswerSeen
<1>4. /\ pc' \in [Threads -> {"idle", "fetch", "extract", "ask", "push"}]
      /\ links' \in [Threads -> Seq(STRING)]
      /\ asking' = [u \in Threads |-> asking'[u]]
  <2>1. LinksOf(page[t]) \in Seq(STRING)
    BY WebLinksSeq DEF Typed, SeedsLeft, LinksOf, WebLinks
  <2> QED
    BY <2>1 DEF Typed, LinksLeft, Receive, askVars
<1>5. LinksLeftOf(t)'
  <2>1. links'[t] = WebLinks(site, page[t]) /\ pc'[t] = "extract" /\ page[t] \in received'
    BY DEF Typed, LinksLeft, Receive, LinksOf, WebLinks
  <2>2. DOMAIN WebLinks(site, page[t]) = 1 .. Len(WebLinks(site, page[t]))
    BY WebLinksSeq DEF Typed, SeedsLeft
  <2> QED
    BY <1>1, <2>1, <2>2 DEF LinksLeftOf
<1>6. pc[t] # "idle"
  BY DEF Receive
<1>7. Typed' /\ Grown /\ Same
  BY <1>1, <1>2, <1>3, <1>4, <1>5, <1>6, MovesOn
<1> QED
  BY <1>1, <1>3, <1>7 DEF OthersKeep

LEMMA SkipLinkStep ==
  ASSUME Typed, NEW t \in Threads, SkipLink(t)
  PROVE  Typed' /\ Grown /\ Same /\ OthersKeep(t)
<1>1. UNCHANGED <<site, seeds, surl_queue, taken, page>>
  BY DEF SkipLink
<1>2. /\ received \subseteq received' /\ misjudged \subseteq misjudged'
      /\ accepted \subseteq accepted'
  BY DEF SkipLink, askVars, Seen!Ask, Seen!AnswerNew, Seen!AnswerSeen
<1>3. \A u \in Threads \ {t} : pc'[u] = pc[u] /\ links'[u] = links[u] /\ asking'[u] = asking[u]
  BY DEF Typed, LinksLeft, SkipLink, askVars, Seen!Ask, Seen!AnswerNew, Seen!AnswerSeen
<1>4. /\ pc' \in [Threads -> {"idle", "fetch", "extract", "ask", "push"}]
      /\ links' \in [Threads -> Seq(STRING)]
      /\ asking' = [u \in Threads |-> asking'[u]]
  <2>1. links[t] # <<>>
    BY EmptySeq DEF Typed, LinksLeft, LinksLeftOf, SkipLink
  <2>2. links' = [links EXCEPT ![t] = Tail(@)]
    BY DEF SkipLink
  <2>3. links' \in [Threads -> Seq(STRING)]
    BY <2>1, <2>2, DropHead DEF Typed
  <2> QED
    BY <2>3 DEF Typed, SkipLink, askVars, Seen!AnswerSeen
<1>5. LinksLeftOf(t)'
  <2>1. links[t] # <<>>
    BY EmptySeq DEF Typed, LinksLeft, LinksLeftOf, SkipLink
  <2>2. links' = [links EXCEPT ![t] = Tail(@)] /\ pc'[t] = "extract" /\ UNCHANGED <<received, page, site>>
    BY DEF Typed, SkipLink
  <2>3. Busy(t)
    BY DEF Busy, SkipLink
  <2> QED
    BY <2>1, <2>2, <2>3, LeftOfTail DEF Typed
<1>6. pc[t] # "idle"
  BY DEF SkipLink
<1>7. Typed' /\ Grown /\ Same
  BY <1>1, <1>2, <1>3, <1>4, <1>5, <1>6, MovesOn
<1> QED
  BY <1>1, <1>3, <1>7 DEF OthersKeep

LEMMA AskLinkStep ==
  ASSUME Typed, NEW t \in Threads, AskLink(t)
  PROVE  Typed' /\ Grown /\ Same /\ OthersKeep(t)
<1>1. UNCHANGED <<site, seeds, surl_queue, taken, page>>
  BY DEF AskLink
<1>2. /\ received \subseteq received' /\ misjudged \subseteq misjudged'
      /\ accepted \subseteq accepted'
  BY DEF AskLink, askVars, Seen!Ask, Seen!AnswerNew, Seen!AnswerSeen
<1>3. \A u \in Threads \ {t} : pc'[u] = pc[u] /\ links'[u] = links[u] /\ asking'[u] = asking[u]
  BY DEF Typed, LinksLeft, AskLink, askVars, Seen!Ask, Seen!AnswerNew, Seen!AnswerSeen
<1>4. /\ pc' \in [Threads -> {"idle", "fetch", "extract", "ask", "push"}]
      /\ links' \in [Threads -> Seq(STRING)]
      /\ asking' = [u \in Threads |-> asking'[u]]
  BY DEF Typed, LinksLeft, AskLink, askVars, Seen!Ask, Seen!AnswerNew, Seen!AnswerSeen
<1>5. LinksLeftOf(t)'
  <2>1. Len(links[t]) > 0
    BY EmptySeq DEF Typed, LinksLeft, AskLink
  <2> QED
    BY <2>1 DEF Typed, LinksLeft, LinksLeftOf, Busy, AskLink
<1>6. pc[t] # "idle"
  BY DEF AskLink
<1>7. Typed' /\ Grown /\ Same
  BY <1>1, <1>2, <1>3, <1>4, <1>5, <1>6, MovesOn
<1> QED
  BY <1>1, <1>3, <1>7 DEF OthersKeep

LEMMA ToldNewStep ==
  ASSUME Typed, NEW t \in Threads, ToldNew(t)
  PROVE  Typed' /\ Grown /\ Same /\ OthersKeep(t)
<1>1. UNCHANGED <<site, seeds, surl_queue, taken, page>>
  BY DEF ToldNew
<1>2. /\ received \subseteq received' /\ misjudged \subseteq misjudged'
      /\ accepted \subseteq accepted'
  BY DEF ToldNew, askVars, Seen!Ask, Seen!AnswerNew, Seen!AnswerSeen
<1>3. \A u \in Threads \ {t} : pc'[u] = pc[u] /\ links'[u] = links[u] /\ asking'[u] = asking[u]
  BY DEF Typed, LinksLeft, ToldNew, askVars, Seen!Ask, Seen!AnswerNew, Seen!AnswerSeen
<1>4. /\ pc' \in [Threads -> {"idle", "fetch", "extract", "ask", "push"}]
      /\ links' \in [Threads -> Seq(STRING)]
      /\ asking' = [u \in Threads |-> asking'[u]]
  BY DEF Typed, LinksLeft, ToldNew, askVars, Seen!Ask, Seen!AnswerNew, Seen!AnswerSeen
<1>5. LinksLeftOf(t)'
  BY DEF Typed, LinksLeft, LinksLeftOf, Busy, ToldNew, askVars
<1>6. pc[t] # "idle"
  BY DEF ToldNew
<1>7. Typed' /\ Grown /\ Same
  BY <1>1, <1>2, <1>3, <1>4, <1>5, <1>6, MovesOn
<1> QED
  BY <1>1, <1>3, <1>7 DEF OthersKeep

LEMMA ToldSeenStep ==
  ASSUME Typed, NEW t \in Threads, ToldSeen(t)
  PROVE  Typed' /\ Grown /\ Same /\ OthersKeep(t)
<1>1. UNCHANGED <<site, seeds, surl_queue, taken, page>>
  BY DEF ToldSeen
<1>2. /\ received \subseteq received' /\ misjudged \subseteq misjudged'
      /\ accepted \subseteq accepted'
  BY DEF ToldSeen, askVars, Seen!Ask, Seen!AnswerNew, Seen!AnswerSeen
<1>3. \A u \in Threads \ {t} : pc'[u] = pc[u] /\ links'[u] = links[u] /\ asking'[u] = asking[u]
  BY DEF Typed, LinksLeft, ToldSeen, askVars, Seen!Ask, Seen!AnswerNew, Seen!AnswerSeen
<1>4. /\ pc' \in [Threads -> {"idle", "fetch", "extract", "ask", "push"}]
      /\ links' \in [Threads -> Seq(STRING)]
      /\ asking' = [u \in Threads |-> asking'[u]]
  <2>1. links[t] # <<>>
    BY EmptySeq DEF Typed, LinksLeft, LinksLeftOf, ToldSeen
  <2>2. links' = [links EXCEPT ![t] = Tail(@)]
    BY DEF ToldSeen
  <2>3. links' \in [Threads -> Seq(STRING)]
    BY <2>1, <2>2, DropHead DEF Typed
  <2> QED
    BY <2>3 DEF Typed, ToldSeen, askVars, Seen!AnswerSeen
<1>5. LinksLeftOf(t)'
  <2>1. links[t] # <<>>
    BY EmptySeq DEF Typed, LinksLeft, LinksLeftOf, ToldSeen
  <2>2. links' = [links EXCEPT ![t] = Tail(@)] /\ pc'[t] = "extract" /\ UNCHANGED <<received, page, site>>
    BY DEF Typed, ToldSeen
  <2>3. Busy(t)
    BY DEF Busy, ToldSeen
  <2> QED
    BY <2>1, <2>2, <2>3, LeftOfTail DEF Typed
<1>6. pc[t] # "idle"
  BY DEF ToldSeen
<1>7. Typed' /\ Grown /\ Same
  BY <1>1, <1>2, <1>3, <1>4, <1>5, <1>6, MovesOn
<1> QED
  BY <1>1, <1>3, <1>7 DEF OthersKeep

LEMMA FinishStep ==
  ASSUME Typed, NEW t \in Threads, Finish(t)
  PROVE  Typed' /\ Grown /\ Same /\ OthersKeep(t)
<1>1. UNCHANGED <<site, seeds, surl_queue, taken, page>>
  BY DEF Finish
<1>2. /\ received \subseteq received' /\ misjudged \subseteq misjudged'
      /\ accepted \subseteq accepted'
  BY DEF Finish, askVars, Seen!Ask, Seen!AnswerNew, Seen!AnswerSeen
<1>3. \A u \in Threads \ {t} : pc'[u] = pc[u] /\ links'[u] = links[u] /\ asking'[u] = asking[u]
  BY DEF Typed, LinksLeft, Finish, askVars, Seen!Ask, Seen!AnswerNew, Seen!AnswerSeen
<1>4. /\ pc' \in [Threads -> {"idle", "fetch", "extract", "ask", "push"}]
      /\ links' \in [Threads -> Seq(STRING)]
      /\ asking' = [u \in Threads |-> asking'[u]]
  BY DEF Typed, LinksLeft, Finish, askVars, Seen!Ask, Seen!AnswerNew, Seen!AnswerSeen
<1>5. LinksLeftOf(t)'
  BY DEF Typed, LinksLeft, LinksLeftOf, Busy, Finish, askVars
<1>6. pc[t] # "idle"
  BY DEF Finish
<1>7. Typed' /\ Grown /\ Same
  BY <1>1, <1>2, <1>3, <1>4, <1>5, <1>6, MovesOn
<1> QED
  BY <1>1, <1>3, <1>7 DEF OthersKeep

LEMMA PushStep ==
  ASSUME Typed, NEW t \in Threads, Push(t)
  PROVE  /\ Typed' /\ Grown /\ OthersKeep(t)
         /\ Added(Surl(NextTarget(t), page[t].level + 1)) /\ page[t].level \in Nat
<1> DEFINE e == Surl(NextTarget(t), page[t].level + 1)
<1>1. UNCHANGED <<site, seeds, taken, page, received, misjudged, accepted, asking>>
  BY DEF Push, askVars
<1>2. QueueSeq' /\ Added(e)
  BY <1>1, AppendQueued DEF Typed, Push
<1>3. Grown
  BY <1>1, <1>2, AddedGrown DEF Typed
<1>4. page[t].level \in Nat /\ e.level = page[t].level + 1
  BY DEF Typed, Levelled, Push, Surl
<1> HIDE DEF e
<1>5. \A u \in Threads \ {t} : pc'[u] = pc[u] /\ links'[u] = links[u]
  BY DEF Typed, LinksLeft, Push
<1>6. Levelled'
  <2>1. Len(Queued) \in Nat /\ \A i \in 1 .. Len(Queued) : Queued[i].level \in Nat
    BY QueuedSeq DEF Typed, Levelled
  <2>2. \A i \in 1 .. Len(Queued') : Queued'[i].level \in Nat
    BY <1>2, <1>4, <2>1 DEF Added
  <2> QED
    BY <1>1, <1>4, <1>5, <2>2 DEF Typed, Levelled
<1>7. SeedsLeft'
  BY <1>1 DEF Typed, SeedsLeft
<1>8. LinksLeft'
  <2>1. links[t] # <<>> /\ Busy(t)
    BY EmptySeq DEF Typed, LinksLeft, LinksLeftOf, Push, Busy
  <2>2. links' = [links EXCEPT ![t] = Tail(@)] /\ pc'[t] = "extract"
    BY DEF Typed, Push
  <2>3. LinksLeftOf(t)'
    BY <1>1, <2>1, <2>2, LeftOfTail DEF Typed
  <2>4. \A u \in Threads \ {t} : LinksLeftOf(u)'
    BY <1>1, <1>5, LeftOfKept DEF Typed, LinksLeft
  <2>5. links' \in [Threads -> Seq(STRING)]
    BY <2>1, <2>2, DropHead DEF Typed
  <2> QED
    BY <2>3, <2>4, <2>5 DEF LinksLeft
<1>9. pc' \in [Threads -> {"idle", "fetch", "extract", "ask", "push"}]
  BY DEF Typed, Push
<1>10. page' = [u \in Threads |-> page'[u]] /\ asking' = [u \in Threads |-> asking'[u]]
  BY <1>1 DEF Typed
<1>11. Typed'
  BY <1>2, <1>6, <1>7, <1>8, <1>9, <1>10 DEF Typed
<1>12. OthersKeep(t)
  BY <1>1, <1>5 DEF OthersKeep
<1> QED
  BY <1>2, <1>3, <1>4, <1>11, <1>12 DEF e

-----------------------------------------------------------------------------
(* Why a link is queued once: the url a job is about to queue is its own.  *)
LinksAccepted ==
  \A i \in 1 .. Len(Queued) : Queued[i].level > 0 => Queued[i].url \in accepted

Asks(t) == pc[t] = "ask" => asking[t] = NextTarget(t)

Owns(t) ==
  pc[t] = "push" =>
    /\ NextTarget(t) \in accepted
    /\ \A i \in 1 .. Len(Queued) : Queued[i].level > 0 => Queued[i].url # NextTarget(t)

Apart ==
  \A t, u \in Threads :
    pc[t] = "push" /\ pc[u] = "push" /\ NextTarget(t) = NextTarget(u) => t = u

Once ==
  \A i, j \in 1 .. Len(Queued) :
    Queued[i].level > 0 /\ Queued[j].level > 0 /\ Queued[i].url = Queued[j].url => i = j

OnceInv ==
  LinksAccepted /\ (\A t \in Threads : Asks(t) /\ Owns(t)) /\ Apart /\ Once

(* Nothing is queued, or a seed is, and no job comes to the point of       *)
(* queueing one.                                                           *)
NothingPushed ==
  /\ Same \/ \E url : Added(Surl(url, 0))
  /\ \A t \in Threads : pc'[t] = "push" =>
       pc[t] = "push" /\ page'[t] = page[t] /\ links'[t] = links[t]

LEMMA OnceQuiet ==
  ASSUME Typed, OnceInv, Grown, NothingPushed
  PROVE  LinksAccepted' /\ (\A t \in Threads : Owns(t)') /\ Apart' /\ Once'
<1>1. Len(Queued) \in Nat
  BY QueuedSeq DEF Typed
<1>2. \A i \in 1 .. Len(Queued') : Queued'[i].level > 0 =>
        i \in 1 .. Len(Queued) /\ Queued'[i] = Queued[i]
  <2>1. CASE Same
    BY <1>1, <2>1 DEF Same
  <2>2. CASE \E url : Added(Surl(url, 0))
    <3>1. PICK url : Added(Surl(url, 0))
      BY <2>2
    <3>2. Surl(url, 0).level = 0
      BY DEF Surl
    <3> QED
      BY <1>1, <3>1, <3>2 DEF Added
  <2> QED
    BY <2>1, <2>2 DEF NothingPushed
<1>3. accepted \subseteq accepted'
  BY DEF Grown
<1>4. LinksAccepted'
  BY <1>2, <1>3 DEF OnceInv, LinksAccepted
<1>5. ASSUME NEW t \in Threads, pc'[t] = "push"
      PROVE  pc[t] = "push" /\ NextTarget(t)' = NextTarget(t)
  BY <1>5 DEF NothingPushed, NextTarget
<1>6. ASSUME NEW t \in Threads PROVE Owns(t)'
  BY <1>2, <1>3, <1>5 DEF OnceInv, Owns
<1>7. Apart'
  BY <1>5 DEF OnceInv, Apart
<1>8. Once'
  BY <1>2 DEF OnceInv, Once
<1> QED
  BY <1>4, <1>6, <1>7, <1>8

LEMMA AsksKept ==
  ASSUME NEW t \in Threads, OthersKeep(t), NEW u \in Threads \ {t}, Asks(u)
  PROVE  Asks(u)'
  BY DEF OthersKeep, Asks, NextTarget

LEMMA ToldNewOnce ==
  ASSUME Typed, OnceInv, NEW t \in Threads, ToldNew(t)
  PROVE  OnceInv'
<1>1. Grown /\ Same /\ OthersKeep(t)
  BY ToldNewStep
<1>2. /\ asking[t] = NextTarget(t) /\ asking[t] \notin accepted
      /\ accepted' = accepted \cup {asking[t]}
      /\ pc' = [pc EXCEPT ![t] = "push"] /\ pc'[t] = "push" /\ UNCHANGED <<page, links>>
  BY DEF Typed, OnceInv, Asks, ToldNew, Seen!AnswerNew
<1>3. \A u \in Threads : NextTarget(u)' = NextTarget(u)
  BY <1>2 DEF NextTarget
<1>4. /\ Len(Queued') = Len(Queued)
      /\ \A i \in 1 .. Len(Queued) : Queued'[i] = Queued[i]
  BY <1>1 DEF Same
<1>5. LinksAccepted' /\ Once'
  BY <1>2, <1>4 DEF OnceInv, LinksAccepted, Once
<1>6. \A u \in Threads \ {t} : pc'[u] = pc[u]
  BY <1>1 DEF OthersKeep
<1>7. ASSUME NEW u \in Threads PROVE Owns(u)'
  <2>1. CASE u = t
    <3>1. \A i \in 1 .. Len(Queued) : Queued[i].level > 0 => Queued[i].url # NextTarget(t)
      BY <1>2 DEF OnceInv, LinksAccepted
    <3> QED
      BY <1>2, <1>3, <1>4, <2>1, <3>1 DEF Owns
  <2>2. CASE u # t
    BY <1>2, <1>3, <1>4, <1>6, <2>2 DEF OnceInv, Owns
  <2> QED
    BY <2>1, <2>2
<1>8. Apart'
  <2>1. \A u \in Threads : pc[u] = "push" => NextTarget(u) # NextTarget(t)
    BY <1>2 DEF OnceInv, Owns
  <2> QED
    BY <1>2, <1>3, <1>6, <2>1 DEF OnceInv, Apart
<1>9. ASSUME NEW u \in Threads PROVE Asks(u)'
  <2>1. CASE u = t
    BY <1>2, <2>1 DEF Asks
  <2>2. CASE u # t
    BY <1>1, <2>2, AsksKept DEF OnceInv
  <2> QED
    BY <2>1, <2>2
<1> QED
  BY <1>5, <1>7, <1>8, <1>9 DEF OnceInv

LEMMA PushOnce ==
  ASSUME Typed, OnceInv, NEW t \in Threads, Push(t)
  PROVE  OnceInv'
<1> DEFINE e == Surl(NextTarget(t), page[t].level + 1)
<1>1. Added(e) /\ OthersKeep(t)
  BY PushStep
<1>2. /\ pc[t] = "push" /\ pc'[t] = "extract" /\ UNCHANGED accepted
      /\ e.url = NextTarget(t)
  BY DEF Typed, Push, askVars, Surl
<1> HIDE DEF e
<1>3. \A u \in Threads \ {t} : pc'[u] = pc[u] /\ NextTarget(u)' = NextTarget(u)
  BY <1>1 DEF OthersKeep, NextTarget
<1>4. /\ Len(Queued) \in Nat /\ Len(Queued') = Len(Queued) + 1
      /\ Queued'[Len(Queued) + 1] = e
      /\ \A i \in 1 .. Len(Queued) : Queued'[i] = Queued[i]
  BY <1>1, QueuedSeq DEF Added, Typed
<1>5. /\ NextTarget(t) \in accepted
      /\ \A i \in 1 .. Len(Queued) : Queued[i].level > 0 => Queued[i].url # NextTarget(t)
  BY <1>2 DEF OnceInv, Owns
<1>6. LinksAccepted'
  BY <1>2, <1>4, <1>5 DEF OnceInv, LinksAccepted
<1>7. Once'
  <2> SUFFICES ASSUME NEW i \in 1 .. Len(Queued'), NEW j \in 1 .. Len(Queued'),
                      Queued'[i].level > 0, Queued'[j].level > 0,
                      Queued'[i].url = Queued'[j].url
               PROVE  i = j
    BY DEF Once
  <2>1. i \in 1 .. Len(Queued) \/ i = Len(Queued) + 1
    BY <1>4
  <2>2. j \in 1 .. Len(Queued) \/ j = Len(Queued) + 1
    BY <1>4
  <2>3. CASE i \in 1 .. Len(Queued) /\ j \in 1 .. Len(Queued)
    BY <1>4, <2>3 DEF OnceInv, Once
  <2>4. CASE i \in 1 .. Len(Queued) /\ j = Len(Queued) + 1
    BY <1>2, <1>4, <1>5, <2>4
  <2>5. CASE i = Len(Queued) + 1 /\ j \in 1 .. Len(Queued)
    BY <1>2, <1>4, <1>5, <2>5
  <2> QED
    BY <2>1, <2>2, <2>3, <2>4, <2>5
<1>8. ASSUME NEW u \in Threads PROVE Owns(u)'
  <2>1. CASE u = t
    BY <1>2, <2>1 DEF Owns
  <2>2. CASE u # t
    <3> SUFFICES ASSUME pc'[u] = "push"
                 PROVE  /\ NextTarget(u)' \in accepted'
                        /\ \A i \in 1 .. Len(Queued') :
                             Queued'[i].level > 0 => Queued'[i].url # NextTarget(u)'
      BY DEF Owns
    <3>1. NextTarget(u) # NextTarget(t) /\ NextTarget(u)' = NextTarget(u) /\ pc[u] = "push"
      BY <1>2, <1>3, <2>2 DEF OnceInv, Apart
    <3>2. /\ NextTarget(u) \in accepted
          /\ \A i \in 1 .. Len(Queued) : Queued[i].level > 0 => Queued[i].url # NextTarget(u)
      BY <3>1 DEF OnceInv, Owns
    <3> QED
      BY <1>2, <1>4, <3>1, <3>2
  <2> QED
    BY <2>1, <2>2
<1>9. Apart'
  BY <1>2, <1>3 DEF OnceInv, Apart
<1>10. ASSUME NEW u \in Threads PROVE Asks(u)'
  <2>1. CASE u = t
    BY <1>2, <2>1 DEF Asks
  <2>2. CASE u # t
    BY <1>1, <2>2, AsksKept DEF OnceInv
  <2> QED
    BY <2>1, <2>2
<1> QED
  BY <1>6, <1>7, <1>8, <1>9, <1>10 DEF OnceInv

(* A job that moves without coming to ask or to queue. *)
LEMMA OnceOther ==
  ASSUME Typed, OnceInv, NEW t \in Threads, Grown, Same, OthersKeep(t),
         pc'[t] # "push", Asks(t)'
  PROVE  OnceInv'
<1>1. NothingPushed
  BY DEF NothingPushed, OthersKeep
<1>2. \A u \in Threads \ {t} : Asks(u)'
  BY AsksKept DEF OnceInv
<1> QED
  BY <1>1, <1>2, OnceQuiet DEF OnceInv

LEMMA OnceStep ==
  ASSUME Typed, OnceInv, Next
  PROVE  OnceInv'
<1>1. CASE AddSeed
  <2>1. Grown /\ NothingPushed
    BY <1>1, AddSeedStep DEF NothingPushed, AddSeed, jobVars
  <2>2. \A u \in Threads : Asks(u)'
    BY <1>1 DEF OnceInv, Asks, NextTarget, AddSeed, jobVars, askVars
  <2> QED
    BY <2>1, <2>2, OnceQuiet DEF OnceInv
<1>2. ASSUME NEW t \in Threads, Take(t) PROVE OnceInv'
  <2>1. Asks(t)' /\ pc'[t] # "push"
    BY <1>2 DEF Asks, Take, Typed
  <2> QED
    BY <1>2, <2>1, TakeStep, OnceOther
<1>3. ASSUME NEW t \in Threads, FetchFails(t) PROVE OnceInv'
  <2>1. Asks(t)' /\ pc'[t] # "push"
    BY <1>3 DEF Asks, FetchFails, Typed
  <2> QED
    BY <1>3, <2>1, FetchFailsStep, OnceOther
<1>4. ASSUME NEW t \in Threads, Receive(t) PROVE OnceInv'
  <2>1. Asks(t)' /\ pc'[t] # "push"
    BY <1>4 DEF Asks, Receive, Typed
  <2> QED
    BY <1>4, <2>1, ReceiveStep, OnceOther
<1>5. ASSUME NEW t \in Threads, SkipLink(t) PROVE OnceInv'
  <2>1. Asks(t)' /\ pc'[t] # "push"
    BY <1>5 DEF Asks, SkipLink, Typed
  <2> QED
    BY <1>5, <2>1, SkipLinkStep, OnceOther
<1>6. ASSUME NEW t \in Threads, AskLink(t) PROVE OnceInv'
  <2>1. Asks(t)' /\ pc'[t] # "push"
    BY <1>6 DEF Asks, AskLink, NextTarget, Seen!Ask, Typed
  <2> QED
    BY <1>6, <2>1, AskLinkStep, OnceOther
<1>7. ASSUME NEW t \in Threads, ToldSeen(t) PROVE OnceInv'
  <2>1. Asks(t)' /\ pc'[t] # "push"
    BY <1>7 DEF Asks, ToldSeen, Typed
  <2> QED
    BY <1>7, <2>1, ToldSeenStep, OnceOther
<1>8. ASSUME NEW t \in Threads, Finish(t) PROVE OnceInv'
  <2>1. Asks(t)' /\ pc'[t] # "push"
    BY <1>8 DEF Asks, Finish, Typed
  <2> QED
    BY <1>8, <2>1, FinishStep, OnceOther
<1> QED
  BY <1>1, <1>2, <1>3, <1>4, <1>5, <1>6, <1>7, <1>8, ToldNewOnce, PushOnce DEF Next

LEMMA TypedStep ==
  ASSUME Typed, Next
  PROVE  Typed' /\ Grown
  BY AddSeedStep, TakeStep, FetchFailsStep, ReceiveStep, SkipLinkStep, AskLinkStep,
     ToldNewStep, ToldSeenStep, PushStep, FinishStep DEF Next

-----------------------------------------------------------------------------
(* Why levels are lengths of chains. *)
Chained(web, got, s) ==
  IF s.level = 0
  THEN \E k \in DOMAIN web.seeds : urlNormalized(web.seeds[k]) = s.url
  ELSE \E p \in got :
         /\ p.level + 1 = s.level
         /\ \E k \in DOMAIN WebLinks(web, p) : Target(WebLinks(web, p)[k], p.domain) = s.url

ChainInv == \A i \in 1 .. Len(Queued) : Chained(site, received, Queued[i])

LEMMA MoreChained ==
  ASSUME NEW web, NEW got, NEW more, got \subseteq more, NEW s, Chained(web, got, s)
  PROVE  Chained(web, more, s)
  BY DEF Chained

LEMMA ChainOther ==
  ASSUME Typed, ChainInv, Grown, Same
  PROVE  ChainInv'
<1> SUFFICES ASSUME NEW i \in 1 .. Len(Queued') PROVE Chained(site, received', Queued'[i])
  BY DEF ChainInv, Grown
<1>1. i \in 1 .. Len(Queued) /\ Queued'[i] = Queued[i] /\ received \subseteq received'
  BY DEF Same, Grown
<1> QED
  BY <1>1, MoreChained DEF ChainInv

LEMMA ChainAdded ==
  ASSUME Typed, ChainInv, Grown, NEW e, Added(e), Chained(site, received, e)
  PROVE  ChainInv'
<1> SUFFICES ASSUME NEW i \in 1 .. Len(Queued') PROVE Chained(site, received', Queued'[i])
  BY DEF ChainInv, Grown
<1>1. Len(Queued) \in Nat /\ received \subseteq received'
  BY QueuedSeq DEF Typed, Grown
<1>2. CASE i \in 1 .. Len(Queued)
  BY <1>1, <1>2, MoreChained DEF ChainInv, Grown
<1>3. CASE i = Len(Queued) + 1
  BY <1>1, <1>3, MoreChained DEF Added
<1> QED
  BY <1>1, <1>2, <1>3 DEF Added

LEMMA ChainStep ==
  ASSUME Typed, ChainInv, Next
  PROVE  ChainInv'
<1>1. CASE AddSeed
  <2> DEFINE url == urlNormalized(site.seeds[Len(seeds)])
  <2>1. Grown /\ Len(seeds) \in DOMAIN site.seeds
    <3>1. site.seeds \in Seq(STRING)
      BY DEF Typed, SeedsLeft, FrontierAssumption
    <3> QED
      BY <1>1, <3>1, AddSeedStep
  <2>2. Same \/ Added(Surl(url, 0))
    BY <1>1, AddSeedStep
  <2>3. Chained(site, received, Surl(url, 0))
    BY <2>1 DEF Chained, Surl
  <2> QED
    BY <2>1, <2>2, <2>3, ChainOther, ChainAdded
<1>2. ASSUME NEW t \in Threads, Push(t) PROVE ChainInv'
  <2> DEFINE e == Surl(NextTarget(t), page[t].level + 1)
  <2>1. Grown /\ Added(e) /\ page[t].level \in Nat
    BY <1>2, PushStep
  <2>2. Chained(site, received, e)
    <3>1. page[t] \in received /\ Len(links[t]) \in Nat /\ Len(links[t]) > 0
      BY <1>2 DEF Typed, LinksLeft, LinksLeftOf, Busy, Push
    <3>2. Head(links[t]) = links[t][1]
      BY DEF Typed, LinksLeft
    <3>3. \E m \in DOMAIN WebLinks(site, page[t]) : links[t][1] = WebLinks(site, page[t])[m]
      <4>1. LinksLeftOf(t) /\ Busy(t) /\ 1 \in 1 .. Len(links[t])
        BY <1>2, <3>1 DEF Typed, LinksLeft, Busy, Push
      <4> QED
        BY <4>1 DEF LinksLeftOf
    <3>4. e.level = page[t].level + 1 /\ e.url = Target(links[t][1], page[t].domain)
      BY <3>2 DEF Surl, NextTarget
    <3>5. page[t].level + 1 # 0
      BY <2>1
    <3> QED
      BY <3>1, <3>3, <3>4, <3>5 DEF Chained
  <2> QED
    BY <2>1, <2>2, ChainAdded
<1>3. ASSUME NEW t \in Threads, Take(t) \/ FetchFails(t) \/ Receive(t) \/ SkipLink(t)
                                 \/ AskLink(t) \/ ToldNew(t) \/ ToldSeen(t) \/ Finish(t)
      PROVE  ChainInv'
  <2>1. Grown /\ Same
    BY <1>3, TakeStep, FetchFailsStep, ReceiveStep, SkipLinkStep, AskLinkStep,
       ToldNewStep, ToldSeenStep, FinishStep
  <2> QED
    BY <2>1, ChainOther
<1> QED
  BY <1>1, <1>2, <1>3 DEF Next

-----------------------------------------------------------------------------
(* Why nothing is lost: each url that was accepted is queued or about to   *)
(* be, and each link of a page that came is done with or still to be read. *)
Found(u) == \E i \in 1 .. Len(Queued) : Queued[i].url = u

Handled(u) ==
  \/ u = Null \/ u \in misjudged \/ Found(u)
  \/ \E t \in Threads : pc[t] = "push" /\ NextTarget(t) = u

StillLeft(t, p, link) ==
  Busy(t) /\ page[t] = p /\ \E m \in 1 .. Len(links[t]) : links[t][m] = link

LinkFollowed(p, link) ==
  Handled(Target(link, p.domain)) \/ \E t \in Threads : StillLeft(t, p, link)

LinksFollowed ==
  \A p \in received : \A k \in 1 .. Len(WebLinks(site, p)) :
    LinkFollowed(p, WebLinks(site, p)[k])

AcceptedFollowed == \A u \in accepted : Handled(u)

SeedsFollowed ==
  \A k \in 1 .. Len(site.seeds) :
    \/ k <= Len(seeds)
    \/ urlNormalized(site.seeds[k]) = Null
    \/ Found(urlNormalized(site.seeds[k]))

FollowInv == LinksFollowed /\ AcceptedFollowed /\ SeedsFollowed

(* Of a step: no url about to be queued is lost. *)
PushKept ==
  \A u \in Threads : pc[u] = "push" =>
    \/ pc'[u] = "push" /\ NextTarget(u)' = NextTarget(u)
    \/ \E i \in 1 .. Len(Queued') : Queued'[i].url = NextTarget(u)

(* Of a step: job t loses no link of its page.                             *)
KeepsLinks(t) ==
  \A p, link : StillLeft(t, p, link) =>
    StillLeft(t, p, link)' \/ Handled(Target(link, p.domain))'

LEMMA FoundKept ==
  ASSUME Typed, Grown, NEW u, Found(u)
  PROVE  Found(u)'
<1>1. PICK i \in 1 .. Len(Queued) : Queued[i].url = u
  BY DEF Found
<1>3. i \in 1 .. Len(Queued') /\ Queued'[i] = Queued[i]
  BY <1>1 DEF Grown
<1> QED
  BY <1>1, <1>3 DEF Found

LEMMA HandledKept ==
  ASSUME Typed, Grown, PushKept, NEW u, Handled(u)
  PROVE  Handled(u)'
<1>1. CASE u = Null
  BY <1>1 DEF Handled
<1>2. CASE u \in misjudged
  BY <1>2 DEF Handled, Grown
<1>3. CASE Found(u)
  BY <1>3, FoundKept DEF Handled
<1>4. ASSUME NEW t \in Threads, pc[t] = "push", NextTarget(t) = u
      PROVE  Handled(u)'
  <2>1. CASE pc'[t] = "push" /\ NextTarget(t)' = NextTarget(t)
    BY <1>4, <2>1 DEF Handled
  <2>2. CASE \E i \in 1 .. Len(Queued') : Queued'[i].url = NextTarget(t)
    <3>1. Found(u)'
      BY <1>4, <2>2 DEF Found
    <3> QED
      BY <3>1 DEF Handled
  <2> QED
    BY <1>4, <2>1, <2>2 DEF PushKept
<1> QED
  BY <1>1, <1>2, <1>3, <1>4 DEF Handled

LEMMA StillLeftKept ==
  ASSUME NEW t \in Threads, OthersKeep(t), NEW u \in Threads \ {t}
  PROVE  KeepsLinks(u)
  BY DEF OthersKeep, KeepsLinks, StillLeft, Busy

(* A link of a page that had come by then stays followed. *)
LEMMA LinkKept ==
  ASSUME Typed, Grown, PushKept, \A t \in Threads : KeepsLinks(t),
         NEW p, NEW link, LinkFollowed(p, link)
  PROVE  LinkFollowed(p, link)'
<1>1. CASE Handled(Target(link, p.domain))
  BY <1>1, HandledKept DEF LinkFollowed
<1>2. ASSUME NEW t \in Threads, StillLeft(t, p, link) PROVE LinkFollowed(p, link)'
  BY <1>2 DEF KeepsLinks, LinkFollowed
<1> QED
  BY <1>1, <1>2 DEF LinkFollowed

LEMMA LinksFollowedKept ==
  ASSUME Typed, LinksFollowed, Grown, PushKept, \A t \in Threads : KeepsLinks(t),
         received' = received
  PROVE  LinksFollowed'
<1> SUFFICES ASSUME NEW p \in received, NEW k \in 1 .. Len(WebLinks(site, p))
             PROVE  LinkFollowed(p, WebLinks(site, p)[k])'
  BY DEF LinksFollowed, Grown
<1>1. LinkFollowed(p, WebLinks(site, p)[k])
  BY DEF LinksFollowed
<1> DEFINE link == WebLinks(site, p)[k]
<1>2. link' = link
  BY DEF Grown
<1> HIDE DEF link
<1>3. \A q, l : LinkFollowed(q, l) => LinkFollowed(q, l)'
  BY LinkKept
<1> QED
  BY <1>1, <1>2, <1>3 DEF link, Grown

LEMMA SeedsKept ==
  ASSUME Typed, SeedsFollowed, Grown, UNCHANGED seeds
  PROVE  SeedsFollowed'
  BY FoundKept DEF SeedsFollowed, Grown

LEMMA AcceptedKept ==
  ASSUME Typed, AcceptedFollowed, Grown, PushKept, UNCHANGED accepted
  PROVE  AcceptedFollowed'
  BY HandledKept DEF AcceptedFollowed

(* A job that drops its first link has dealt with it. *)
LEMMA DropKeeps ==
  ASSUME Typed, NEW t \in Threads, links[t] # <<>>, links' = [links EXCEPT ![t] = Tail(@)],
         UNCHANGED page, pc'[t] = "extract",
         \A u : u = NextTarget(t) => Handled(u)'
  PROVE  KeepsLinks(t)
<1> SUFFICES ASSUME NEW p, NEW link, StillLeft(t, p, link)
             PROVE  StillLeft(t, p, link)' \/ Handled(Target(link, p.domain))'
  BY DEF KeepsLinks
<1>1. /\ Len(links[t]) \in Nat \ {0} /\ Len(links'[t]) = Len(links[t]) - 1
      /\ Head(links[t]) = links[t][1]
      /\ \A m \in 1 .. Len(links'[t]) : links'[t][m] = links[t][m + 1]
  BY DropHead DEF Typed
<1>2. PICK m \in 1 .. Len(links[t]) : links[t][m] = link /\ page[t] = p
  BY DEF StillLeft
<1>3. CASE m = 1
  <2>1. NextTarget(t) = Target(link, p.domain)
    BY <1>1, <1>2, <1>3 DEF NextTarget
  <2> QED
    BY <2>1
<1>4. CASE m > 1
  <2>1. m - 1 \in 1 .. Len(links'[t]) /\ links'[t][m - 1] = link
    BY <1>1, <1>2, <1>4
  <2> QED
    BY <1>2, <2>1 DEF StillLeft, Busy
<1> QED
  BY <1>2, <1>3, <1>4

LEMMA OthersPushKept ==
  ASSUME NEW t \in Threads, OthersKeep(t), pc[t] # "push"
  PROVE  PushKept
  BY DEF PushKept, OthersKeep, NextTarget

LEMMA FollowOther ==
  ASSUME Typed, FollowInv, NEW t \in Threads, Grown, OthersKeep(t), PushKept,
         KeepsLinks(t), UNCHANGED <<received, seeds, accepted>>
  PROVE  FollowInv'
<1>1. \A u \in Threads : KeepsLinks(u)
  BY StillLeftKept
<1> QED
  BY <1>1, LinksFollowedKept, SeedsKept, AcceptedKept DEF FollowInv

LEMMA AddSeedFollow ==
  ASSUME Typed, FollowInv, AddSeed
  PROVE  FollowInv'
<1> DEFINE url == urlNormalized(site.seeds[Len(seeds)])
<1>1. /\ Grown /\ Len(seeds) \in 1 .. Len(site.seeds) /\ Len(seeds') = Len(seeds) - 1
      /\ url = Null \/ Added(Surl(url, 0))
  BY AddSeedStep
<1>2. UNCHANGED <<pc, page, links, received, accepted>>
  BY DEF AddSeed, jobVars, askVars
<1>3. PushKept /\ \A t \in Threads : KeepsLinks(t)
  BY <1>1, <1>2 DEF PushKept, NextTarget, KeepsLinks, StillLeft, Busy
<1>4. \A w : w = url /\ w # Null => Found(w)'
  <2> SUFFICES ASSUME url # Null PROVE \A w : w = url => Found(w)'
    OBVIOUS
  <2>1. Len(Queued) + 1 \in 1 .. Len(Queued') /\ Queued'[Len(Queued) + 1] = Surl(url, 0)
    BY <1>1, QueuedSeq DEF Added, Typed
  <2>2. Surl(url, 0).url = url
    BY DEF Surl
  <2> QED
    BY <2>1, <2>2 DEF Found
<1>5. SeedsFollowed'
  <2> SUFFICES ASSUME NEW k \in 1 .. Len(site.seeds), k > Len(seeds'),
                      NEW w, w = urlNormalized(site.seeds[k]), w # Null
               PROVE  Found(w)'
    BY <1>1 DEF SeedsFollowed, Grown
  <2>1. CASE k = Len(seeds)
    BY <1>4, <2>1
  <2>2. CASE k > Len(seeds)
    <3>1. Found(w)
      BY <1>1, <2>2 DEF FollowInv, SeedsFollowed
    <3> QED
      BY <1>1, <3>1, FoundKept
  <2> QED
    BY <1>1, <2>1, <2>2
<1> QED
  BY <1>1, <1>2, <1>3, <1>5, LinksFollowedKept, AcceptedKept DEF FollowInv

LEMMA TakeFollow ==
  ASSUME Typed, FollowInv, NEW t \in Threads, Take(t)
  PROVE  FollowInv'
<1>1. pc[t] = "idle" /\ UNCHANGED <<received, seeds, accepted>>
  BY DEF Take, askVars
<1>2. KeepsLinks(t) /\ pc[t] # "push"
  BY <1>1 DEF KeepsLinks, StillLeft, Busy
<1> QED
  BY <1>1, <1>2, TakeStep, OthersPushKept, FollowOther

LEMMA FetchFailsFollow ==
  ASSUME Typed, FollowInv, NEW t \in Threads, FetchFails(t)
  PROVE  FollowInv'
<1>1. pc[t] = "fetch" /\ UNCHANGED <<received, seeds, accepted>>
  BY DEF FetchFails, askVars
<1>2. KeepsLinks(t) /\ pc[t] # "push"
  BY <1>1 DEF KeepsLinks, StillLeft, Busy
<1> QED
  BY <1>1, <1>2, FetchFailsStep, OthersPushKept, FollowOther

LEMMA ReceiveFollow ==
  ASSUME Typed, FollowInv, NEW t \in Threads, Receive(t)
  PROVE  FollowInv'
<1>1. Grown /\ OthersKeep(t)
  BY ReceiveStep
<1>2. /\ pc[t] = "fetch" /\ pc'[t] = "extract" /\ page'[t] = page[t]
      /\ links'[t] = WebLinks(site, page[t])
      /\ received' = received \cup {page[t]} /\ UNCHANGED <<seeds, accepted>>
  BY DEF Typed, LinksLeft, Receive, LinksOf, WebLinks, askVars
<1>3. PushKept
  BY <1>1, <1>2, OthersPushKept
<1>4. \A u \in Threads : KeepsLinks(u)
  <2>1. KeepsLinks(t)
    BY <1>2 DEF KeepsLinks, StillLeft, Busy
  <2> QED
    BY <1>1, <2>1, StillLeftKept
<1>5. LinksFollowed'
  <2> SUFFICES ASSUME NEW p \in received', NEW k \in 1 .. Len(WebLinks(site, p))
               PROVE  \A link : link = WebLinks(site, p)[k] => LinkFollowed(p, link)'
    BY <1>1 DEF LinksFollowed, Grown
  <2>1. CASE p \in received
    <3>1. LinkFollowed(p, WebLinks(site, p)[k])
      BY <2>1 DEF FollowInv, LinksFollowed
    <3> QED
      BY <1>1, <1>3, <1>4, <3>1, LinkKept
  <2>2. CASE p = page[t]
    BY <1>2, <2>2 DEF LinkFollowed, StillLeft, Busy
  <2> QED
    BY <1>2, <2>1, <2>2
<1> QED
  BY <1>1, <1>2, <1>3, <1>5, SeedsKept, AcceptedKept DEF FollowInv

LEMMA SkipLinkFollow ==
  ASSUME Typed, FollowInv, NEW t \in Threads, SkipLink(t)
  PROVE  FollowInv'
<1>1. /\ UNCHANGED <<received, seeds, accepted, page>>
      /\ links[t] # <<>> /\ links' = [links EXCEPT ![t] = Tail(@)]
      /\ pc[t] = "extract" /\ pc'[t] = "extract" /\ NextTarget(t) = Null
  BY DEF SkipLink, askVars
<1>2. \A u : u = NextTarget(t) => Handled(u)'
  BY <1>1 DEF Handled
<1>3. KeepsLinks(t)
  BY <1>1, <1>2, DropKeeps
<1> QED
  BY <1>1, <1>3, SkipLinkStep, OthersPushKept, FollowOther

LEMMA AskLinkFollow ==
  ASSUME Typed, FollowInv, NEW t \in Threads, AskLink(t)
  PROVE  FollowInv'
<1>1. /\ UNCHANGED <<received, seeds, accepted, page, links>>
      /\ pc[t] = "extract" /\ pc'[t] = "ask"
  BY DEF Typed, AskLink, Seen!Ask
<1>2. KeepsLinks(t)
  BY <1>1 DEF KeepsLinks, StillLeft, Busy
<1> QED
  BY <1>1, <1>2, AskLinkStep, OthersPushKept, FollowOther

LEMMA ToldNewFollow ==
  ASSUME Typed, OnceInv, FollowInv, NEW t \in Threads, ToldNew(t)
  PROVE  FollowInv'
<1>1. Grown /\ OthersKeep(t)
  BY ToldNewStep
<1>2. /\ UNCHANGED <<received, seeds, page, links>>
      /\ pc[t] = "ask" /\ pc'[t] = "push" /\ asking[t] = NextTarget(t)
      /\ accepted' = accepted \cup {asking[t]}
  BY DEF Typed, OnceInv, Asks, ToldNew, Seen!AnswerNew
<1>3. PushKept
  BY <1>1, <1>2, OthersPushKept
<1>4. \A u \in Threads : KeepsLinks(u)
  <2>1. KeepsLinks(t)
    BY <1>2 DEF KeepsLinks, StillLeft, Busy
  <2> QED
    BY <1>1, <2>1, StillLeftKept
<1>5. AcceptedFollowed'
  <2> SUFFICES ASSUME NEW u \in accepted' PROVE Handled(u)'
    BY DEF AcceptedFollowed
  <2>1. CASE u \in accepted
    BY <1>1, <1>3, <2>1, HandledKept DEF FollowInv, AcceptedFollowed
  <2>2. CASE u = NextTarget(t)
    <3>1. NextTarget(t)' = u
      BY <1>2, <2>2 DEF NextTarget
    <3> QED
      BY <1>2, <3>1 DEF Handled
  <2> QED
    BY <1>2, <2>1, <2>2
<1> QED
  BY <1>1, <1>2, <1>3, <1>4, <1>5, LinksFollowedKept, SeedsKept DEF FollowInv

LEMMA ToldSeenFollow ==
  ASSUME Typed, OnceInv, FollowInv, NEW t \in Threads, ToldSeen(t)
  PROVE  FollowInv'
<1>1. Grown /\ OthersKeep(t)
  BY ToldSeenStep
<1>2. /\ UNCHANGED <<received, seeds, accepted, page>>
      /\ links' = [links EXCEPT ![t] = Tail(@)] /\ links[t] # <<>>
      /\ pc[t] = "ask" /\ pc'[t] = "extract" /\ asking[t] = NextTarget(t)
      /\ asking[t] \in accepted \/ asking[t] \in misjudged'
  BY EmptySeq DEF Typed, LinksLeft, LinksLeftOf, OnceInv, Asks, ToldSeen, Seen!AnswerSeen
<1>3. PushKept
  BY <1>1, <1>2, OthersPushKept
<1>4. \A u : u = NextTarget(t) => Handled(u)'
  <2>1. CASE asking[t] \in accepted
    BY <1>1, <1>2, <1>3, <2>1, HandledKept DEF FollowInv, AcceptedFollowed
  <2>2. CASE asking[t] \in misjudged'
    BY <1>2, <2>2 DEF Handled
  <2> QED
    BY <1>2, <2>1, <2>2
<1>5. KeepsLinks(t)
  BY <1>2, <1>4, DropKeeps
<1> QED
  BY <1>1, <1>2, <1>3, <1>5, FollowOther

LEMMA PushFollow ==
  ASSUME Typed, FollowInv, NEW t \in Threads, Push(t)
  PROVE  FollowInv'
<1> DEFINE e == Surl(NextTarget(t), page[t].level + 1)
<1>1. Grown /\ OthersKeep(t) /\ Added(e)
  BY PushStep
<1>2. /\ UNCHANGED <<received, seeds, accepted, page>>
      /\ links' = [links EXCEPT ![t] = Tail(@)] /\ links[t] # <<>>
      /\ pc[t] = "push" /\ pc'[t] = "extract" /\ e.url = NextTarget(t)
  BY EmptySeq DEF Typed, LinksLeft, LinksLeftOf, Push, askVars, Surl
<1> HIDE DEF e
<1>3. Len(Queued) + 1 \in 1 .. Len(Queued') /\ Queued'[Len(Queued) + 1].url = NextTarget(t)
  BY <1>1, <1>2, QueuedSeq DEF Added, Typed
<1>4. PushKept
  BY <1>1, <1>3 DEF PushKept, OthersKeep, NextTarget
<1>5. \A u : u = NextTarget(t) => Handled(u)'
  BY <1>3 DEF Handled, Found
<1>6. KeepsLinks(t)
  BY <1>2, <1>5, DropKeeps
<1> QED
  BY <1>1, <1>2, <1>4, <1>6, FollowOther

LEMMA FinishFollow ==
  ASSUME Typed, FollowInv, NEW t \in Threads, Finish(t)
  PROVE  FollowInv'
<1>1. /\ UNCHANGED <<received, seeds, accepted>>
      /\ pc[t] = "extract" /\ Len(links[t]) = 0
  BY EmptySeq DEF Finish, askVars
<1>2. KeepsLinks(t)
  BY <1>1 DEF KeepsLinks, StillLeft
<1> QED
  BY <1>1, <1>2, FinishStep, OthersPushKept, FollowOther

LEMMA FollowStep ==
  ASSUME Typed, OnceInv, FollowInv, Next
  PROVE  FollowInv'
  BY AddSeedFollow, TakeFollow, FetchFailsFollow, ReceiveFollow, SkipLinkFollow, AskLinkFollow,
     ToldNewFollow, ToldSeenFollow, PushFollow, FinishFollow DEF Next

-----------------------------------------------------------------------------
IInv == Typed /\ OnceInv /\ ChainInv /\ FollowInv

LEMMA InitIInv == Init => IInv
<1> SUFFICES ASSUME Init PROVE IInv
  OBVIOUS
<1>1. /\ taken = <<>> /\ surl_queue = <<>> /\ site \in Sites /\ seeds = site.seeds
      /\ pc = [t \in Threads |-> "idle"] /\ links = [t \in Threads |-> <<>>]
      /\ page = [t \in Threads |-> NoPage] /\ asking = [t \in Threads |-> Null]
      /\ accepted = {} /\ received = {}
  BY DEF Init, Seen!Init
<1>2. QueueSeq
  <2>1. <<>> \in Seq({})
    BY EmptySeq
  <2> QED
    BY <1>1, <2>1 DEF QueueSeq
<1>3. 1 .. Len(Queued) = {}
  <2>1. Len(Queued) = 0
    BY <1>1, <1>2, QueuedSeq, EmptySeq
  <2> QED
    BY <2>1
<1>4. \A t \in Threads : pc[t] = "idle"
  BY <1>1
<1>5. site.seeds \in Seq(STRING)
  BY <1>1 DEF FrontierAssumption
<1>6. SeedsLeft
  BY <1>1, <1>5 DEF SeedsLeft
<1>7. LinksLeft
  BY <1>1, <1>4, EmptySeq DEF LinksLeft, LinksLeftOf, Busy
<1>8. Typed
  <2>1. page = [t \in Threads |-> page[t]] /\ asking = [t \in Threads |-> asking[t]]
    BY <1>1
  <2> QED
    BY <1>1, <1>2, <1>3, <1>4, <1>6, <1>7, <2>1 DEF Typed, Levelled
<1>9. OnceInv
  BY <1>3, <1>4 DEF OnceInv, LinksAccepted, Asks, Owns, Apart, Once
<1>10. ChainInv
  BY <1>3 DEF ChainInv
<1>11. FollowInv
  BY <1>1, <1>5 DEF FollowInv, LinksFollowed, AcceptedFollowed, SeedsFollowed
<1> QED
  BY <1>8, <1>9, <1>10, <1>11 DEF IInv

LEMMA Stutters ==
  ASSUME IInv, UNCHANGED vars
  PROVE  IInv'
<1>1. /\ UNCHANGED <<site, seeds, surl_queue, pc, page, links, accepted, asking>>
      /\ UNCHANGED <<taken, received, misjudged>>
  BY DEF vars, jobVars, askVars
<1>2. Queued' = Queued
  BY <1>1 DEF Queued
<1>3. Typed'
  BY <1>1, <1>2 DEF IInv, Typed, QueueSeq, Levelled, SeedsLeft, LinksLeft, LinksLeftOf, Busy
<1>4. OnceInv'
  BY <1>1, <1>2 DEF IInv, OnceInv, LinksAccepted, Asks, Owns, Apart, Once, NextTarget
<1>5. ChainInv'
  BY <1>1, <1>2 DEF IInv, ChainInv
<1>6. FollowInv'
  BY <1>1, <1>2 DEF IInv, FollowInv, LinksFollowed, AcceptedFollowed, SeedsFollowed,
     LinkFollowed, StillLeft, Handled, Found, Busy, NextTarget
<1> QED
  BY <1>3, <1>4, <1>5, <1>6 DEF IInv

LEMMA Invariant == Spec => []IInv
<1>1. IInv /\ [Next]_vars => IInv'
  BY Stutters, TypedStep, OnceStep, ChainStep, FollowStep DEF IInv
<1> QED
  BY <1>1, InitIInv, PTL DEF Spec

LEMMA LinksAre == \A p : LinksOf(p) = WebLinks(site, p)
  BY DEF LinksOf, WebLinks

(* LinkQueuedOnce, of extract_url, iscrawled and push_queue: jobs that     *)
(* read the same link at the same time queue it once.                      *)
THEOREM OnceQueued == Spec => []LinkQueuedOnce
<1>1. IInv => LinkQueuedOnce
  <2> SUFFICES ASSUME IInv PROVE LinkQueuedOnce
    OBVIOUS
  <2>1. DOMAIN Queued = 1 .. Len(Queued)
    BY QueuedSeq DEF IInv, Typed
  <2>2. \A i \in 1 .. Len(Queued) : Queued[i].level \in Nat
    BY DEF IInv, Typed, Levelled
  <2> QED
    BY <2>1, <2>2 DEF IInv, OnceInv, Once, LinkQueuedOnce
<1> QED
  BY <1>1, Invariant, PTL

(* LevelsChain: a level is the number of links from a seed, since each job *)
(* counts from the page it reads, whatever the others take meanwhile.      *)
THEOREM LevelsCount == Spec => []LevelsChain
<1>1. IInv => LevelsChain
  <2> SUFFICES ASSUME IInv, NEW i \in 1 .. Len(Queued) PROVE
        IF Queued[i].level = 0
        THEN \E k \in DOMAIN site.seeds : urlNormalized(site.seeds[k]) = Queued[i].url
        ELSE \E p \in received :
               /\ p.level + 1 = Queued[i].level
               /\ \E k \in DOMAIN LinksOf(p) : Target(LinksOf(p)[k], p.domain) = Queued[i].url
    <3>1. ASSUME IInv PROVE DOMAIN Queued = 1 .. Len(Queued)
      BY <3>1, QueuedSeq DEF IInv, Typed
    <3> QED
      BY <3>1 DEF LevelsChain
  <2>1. Chained(site, received, Queued[i])
    BY DEF IInv, ChainInv
  <2> QED
    BY <2>1, LinksAre DEF Chained
<1> QED
  BY <1>1, Invariant, PTL

(* Complete: when the queue is empty and no job is left, every seed and    *)
(* every link of a page that came has been taken, is no url, or was        *)
(* misjudged by the bloom filter.                                          *)
THEOREM NothingLost == Spec => []Complete
<1>1. IInv => Complete
  <2> SUFFICES ASSUME IInv, Quiet PROVE
        /\ \A k \in DOMAIN site.seeds :
             urlNormalized(site.seeds[k]) \in TakenUrls \cup {Null}
        /\ \A p \in received : \A k \in DOMAIN LinksOf(p) :
             Target(LinksOf(p)[k], p.domain) \in TakenUrls \cup misjudged \cup {Null}
    BY DEF Complete
  <2>1. /\ site \in Sites /\ site.seeds \in Seq(STRING)
        /\ Len(seeds) = 0 /\ Len(surl_queue) = 0
    BY EmptySeq DEF IInv, Typed, SeedsLeft, Quiet, FrontierAssumption
  <2>2. \A u : Found(u) => u \in TakenUrls
    <3> SUFFICES ASSUME NEW i \in 1 .. Len(Queued) PROVE Queued[i].url \in TakenUrls
      BY DEF Found
    <3>1. i \in 1 .. Len(taken) /\ Queued[i] = taken[i]
      BY <2>1, QueuedSeq DEF IInv, Typed
    <3>2. i \in DOMAIN taken
      <4>1. PICK S : taken \in Seq(S)
        BY DEF IInv, Typed, QueueSeq
      <4> QED
        BY <3>1, <4>1
    <3> QED
      BY <3>1, <3>2 DEF TakenUrls, Range
  <2>3. \A t \in Threads : ~Busy(t) /\ pc[t] # "push"
    BY DEF Quiet, Busy
  <2>4. \A u : Handled(u) => u \in TakenUrls \cup misjudged \cup {Null}
    BY <2>2, <2>3 DEF Handled
  <2>5. \A k \in DOMAIN site.seeds : urlNormalized(site.seeds[k]) \in TakenUrls \cup {Null}
    BY <2>1, <2>2 DEF IInv, FollowInv, SeedsFollowed
  <2>6. ASSUME NEW p \in received, NEW k \in DOMAIN LinksOf(p)
        PROVE  Target(LinksOf(p)[k], p.domain) \in TakenUrls \cup misjudged \cup {Null}
    <3>1. LinksOf(p) = WebLinks(site, p) /\ k \in 1 .. Len(WebLinks(site, p))
      BY <2>1, LinksAre, WebLinksSeq
    <3>2. LinkFollowed(p, WebLinks(site, p)[k])
      BY <3>1 DEF IInv, FollowInv, LinksFollowed
    <3>3. Handled(Target(WebLinks(site, p)[k], p.domain))
      BY <2>3, <3>2 DEF LinkFollowed, StillLeft
    <3> QED
      BY <2>4, <3>1, <3>3
  <2> QED
    BY <2>5, <2>6
<1> QED
  BY <1>1, Invariant, PTL

-----------------------------------------------------------------------------
(* The types of what is queued, fetched and asked about. *)
TextInv(C) ==
  /\ surl_queue \in Seq(SurlsOf(C)) /\ taken \in Seq(SurlsOf(C))
  /\ page \in [Threads -> OurlsOf(C)] /\ received \subseteq OurlsOf(C)
  /\ accepted \subseteq Seq(C) /\ misjudged \subseteq Seq(C)
  /\ asking \in [Threads -> Seq(C) \cup {Null}]
  /\ \A t \in Threads : pc[t] = "ask" => asking[t] # Null

LEMMA SurlIs ==
  ASSUME NEW C, NEW url \in Seq(C), NEW level \in Nat
  PROVE  Surl(url, level) \in SurlsOf(C)
  BY DEF Surl, SurlsOf

LEMMA NextTargetIs ==
  ASSUME NEW C, STRING = Seq(C), Typed, TextInv(C), NEW t \in Threads,
         Len(links[t]) > 0, NextTarget(t) # Null
  PROVE  NextTarget(t) \in Seq(C)
<1>1. links[t] \in Seq(STRING)
  BY DEF Typed, LinksLeft
<1>2. Head(links[t]) \in STRING
  <2>1. Head(links[t]) = links[t][1]
    OBVIOUS
  <2>2. 1 \in 1 .. Len(links[t])
    BY <1>1
  <2> QED
    BY <1>1, <2>1, <2>2, ElementOfSeq
<1>3. Head(links[t]) \in Seq(C)
  BY <1>2, Zenon
<1>4. page[t].domain \in Seq(C)
  BY DEF TextInv, OurlsOf
<1>5. Spelt(C)
  BY LiteralsSpelt, Zenon
<1>6. Target(Head(links[t]), page[t].domain) # Null
  BY DEF NextTarget
<1>7. Target(Head(links[t]), page[t].domain) \in Seq(C)
  BY <1>3, <1>4, <1>5, <1>6, TargetIs
<1> QED
  BY <1>7, Zenon DEF NextTarget

LEMMA TextInit ==
  ASSUME NEW C, STRING = Seq(C), Init
  PROVE  TextInv(C)
<1>1. /\ taken = <<>> /\ surl_queue = <<>> /\ pc = [t \in Threads |-> "idle"]
      /\ page = [t \in Threads |-> NoPage] /\ asking = [t \in Threads |-> Null]
      /\ accepted = {} /\ received = {} /\ misjudged = {}
  BY DEF Init, Seen!Init
<1>2. Spelt(C)
  BY LiteralsSpelt, Zenon
<1>3. NoPage \in OurlsOf(C)
  <2>1. "" \in Seq(C)
    BY <1>2, Zenon DEF Spelt, Nothing
  <2>2. Surl("", 0) \in SurlsOf(C)
    BY <2>1, SurlIs, Zenon
  <2> QED
    BY <1>2, <2>2, OurlIs, Zenon DEF NoPage
<1>4. <<>> \in Seq(SurlsOf(C))
  BY EmptySeq
<1>5. page \in [Threads -> OurlsOf(C)]
  BY <1>1, <1>3
<1>6. \A t \in Threads : pc[t] # "ask"
  BY <1>1
<1> QED
  BY <1>1, <1>4, <1>5, <1>6 DEF TextInv

LEMMA TextStep ==
  ASSUME NEW C, STRING = Seq(C), IInv, TextInv(C), Next
  PROVE  TextInv(C)'
<1> USE DEF TextInv
<1>0. Typed /\ OnceInv /\ Spelt(C)
  BY LiteralsSpelt, Zenon DEF IInv
<1>1. CASE AddSeed
  <2>1. /\ surl_queue' = surl_queue \/ (/\ urlNormalized(Last(seeds)) # Null
          /\ surl_queue' = Append(surl_queue, Surl(urlNormalized(Last(seeds)), 0)))
        /\ UNCHANGED <<pc, page, accepted, asking, taken, received, misjudged>>
        /\ seeds # <<>>
    BY <1>1 DEF AddSeed, jobVars, askVars
  <2>2. Last(seeds) \in STRING
    <3>1. seeds \in Seq(STRING)
      BY <1>0 DEF Typed, SeedsLeft
    <3>2. Len(seeds) \in 1 .. Len(seeds)
      BY <2>1, <3>1
    <3> QED
      BY <3>1, <3>2, ElementOfSeq DEF Last
  <2>3. Last(seeds) \in Seq(C)
    BY <2>2, Zenon
  <2>4. ASSUME urlNormalized(Last(seeds)) # Null
        PROVE  Surl(urlNormalized(Last(seeds)), 0) \in SurlsOf(C)
    <3>1. urlNormalized(Last(seeds)) \in Seq(C)
      BY <1>0, <2>3, <2>4, NormalIs
    <3> QED
      BY <3>1, SurlIs
  <2>5. surl_queue' \in Seq(SurlsOf(C))
    <3>1. CASE surl_queue' = surl_queue
      BY <3>1
    <3>2. CASE surl_queue' # surl_queue
      <4> DEFINE e == Surl(urlNormalized(Last(seeds)), 0)
      <4>1. e \in SurlsOf(C) /\ surl_queue' = Append(surl_queue, e)
        BY <2>1, <2>4, <3>2
      <4> HIDE DEF e
      <4> QED
        BY <4>1, AppendProperties
    <3> QED
      BY <3>1, <3>2
  <2> QED
    BY <2>1, <2>5
<1>2. ASSUME NEW t \in Threads, Take(t) PROVE TextInv(C)'
  <2>1. /\ surl_queue # <<>> /\ surl_queue' = Tail(surl_queue)
        /\ page' = [page EXCEPT ![t] = surl2Ourl(Head(surl_queue))]
        /\ taken' = Append(taken, Head(surl_queue))
        /\ pc' = [pc EXCEPT ![t] = "fetch"]
        /\ UNCHANGED <<accepted, asking, received, misjudged>>
    BY <1>2 DEF Take, askVars
  <2>2. Head(surl_queue) \in SurlsOf(C) /\ Tail(surl_queue) \in Seq(SurlsOf(C))
    BY <2>1, HeadTailProperties
  <2>3. surl2Ourl(Head(surl_queue)) \in OurlsOf(C)
    BY <1>0, <2>2, OurlIs
  <2>4. \A u \in Threads : pc'[u] = "ask" => pc[u] = "ask"
    BY <1>0, <2>1 DEF Typed
  <2>5. taken' \in Seq(SurlsOf(C)) /\ surl_queue' \in Seq(SurlsOf(C))
    BY <2>1, <2>2
  <2>6. page' \in [Threads -> OurlsOf(C)]
    BY <2>1, <2>3
  <2> QED
    BY <2>1, <2>4, <2>5, <2>6
<1>3. ASSUME NEW t \in Threads, FetchFails(t) \/ SkipLink(t) \/ Finish(t) PROVE TextInv(C)'
  <2>1. /\ UNCHANGED <<surl_queue, page, accepted, asking, taken, received, misjudged>>
        /\ pc' = pc \/ pc' = [pc EXCEPT ![t] = "idle"]
    BY <1>3 DEF FetchFails, SkipLink, Finish, askVars
  <2>2. \A u \in Threads : pc'[u] = "ask" => pc[u] = "ask"
    BY <1>0, <2>1 DEF Typed
  <2> QED
    BY <2>1, <2>2
<1>4. ASSUME NEW t \in Threads, Receive(t) PROVE TextInv(C)'
  <2>1. /\ UNCHANGED <<surl_queue, page, accepted, asking, taken, misjudged>>
        /\ pc' = [pc EXCEPT ![t] = "extract"] /\ received' = received \cup {page[t]}
    BY <1>4 DEF Receive, askVars
  <2>2. \A u \in Threads : pc'[u] = "ask" => pc[u] = "ask"
    BY <1>0, <2>1 DEF Typed
  <2>3. received' \subseteq OurlsOf(C)
    BY <2>1
  <2> QED
    BY <2>1, <2>2, <2>3
<1>5. ASSUME NEW t \in Threads, AskLink(t) PROVE TextInv(C)'
  <2>1. /\ UNCHANGED <<surl_queue, page, accepted, taken, received, misjudged>>
        /\ pc' = [pc EXCEPT ![t] = "ask"] /\ links[t] # <<>> /\ NextTarget(t) # Null
        /\ asking' = [asking EXCEPT ![t] = NextTarget(t)]
    BY <1>5 DEF AskLink, Seen!Ask
  <2>2. Len(links[t]) > 0
    BY <1>0, <2>1, EmptySeq DEF Typed, LinksLeft
  <2>3. NextTarget(t) \in Seq(C)
    BY <1>0, <2>1, <2>2, NextTargetIs, Zenon
  <2>4. asking' \in [Threads -> Seq(C) \cup {Null}]
    BY <2>1, <2>3
  <2>5. \A u \in Threads : pc'[u] = "ask" => asking'[u] # Null
    BY <1>0, <2>1 DEF Typed
  <2> QED
    BY <2>1, <2>4, <2>5
<1>6. ASSUME NEW t \in Threads, ToldNew(t) \/ ToldSeen(t) PROVE TextInv(C)'
  <2>1. /\ UNCHANGED <<surl_queue, page, taken, received>>
        /\ pc' = [pc EXCEPT ![t] = "push"] \/ pc' = [pc EXCEPT ![t] = "extract"]
        /\ asking' = [asking EXCEPT ![t] = Null]
        /\ accepted' \subseteq accepted \cup {asking[t]}
        /\ misjudged' \subseteq misjudged \cup {asking[t]}
    BY <1>6 DEF ToldNew, ToldSeen, Seen!AnswerNew, Seen!AnswerSeen
  <2>2. asking[t] \in STRING
    BY <1>6, Zenon DEF ToldNew, ToldSeen, Seen!AnswerNew, Seen!AnswerSeen
  <2>3. asking[t] \in Seq(C)
    BY <2>2, Zenon
  <2>4. accepted' \subseteq Seq(C) /\ misjudged' \subseteq Seq(C)
    BY <2>1, <2>3
  <2>5. asking' \in [Threads -> Seq(C) \cup {Null}]
    BY <2>1
  <2>6. \A u \in Threads : pc'[u] = "ask" => asking'[u] # Null
    BY <1>0, <2>1 DEF Typed
  <2> QED
    BY <2>1, <2>4, <2>5, <2>6
<1>7. ASSUME NEW t \in Threads, Push(t) PROVE TextInv(C)'
  <2>1. /\ UNCHANGED <<page, accepted, asking, taken, received, misjudged>>
        /\ pc[t] = "push" /\ pc' = [pc EXCEPT ![t] = "extract"]
        /\ surl_queue' = Append(surl_queue, Surl(NextTarget(t), page[t].level + 1))
    BY <1>7 DEF Push, askVars
  <2>2. NextTarget(t) \in Seq(C)
    BY <1>0, <2>1 DEF OnceInv, Owns
  <2>3. page[t].level + 1 \in Nat
    BY DEF OurlsOf
  <2>4. Surl(NextTarget(t), page[t].level + 1) \in SurlsOf(C)
    BY <2>2, <2>3, SurlIs
  <2>5. surl_queue' \in Seq(SurlsOf(C))
    BY <2>1, <2>4
  <2>6. \A u \in Threads : pc'[u] = "ask" => pc[u] = "ask"
    BY <1>0, <2>1 DEF Typed
  <2> QED
    BY <2>1, <2>5, <2>6
<1> QED
  BY <1>1, <1>2, <1>3, <1>4, <1>5, <1>6, <1>7 DEF Next

LEMMA TextsTyped ==
  ASSUME NEW C, STRING = Seq(C)
  PROVE  Spec => [](IInv /\ TextInv(C))
<1>1. Init => IInv /\ TextInv(C)
  BY InitIInv, TextInit
<1>2. IInv /\ TextInv(C) /\ [Next]_vars => IInv' /\ TextInv(C)'
  <2>1. ASSUME IInv, TextInv(C), UNCHANGED vars PROVE TextInv(C)'
    BY <2>1 DEF TextInv, vars, jobVars, askVars
  <2>2. IInv /\ [Next]_vars => IInv'
    BY Stutters, TypedStep, OnceStep, ChainStep, FollowStep DEF IInv
  <2> QED
    BY <2>1, <2>2, TextStep
<1> QED
  BY <1>1, <1>2, PTL DEF Spec

(* TypeOK: what extract_url, addUrlSeed and surl2Ourl leave in the queues  *)
(* and the Urls are texts with a level, and NULL is never queued.          *)
THEOREM TypeCorrect == StringsAreSequences => (Spec => []TypeOK)
<1> SUFFICES ASSUME NEW C, STRING = Seq(C) PROVE Spec => []TypeOK
  BY DEF StringsAreSequences
<1>1. IInv /\ TextInv(C) => TypeOK
  <2> SUFFICES ASSUME IInv, TextInv(C) PROVE TypeOK
    OBVIOUS
  <2>1. Surls = SurlsOf(C) /\ Ourls = OurlsOf(C)
    BY Zenon DEF Surls, SurlsOf, Ourls, OurlsOf
  <2>2. /\ site \in Sites /\ seeds \in Seq(STRING) /\ links \in [Threads -> Seq(STRING)]
        /\ pc \in [Threads -> {"idle", "fetch", "extract", "ask", "push"}]
    BY DEF IInv, Typed, SeedsLeft, LinksLeft
  <2>3. /\ surl_queue \in Seq(Surls) /\ taken \in Seq(Surls)
        /\ page \in [Threads -> Ourls] /\ received \subseteq Ourls
    BY <2>1, Zenon DEF TextInv
  <2>4. /\ accepted \subseteq STRING /\ misjudged \subseteq STRING
        /\ asking \in [Threads -> STRING \cup {Null}]
    BY Zenon DEF TextInv
  <2> QED
    BY <2>2, <2>3, <2>4, Zenon DEF TypeOK
<1> QED
  BY <1>1, TextsTyped, PTL

(* surl2Ourl cuts the host at the first slash and the first colon. *)
HostsPlain == \A t \in Threads : Plain(page[t].domain)

LEMMA HostsStayPlain ==
  ASSUME NEW C, STRING = Seq(C)
  PROVE  Spec => [](IInv /\ TextInv(C) /\ HostsPlain)
<1>1. Init => HostsPlain
  <2> SUFFICES ASSUME Init PROVE HostsPlain
    OBVIOUS
  <2>1. Spelt(C)
    BY LiteralsSpelt, Zenon
  <2>2. "" \in Seq(C)
    BY <2>1, Zenon DEF Spelt, Nothing
  <2>3. Surl("", 0) \in SurlsOf(C)
    BY <2>2, SurlIs, Zenon
  <2>4. Plain(NoPage.domain)
    BY <2>3, OurlPlain, Zenon DEF NoPage
  <2>5. \A t \in Threads : page[t] = NoPage
    BY DEF Init
  <2> QED
    BY <2>4, <2>5, Zenon DEF HostsPlain
<1>2. IInv /\ TextInv(C) /\ HostsPlain /\ [Next]_vars => HostsPlain'
  <2> SUFFICES ASSUME IInv, TextInv(C), HostsPlain, [Next]_vars PROVE HostsPlain'
    OBVIOUS
  <2>1. ASSUME NEW t \in Threads, Take(t) PROVE HostsPlain'
    <3>1. /\ surl_queue # <<>> /\ surl_queue \in Seq(SurlsOf(C)) /\ page \in [Threads -> OurlsOf(C)]
          /\ page' = [page EXCEPT ![t] = surl2Ourl(Head(surl_queue))]
      BY <2>1 DEF Take, TextInv
    <3>2. Head(surl_queue) \in SurlsOf(C)
      BY <3>1, HeadTailProperties
    <3>3. Plain(surl2Ourl(Head(surl_queue)).domain)
      BY <3>2, OurlPlain
    <3>4. \A u \in Threads : page'[u] = IF u = t THEN surl2Ourl(Head(surl_queue)) ELSE page[u]
      BY <3>1
    <3> QED
      BY <3>3, <3>4 DEF HostsPlain
  <2>2. ASSUME page' = page PROVE HostsPlain'
    BY <2>2 DEF HostsPlain
  <2>3. CASE Next
    BY <2>1, <2>2, <2>3
       DEF Next, AddSeed, FetchFails, Receive, SkipLink, AskLink, ToldNew, ToldSeen, Push,
           Finish, jobVars
  <2>4. CASE UNCHANGED vars
    BY <2>2, <2>4 DEF vars, jobVars
  <2> QED
    BY <2>3, <2>4
<1> QED
  BY <1>1, <1>2, TextsTyped, PTL DEF Spec

(* TargetMeansLink, of attach_domain and urlNormalized: whatever the link  *)
(* and its page, the url iscrawled is asked about is the one it means if   *)
(* and only if the link is not misread for one of the three reasons.       *)
THEOREM LinksMeant == StringsAreSequences => (Spec => []TargetMeansLink)
<1> SUFFICES ASSUME NEW C, STRING = Seq(C) PROVE Spec => []TargetMeansLink
  BY DEF StringsAreSequences
<1>1. IInv /\ TextInv(C) /\ HostsPlain => TargetMeansLink
  <2> SUFFICES ASSUME IInv, TextInv(C), HostsPlain, NEW t \in Threads, pc[t] = "ask",
                      Spoken(WithoutSpaces(Head(links[t])), page[t])
               PROVE  LET link == WithoutSpaces(Head(links[t]))
                          forms == {asking[t], asking[t] \o "/"}
                      IN  (\E url \in forms : Means(link, page[t], url))
                            <=> ~Misread(link, page[t])
    BY Zenon DEF TargetMeansLink
  <2> DEFINE raw == Head(links[t])
             p == page[t]
             a == asking[t]
  <2>1. a = Target(raw, p.domain) /\ Target(raw, p.domain) # Null
    BY DEF IInv, OnceInv, Asks, NextTarget, TextInv
  <2>2. p \in OurlsOf(C) /\ Plain(p.domain)
    BY DEF TextInv, HostsPlain
  <2>3. raw \in Seq(C)
    <3>1. links[t] \in Seq(STRING) /\ Len(links[t]) > 0
      BY DEF IInv, Typed, LinksLeft, LinksLeftOf
    <3>2. 1 \in 1 .. Len(links[t]) /\ raw = links[t][1]
      BY <3>1
    <3>3. raw \in STRING
      BY <3>1, <3>2, ElementOfSeq
    <3> QED
      BY <3>3, Zenon
  <2>4. Spelt(C)
    BY LiteralsSpelt, Zenon
  <2>5. Spoken(WithoutSpaces(raw), p)
    OBVIOUS
  <2> HIDE DEF raw, p, a
  <2>6. (\E u \in {a, a \o Slash} : Means(WithoutSpaces(raw), p, u))
          <=> ~Misread(WithoutSpaces(raw), p)
    <3>1. CASE IsPrefix(Slash, WithoutSpaces(raw))
      BY <2>1, <2>2, <2>3, <2>4, <2>5, <3>1, RootMeans
    <3>2. CASE ~IsPrefix(Slash, WithoutSpaces(raw))
      BY <2>1, <2>2, <2>3, <2>4, <2>5, <3>2, AbsoluteMeans
    <3> QED
      BY <3>1, <3>2
  <2> QED
    BY <2>6, Zenon DEF raw, p, a, Slash
<1> QED
  BY <1>1, HostsStayPlain, PTL

(* FilesApart, of url2fn: two pages are saved to one file only if they are *)
(* on one host and their paths are the same but for slashes.               *)
THEOREM FilesDiffer == StringsAreSequences => (Spec => []FilesApart)
<1> SUFFICES ASSUME NEW C, STRING = Seq(C) PROVE Spec => []FilesApart
  BY DEF StringsAreSequences
<1>1. IInv /\ TextInv(C) => FilesApart
  <2> SUFFICES ASSUME TextInv(C) PROVE FilesApart
    OBVIOUS
  <2>1. Spelt(C) /\ received \subseteq OurlsOf(C)
    BY LiteralsSpelt, Zenon DEF TextInv
  <2> QED
    BY <2>1, NamesApart, Zenon DEF FilesApart
<1> QED
  BY <1>1, TextsTyped, PTL
=============================================================================
