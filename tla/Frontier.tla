------------------------------ MODULE Frontier ------------------------------
(***************************************************************************)
(* Which pages the spider visits, and at which level.  initApp queues the  *)
(* seeds; a job takes a Surl, receives its page and runs extract_url over  *)
(* the links.  iscrawled is SeenSet, which BloomFilter implements: the     *)
(* question and the answer are two steps, and jobs ask at the same time.   *)
(* Crawler models how a Surl gets from surl_queue to its thread; here that *)
(* is one step, and the page arrives in another or not at all.             *)
(***************************************************************************)
EXTENDS UrlText

CONSTANTS
  Threads,   \* the jobs: max_job_num pages on their way at once
  Sites,     \* what the servers may hold, with the seeds to start from
  max_depth

ASSUME FrontierAssumption ==
  \A s \in Sites :
    /\ s.seeds \in Seq(STRING)
    /\ \A p \in DOMAIN s.pages : s.pages[p] \in Seq(STRING)

VARIABLES
  site,                      \* chosen at the start and never changed
  seeds,                     \* those initApp has still to add
  surl_queue,
  pc, page, links,           \* per job: its Url and the links left on its page
  accepted, asking, answer,  \* iscrawled
  taken,                     \* history: the Surls taken from the queue
  received,                  \* history: the Urls whose page arrived
  misjudged                  \* history: links called seen that nobody saw

askVars == <<accepted, asking, answer>>
jobVars == <<pc, page, links>>
vars == <<site, seeds, surl_queue, jobVars, askVars, taken, received, misjudged>>

Seen == INSTANCE SeenSet WITH Keys <- STRING, NoKey <- Null

Surl(url, level) == [url |-> url, level |-> level]

(* What extract_url makes of a link on a page of `domain'.                 *)
Target(link, domain) ==
  LET url == IF is_bin_url(link) THEN Null ELSE attach_domain(link, domain)
  IN  IF url = Null THEN Null ELSE urlNormalized(url)

(* A server asked for what it does not have sends no links.                *)
LinksOf(ourl) ==
  LET at == <<ourl.domain, ourl.port, ourl.path>>
  IN  IF at \in DOMAIN site.pages THEN site.pages[at] ELSE <<>>

NoPage == surl2Ourl(Surl("", 0))

Init ==
  /\ site \in Sites
  /\ seeds = site.seeds
  /\ surl_queue = <<>>
  /\ pc = [t \in Threads |-> "idle"]
  /\ page = [t \in Threads |-> NoPage]
  /\ links = [t \in Threads |-> <<>>]
  /\ Seen!Init
  /\ taken = <<>> /\ received = {} /\ misjudged = {}

-----------------------------------------------------------------------------
(* Mutant: urlNormalized's NULL is not tested. *)
AddSeedUnchecked ==
  /\ seeds # <<>>
  /\ surl_queue' = Append(surl_queue, Surl(urlNormalized(Last(seeds)), 0))
  /\ seeds' = Front(seeds)
  /\ UNCHANGED <<site, jobVars, askVars, taken, received, misjudged>>

(* initApp: the last seed first, and none of them is shown to iscrawled.   *)
AddSeed ==
  /\ seeds # <<>>
  /\ LET url == urlNormalized(Last(seeds))
     IN  surl_queue' = IF url = Null THEN surl_queue ELSE Append(surl_queue, Surl(url, 0))
  /\ seeds' = Front(seeds)
  /\ UNCHANGED <<site, jobVars, askVars, taken, received, misjudged>>

Take(t) ==
  /\ seeds = <<>> /\ surl_queue # <<>>
  /\ pc[t] = "idle"
  /\ pc' = [pc EXCEPT ![t] = "fetch"]
  /\ page' = [page EXCEPT ![t] = surl2Ourl(Head(surl_queue))]
  /\ surl_queue' = Tail(surl_queue)
  /\ taken' = Append(taken, Head(surl_queue))
  /\ UNCHANGED <<site, seeds, links, askVars, received, misjudged>>

(* The name, the connection, the header or the reading fails.              *)
FetchFails(t) ==
  /\ pc[t] = "fetch"
  /\ pc' = [pc EXCEPT ![t] = "idle"]
  /\ UNCHANGED <<site, seeds, surl_queue, page, links, askVars, taken, received, misjudged>>

Receive(t) ==
  /\ pc[t] = "fetch"
  /\ pc' = [pc EXCEPT ![t] = "extract"]
  /\ links' = [links EXCEPT ![t] = LinksOf(page[t])]
  /\ received' = received \cup {page[t]}
  /\ UNCHANGED <<site, seeds, surl_queue, page, askVars, taken, misjudged>>

NextTarget(t) == Target(Head(links[t]), page[t].domain)

SkipLink(t) ==
  /\ pc[t] = "extract" /\ links[t] # <<>>
  /\ NextTarget(t) = Null
  /\ links' = [links EXCEPT ![t] = Tail(@)]
  /\ UNCHANGED <<site, seeds, surl_queue, pc, page, askVars, taken, received, misjudged>>

AskLink(t) ==
  /\ pc[t] = "extract" /\ links[t] # <<>>
  /\ NextTarget(t) # Null
  /\ Seen!Ask(t, NextTarget(t))
  /\ pc' = [pc EXCEPT ![t] = "ask"]
  /\ UNCHANGED <<site, seeds, surl_queue, page, links, taken, received, misjudged>>

ToldNew(t) ==
  /\ pc[t] = "ask"
  /\ Seen!AnswerNew(t)
  /\ pc' = [pc EXCEPT ![t] = "push"]
  /\ UNCHANGED <<site, seeds, surl_queue, page, links, taken, received, misjudged>>

(* Mutant: the test of iscrawled's answer is inverted for what was seen.   *)
ToldSeenPushes(t) ==
  /\ pc[t] = "ask"
  /\ Seen!AnswerSeen(t)
  /\ pc' = [pc EXCEPT ![t] = "push"]
  /\ UNCHANGED <<site, seeds, surl_queue, page, links, taken, received, misjudged>>

(* Mutant: a link that was seen ends the extraction. *)
ToldSeenStops(t) ==
  /\ pc[t] = "ask"
  /\ Seen!AnswerSeen(t)
  /\ pc' = [pc EXCEPT ![t] = "extract"]
  /\ links' = [links EXCEPT ![t] = <<>>]
  /\ misjudged' = IF asking[t] \in accepted THEN misjudged ELSE misjudged \cup {asking[t]}
  /\ UNCHANGED <<site, seeds, surl_queue, page, taken, received>>

ToldSeen(t) ==
  /\ pc[t] = "ask"
  /\ Seen!AnswerSeen(t)
  /\ pc' = [pc EXCEPT ![t] = "extract"]
  /\ links' = [links EXCEPT ![t] = Tail(@)]
  /\ misjudged' = IF asking[t] \in accepted THEN misjudged ELSE misjudged \cup {asking[t]}
  /\ UNCHANGED <<site, seeds, surl_queue, page, taken, received>>

(* Mutant: the link is queued at the level of its page. *)
PushSameLevel(t) ==
  /\ pc[t] = "push"
  /\ surl_queue' = Append(surl_queue, Surl(NextTarget(t), page[t].level))
  /\ pc' = [pc EXCEPT ![t] = "extract"]
  /\ links' = [links EXCEPT ![t] = Tail(@)]
  /\ UNCHANGED <<site, seeds, page, askVars, taken, received, misjudged>>

Push(t) ==
  /\ pc[t] = "push"
  /\ surl_queue' = Append(surl_queue, Surl(NextTarget(t), page[t].level + 1))
  /\ pc' = [pc EXCEPT ![t] = "extract"]
  /\ links' = [links EXCEPT ![t] = Tail(@)]
  /\ UNCHANGED <<site, seeds, page, askVars, taken, received, misjudged>>

Finish(t) ==
  /\ pc[t] = "extract" /\ links[t] = <<>>
  /\ pc' = [pc EXCEPT ![t] = "idle"]
  /\ UNCHANGED <<site, seeds, surl_queue, page, links, askVars, taken, received, misjudged>>

Next ==
  \/ AddSeed
  \/ \E t \in Threads :
       \/ Take(t) \/ FetchFails(t) \/ Receive(t)
       \/ SkipLink(t) \/ AskLink(t) \/ ToldNew(t) \/ ToldSeen(t) \/ Push(t)
       \/ Finish(t)

Spec == Init /\ [][Next]_vars

-----------------------------------------------------------------------------
Surls == [url : STRING, level : Nat]
Ourls == [domain : STRING, port : Int, path : STRING, level : Nat]

TypeOK ==
  /\ site \in Sites
  /\ seeds \in Seq(STRING)
  /\ surl_queue \in Seq(Surls) /\ taken \in Seq(Surls)
  /\ pc \in [Threads -> {"idle", "fetch", "extract", "ask", "push"}]
  /\ page \in [Threads -> Ourls] /\ received \subseteq Ourls
  /\ links \in [Threads -> Seq(STRING)]
  /\ accepted \subseteq STRING /\ misjudged \subseteq STRING
  /\ asking \in [Threads -> STRING \cup {Null}]

(* Everything that was ever queued, in order. *)
Queued == taken \o surl_queue

(* A page is queued at most once on account of the links to it, however    *)
(* many pages with such a link are read at the same time.  Only a seed can *)
(* make it come a second time: addUrlSeed does not ask iscrawled.          *)
LinkQueuedOnce ==
  \A i, j \in DOMAIN Queued :
    /\ Queued[i].level > 0 /\ Queued[j].level > 0
    /\ Queued[i].url = Queued[j].url
    => i = j

(* The level of a queued page is the length of a chain of pages, each of   *)
(* them received and linking to the next, from a seed on.  extract_url     *)
(* takes it from the page of its own thread while others queue theirs.     *)
LevelsChain ==
  \A i \in DOMAIN Queued :
    IF Queued[i].level = 0
    THEN \E k \in DOMAIN site.seeds : urlNormalized(site.seeds[k]) = Queued[i].url
    ELSE \E p \in received :
           /\ p.level + 1 = Queued[i].level
           /\ \E k \in DOMAIN LinksOf(p) : Target(LinksOf(p)[k], p.domain) = Queued[i].url

Quiet ==
  seeds = <<>> /\ surl_queue = <<>> /\ \A t \in Threads : pc[t] = "idle"

TakenUrls == {s.url : s \in Range(taken)}

(* When nothing is left to do, the seeds and all that the pages that came  *)
(* link to have been tried, but for the links the bloom filter misjudged:  *)
(* a link found by two pages at once is not lost between them.             *)
Complete ==
  Quiet =>
    /\ \A k \in DOMAIN site.seeds :
         urlNormalized(site.seeds[k]) \in TakenUrls \cup {Null}
    /\ \A p \in received : \A k \in DOMAIN LinksOf(p) :
         Target(LinksOf(p)[k], p.domain) \in TakenUrls \cup misjudged \cup {Null}

Schemes == {"http://", "https://"}
NoServer == "//"

Absolute(link) == \E s \in Schemes : IsPrefix(s, link)

(* What a link on page p means as a url without its scheme: an absolute    *)
(* one what follows the scheme, "//" another server, "/" a path of the     *)
(* server that sent the page.                                              *)
Means(link, p, url) ==
  \/ \E s \in Schemes \cup {NoServer} : link = s \o url
  \/ /\ IsPrefix("/", link) /\ ~IsPrefix(NoServer, link)
     /\ LET request == surl2Ourl(Surl(url, p.level))
        IN  request = [p EXCEPT !.path = From(link, 1)]

(* Where attach_domain and urlNormalized go wrong: they know no "//", the  *)
(* page's port is forgotten, and a host that begins with "http" is cut     *)
(* short, although url.c says that it is http(s):// that is removed.       *)
Misread(link, p) ==
  /\ IsPrefix("/", link)
  /\ \/ IsPrefix(NoServer, link)
     \/ p.port # 80
     \/ IsPrefix("http", p.domain) /\ Len(p.domain \o link) > 7

(* Nothing is said of a relative link (dropped unless it begins with       *)
(* "http"), of "http://" alone, and of "//" on a host that begins with     *)
(* "http", where two errors may cancel each other out.                     *)
Spoken(link, p) ==
  \/ Absolute(link) /\ link # "http://"
  \/ IsPrefix("/", link) /\ ~(IsPrefix(NoServer, link) /\ IsPrefix("http", p.domain))

(* The url that iscrawled is asked about is the one the link means, be the *)
(* slash at its end and the spaces behind it given or not, exactly where   *)
(* the link is not misread; the url asked about for a misread link is      *)
(* always another one than it means.                                       *)
TargetMeansLink ==
  \A t \in Threads : pc[t] = "ask" =>
    LET link == WithoutSpaces(Head(links[t]))
        forms == {asking[t], asking[t] \o "/"}
    IN  Spoken(link, page[t]) =>
          ((\E url \in forms : Means(link, page[t], url)) <=> ~Misread(link, page[t]))

Blurred(c) == IF c = "/" THEN "_" ELSE c

ProperHost(p) == Places(p.domain, "_") = {}

(* Two pages that savehtml writes to one file are on the same host, and    *)
(* their paths differ at most in a slash against an underscore: other      *)
(* pages do not overwrite each other.  The port does not tell them apart.  *)
(* The exception are names of hosts with an underscore, which no host may  *)
(* have but a link can.                                                    *)
FilesApart ==
  \A p, q \in received : url2fn(p) = url2fn(q) /\ ProperHost(p) /\ ProperHost(q) =>
    /\ p.domain = q.domain
    /\ Len(p.path) = Len(q.path)
    /\ \A k \in 1 .. Len(p.path) : Blurred(Char(p.path, k)) = Blurred(Char(q.path, k))

(* No page below max_depth is queued.                                      *)
DepthKept == \A i \in DOMAIN surl_queue : surl_queue[i].level <= max_depth
=============================================================================
