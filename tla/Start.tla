------------------------------- MODULE Start --------------------------------
(***************************************************************************)
(* initApp as main calls it: the configuration is read (Config), each      *)
(* module it names is loaded and its init appends it to one of the module  *)
(* queues, intrusive lists that recv_response walks later; the seeds are   *)
(* required, the process may become a daemon.  Every error exits.  What    *)
(* addUrlSeed does with the seeds is in Frontier.                          *)
(***************************************************************************)
EXTENDS Config, List

CONSTANT Libraries  \* which files dlopen and dlsym find, as <<path, name>>,
                    \* and the queue the module's init appends to

Queues == {"pre_surl", "post_header", "post_html"}

\* A library opened twice is the same memory: the list_head of a module is
\* named for the module.
Modules == {lib[2] : lib \in DOMAIN Libraries}

ASSUME StartAssumption ==
  /\ Libraries \in [DOMAIN Libraries -> Queues] /\ IsFiniteSet(DOMAIN Libraries)
  /\ Modules \cap Queues = {}

VARIABLES
  stage,    \* what initApp does next; "run" behind it, "exit"
  loaded,   \* elements of load_module dealt with
  links,    \* the pointers of the heads and the modules
  bufSize,
  order     \* history: what was appended to each queue

startVars == <<stage, loaded, links, bufSize, order>>

StartInit ==
  /\ ConfigInit
  /\ stage = "open"
  /\ loaded = 0
  /\ links = [n \in Queues \cup Modules |-> list_head(Null, Null)]
  /\ bufSize = [q \in Queues |-> 0]
  /\ order = [q \in Queues |-> <<>>]

Advance(s, next) == stage = s /\ stage' = next

OpenConfig ==
  Advance("open", "config") /\ UNCHANGED <<vars, confVars, loaded, links, bufSize, order>>

(* getConfAbsolutePath, fopen; fork, getDownloadAbsolutePath.              *)
SystemFails ==
  /\ Advance("open", "exit") \/ Advance("system", "exit")
  /\ UNCHANGED <<vars, confVars, loaded, links, bufSize, order>>

LoadConfig ==
  stage = "config" /\ ConfigNext /\ UNCHANGED startVars

module_init ==
  /\ Advance("config", "modules")
  /\ pc = "done" /\ state = "on"
  /\ bufSize' = [q \in Queues |-> 0]
  /\ links' = INIT_LIST_HEAD(INIT_LIST_HEAD(INIT_LIST_HEAD(
                links, "pre_surl"), "post_header"), "post_html")
  /\ UNCHANGED <<vars, confVars, loaded, order>>

Loading == stage = "modules" /\ loaded < Len(g_conf.load_module)

Library == <<g_conf.module_path, g_conf.load_module[loaded + 1]>>

(* Mutant: a module goes before those loaded earlier. *)
PushFront(q, e) ==
  /\ links' = list_add(links, e, q)
  /\ bufSize' = [bufSize EXCEPT ![q] = @ + 1]

push_module_queue(q, e) ==
  /\ links' = list_add_tail(links, e, q)
  /\ bufSize' = [bufSize EXCEPT ![q] = @ + 1]

dso_load ==
  /\ Loading
  /\ Library \in DOMAIN Libraries
  /\ push_module_queue(Libraries[Library], Library[2])
  /\ loaded' = loaded + 1
  /\ order' = [order EXCEPT ![Libraries[Library]] = Append(@, Library[2])]
  /\ UNCHANGED <<vars, confVars, stage>>

LoadFails ==
  /\ Loading
  /\ Library \notin DOMAIN Libraries
  /\ stage' = "exit"
  /\ UNCHANGED <<vars, confVars, loaded, links, bufSize, order>>

Seeds ==
  /\ Advance("modules", IF g_conf.seeds = Null THEN "exit" ELSE "system")
  /\ loaded = Len(g_conf.load_module)
  /\ UNCHANGED <<vars, confVars, loaded, links, bufSize, order>>

Run ==
  Advance("system", "run") /\ UNCHANGED <<vars, confVars, loaded, links, bufSize, order>>

StartNext ==
  \/ OpenConfig \/ SystemFails \/ LoadConfig \/ module_init
  \/ dso_load \/ LoadFails \/ Seeds \/ Run

allVars == <<vars, confVars, startVars>>

StartSpec == StartInit /\ [][StartNext]_allVars /\ WF_allVars(StartNext)

-----------------------------------------------------------------------------
(* A reference for what a walk over a queue calls: each module once, in    *)
(* the order of the configuration, except that one loaded again cuts out   *)
(* what was loaded into its queue since.                                   *)
Called(s) ==
  LET from[k \in 1 .. (Len(s) + 1)] ==
        IF k > Len(s) THEN <<>>
        ELSE <<s[k]>> \o from[1 + Max({l \in k .. Len(s) : s[l] = s[k]})]
  IN  from[1]

(* The loops of recv_response and header_postcheck over a queue end and    *)
(* call what they should, unless the module loaded into it last was the    *)
(* one before too: it is then its own successor, and they never end.       *)
WalkExact ==
  stage = "run" =>
    \A q \in Queues :
      LET s == order[q]
          n == Len(s)
      IN  /\ bufSize[q] = n
          /\ WalkEnds(links, q) <=> ~(n > 1 /\ s[n] = s[n - 1])
          /\ WalkEnds(links, q) => list_for_each(links, q) = Called(s)

Once(s) == \A k, l \in 1 .. Len(s) : s[k] = s[l] => k = l

(* The k-th node of a queue in the order of loading, its head before and   *)
(* behind the others.                                                      *)
Node(q, k) == IF k \in 1 .. Len(order[q]) THEN order[q][k] ELSE q

(* A queue into which no module was loaded twice is a ring: the pointers   *)
(* lead from its head through its modules in their order and back again.   *)
Linked ==
  stage \in {"modules", "system", "run"} =>
    \A q \in Queues : Once(order[q]) =>
      \A k \in 0 .. Len(order[q]) :
        /\ links[Node(q, k)].next = Node(q, k + 1)
        /\ links[Node(q, k + 1)].prev = Node(q, k)

(* Starting with a configuration without quotes ends, in the crawl or with *)
(* an error.                                                               *)
Starts ==
  ~Quoted(file) => <>(stage \in {"run", "exit"} \/ state = "exit")
=============================================================================
