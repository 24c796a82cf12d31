---------------------------- MODULE StartProofs -----------------------------
(* Theorems about Start: reading goes on as in Config, and the module      *)
(* queues are rings in the order of loading.                               *)
EXTENDS Start, ConfigProofs, Foundations, FiniteSetTheorems

-----------------------------------------------------------------------------
(* Starting implements the reading of a configuration: what comes before   *)
(* and behind it leaves its state alone.                                   *)
THEOREM StartReads ==
  StartSpec => ConfigInit /\ [][ConfigNext]_<<vars, confVars>>
<1>1. StartInit => ConfigInit
  BY DEF StartInit
<1>2. [StartNext]_allVars => [ConfigNext]_<<vars, confVars>>
  BY DEF StartNext, allVars, OpenConfig, SystemFails, LoadConfig, module_init,
         dso_load, LoadFails, Seeds, Run
<1> QED
  BY <1>1, <1>2, PTL DEF StartSpec

(* When initApp reads its file, the headers of its strings stay exact, each *)
(* token has a place, and no line is lost or shifted.                      *)
THEOREM StartLines == StartSpec => [](RoomKept /\ SlotFree /\ LinesKept)
  BY StartReads, ReadingImplements, Rooms, Slots, Lines, PTL

(* ConfExact, of initApp's call of loadConfig: whatever the file says, the  *)
(* options that modules and seeds are then taken from are what it says.    *)
THEOREM StartConf == StringsAreSequences => (StartSpec => []ConfExact)
  BY StartReads, ReadingExact, PTL

-----------------------------------------------------------------------------
Nodes == Queues \cup Modules

Pointers == Nodes \cup {Null}

Heads == [next : Pointers, prev : Pointers]

(* What an insertion at the tail does to the pointers, of a node that is   *)
(* the last one already too.                                               *)
LEMMA AddTail ==
  ASSUME NEW mem \in [Nodes -> Heads],
         NEW head \in Nodes, NEW new \in Nodes \ {head},
         NEW p \in Nodes, p = mem[head].prev,
         NEW m, m = list_add_tail(mem, new, head)
  PROVE  /\ m \in [Nodes -> Heads]
         /\ m[head].prev = new
         /\ \A x \in Nodes \ {new, head} : m[x].prev = mem[x].prev
         /\ \A x \in Nodes \ {new, p} : m[x].next = mem[x].next
         /\ p # new => m[p].next = new /\ m[new].next = head /\ m[new].prev = p
         /\ p = new => m[new].next = new
<1> DEFINE a == [mem EXCEPT ![head].prev = new]
           b == [a EXCEPT ![new].next = head]
           c == [b EXCEPT ![new].prev = p]
           d == [c EXCEPT ![p].next = new]
<1>1. m = d
  BY DEF list_add_tail, list_insert
<1>2. a \in [Nodes -> Heads]
  BY DEF Heads, Pointers
<1>3. b \in [Nodes -> Heads]
  BY <1>2 DEF Heads, Pointers
<1>4. c \in [Nodes -> Heads]
  <2>1. c = [b EXCEPT ![new] = [b[new] EXCEPT !.prev = p]]
    BY <1>3
  <2>2. b[new] \in Heads /\ p \in Pointers
    BY <1>3 DEF Pointers
  <2>3. [b[new] EXCEPT !.prev = p] \in Heads
    BY <2>2 DEF Heads
  <2> QED
    BY <1>3, <2>1, <2>3
<1>5. d \in [Nodes -> Heads]
  BY <1>4 DEF Heads, Pointers
<1>6. \A x \in Nodes : /\ a[x].next = mem[x].next
                   /\ a[x].prev = IF x = head THEN new ELSE mem[x].prev
  BY DEF Heads, Pointers
<1>7. \A x \in Nodes : /\ b[x].next = IF x = new THEN head ELSE a[x].next
                   /\ b[x].prev = a[x].prev
  BY <1>2 DEF Heads, Pointers
<1>8. \A x \in Nodes : /\ c[x].next = b[x].next
                   /\ c[x].prev = IF x = new THEN p ELSE b[x].prev
  BY <1>3 DEF Heads, Pointers
<1>9. \A x \in Nodes : /\ d[x].next = IF x = p THEN new ELSE c[x].next
                   /\ d[x].prev = c[x].prev
  <2> DEFINE r == [c[p] EXCEPT !.next = new]
  <2>1. d = [c EXCEPT ![p] = r]
    BY <1>4
  <2>2. \A x \in Nodes : d[x] = IF x = p THEN r ELSE c[x]
    BY <1>4, <2>1
  <2>3. c[p] \in Heads
    BY <1>4
  <2>4. r.next = new /\ r.prev = c[p].prev
    BY <2>3 DEF Heads
  <2> HIDE DEF r, d
  <2> QED
    BY <2>2, <2>4
<1> HIDE DEF a, b, c, d
<1> QED
  BY <1>1, <1>5, <1>6, <1>7, <1>8, <1>9

-----------------------------------------------------------------------------
Ready == stage \in {"modules", "system", "run"}

(* A module is in the queue that its library names, under the one path     *)
(* there is, so that no two queues share a node.                           *)
OwnQueue ==
  \A q \in Queues : \A k \in 1 .. Len(order[q]) :
    /\ <<g_conf.module_path, order[q][k]>> \in DOMAIN Libraries
    /\ Libraries[<<g_conf.module_path, order[q][k]>>] = q

(* Behind the head always comes the module loaded last. *)
Tails == \A q \in Queues : links[q].prev = Node(q, Len(order[q]))

(* Where a queue's next pointers lead, whatever was loaded twice: from the *)
(* latest place of a module in the order of loading to the one behind it.  *)
Latest(s, l) == \A k \in (l + 1) .. Len(s) : s[k] # s[l]

Stuck(s) == Len(s) > 1 /\ s[Len(s)] = s[Len(s) - 1]

Chain(mem, q, s) ==
  /\ mem[q].next = IF s = <<>> THEN q ELSE s[1]
  /\ \A l \in 1 .. Len(s) : Latest(s, l) =>
       mem[s[l]].next = IF l < Len(s) THEN s[l + 1] ELSE IF Stuck(s) THEN s[l] ELSE q

Chains == \A q \in Queues : bufSize[q] = Len(order[q]) /\ Chain(links, q, order[q])

LinkInv ==
  /\ order \in [Queues -> Seq(Modules)]
  /\ links \in [Nodes -> Heads]
  /\ stage \in {"open", "config"} => order = [q \in Queues |-> <<>>]
  /\ bufSize \in [Queues -> Nat]
  /\ Ready => OwnQueue /\ Tails /\ Linked /\ Chains

LEMMA LinkInit == StartInit => LinkInv
<1> SUFFICES ASSUME StartInit PROVE LinkInv
  OBVIOUS
<1>1. order \in [Queues -> Seq(Modules)]
  BY DEF StartInit
<1>2. list_head(Null, Null) \in Heads
  BY DEF list_head, Heads, Pointers
<1>3. links \in [Nodes -> Heads]
  BY <1>2 DEF StartInit, Nodes
<1>4. bufSize \in [Queues -> Nat]
  BY DEF StartInit
<1> QED
  BY <1>1, <1>3, <1>4 DEF StartInit, LinkInv, Ready

(* Steps that move no pointer. *)
LEMMA LinkQuiet ==
  ASSUME LinkInv, UNCHANGED <<order, links, bufSize>>,
         Ready' => Ready /\ UNCHANGED g_conf,
         stage' \in {"open", "config"} => stage \in {"open", "config"}
  PROVE  LinkInv'
<1>1. ASSUME Ready' PROVE OwnQueue' /\ Tails' /\ Linked' /\ Chains'
  <2>1. OwnQueue /\ Tails /\ Linked /\ Chains /\ Ready /\ UNCHANGED g_conf
    BY <1>1, Zenon DEF LinkInv
  <2>2. Chains'
    BY <2>1, Zenon DEF Chains
  <2>3. OwnQueue' /\ Tails' /\ Linked'
    BY <1>1, <2>1, ZenonT(60) DEF Ready, OwnQueue, Tails, Linked, Node, Once
  <2> QED
    BY <2>2, <2>3
<1> QED
  BY <1>1 DEF LinkInv

LEMMA LinkModuleInit ==
  ASSUME LinkInv, module_init
  PROVE  LinkInv'
<1> DEFINE a == INIT_LIST_HEAD(links, "pre_surl")
           b == INIT_LIST_HEAD(a, "post_header")
<1>1. order' = [q \in Queues |-> <<>>] /\ stage' = "modules"
  BY DEF module_init, Advance, LinkInv
<1>2. \A q \in Queues : q \in Nodes /\ list_head(q, q) \in Heads
  BY DEF Nodes, Heads, Pointers, list_head
<1>3. /\ "pre_surl" \in Queues /\ "post_header" \in Queues /\ "post_html" \in Queues
      /\ Queues \subseteq {"pre_surl", "post_header", "post_html"}
  BY DEF Queues
<1>4. a \in [Nodes -> Heads] /\ a["pre_surl"] = list_head("pre_surl", "pre_surl")
  BY <1>2, <1>3 DEF LinkInv, INIT_LIST_HEAD
<1> HIDE DEF a
<1>5. /\ b \in [Nodes -> Heads]
      /\ b["pre_surl"] = list_head("pre_surl", "pre_surl")
      /\ b["post_header"] = list_head("post_header", "post_header")
  BY <1>2, <1>3, <1>4 DEF INIT_LIST_HEAD
<1> HIDE DEF b
<1>6. links' = INIT_LIST_HEAD(b, "post_html")
  BY DEF module_init, a, b
<1>7. /\ links' \in [Nodes -> Heads]
      /\ \A q \in Queues : links'[q] = list_head(q, q)
  BY <1>2, <1>3, <1>5, <1>6 DEF INIT_LIST_HEAD
<1>8. \A q \in Queues : Len(order'[q]) = 0
  BY <1>1
<1>9. \A q \in Queues : \A k \in Int : Node(q, k)' = q
  BY <1>8 DEF Node
<1>10. \A q \in Queues : links'[q].next = q /\ links'[q].prev = q
  <2> TAKE q \in Queues
  <2>1. links'[q] = [next |-> q, prev |-> q]
    BY <1>7 DEF list_head
  <2> QED
    BY <2>1
<1>11. OwnQueue'
  BY <1>8 DEF OwnQueue
<1>12. Tails'
  BY <1>8, <1>9, <1>10 DEF Tails
<1>13. Linked'
  BY <1>8, <1>9, <1>10 DEF Linked
<1>14. order' \in [Queues -> Seq(Modules)]
  BY <1>1
<1>15. bufSize' = [q \in Queues |-> 0]
  BY DEF module_init
<1>16. Chains'
  <2>1. \A q \in Queues : order'[q] = <<>> /\ bufSize'[q] = 0
    BY <1>1, <1>15
  <2> QED
    BY <1>8, <1>10, <2>1 DEF Chains, Chain
<1> QED
  BY <1>1, <1>7, <1>11, <1>12, <1>13, <1>14, <1>15, <1>16 DEF LinkInv, Ready

(* No node is in two queues. *)
LEMMA QueuesApart ==
  ASSUME OwnQueue, order \in [Queues -> Seq(Modules)],
         NEW q \in Queues, NEW r \in Queues \ {q},
         NEW k \in Int, NEW l \in Int
  PROVE  Node(q, k) # Node(r, l)
<1>1. \A x \in 1 .. Len(order[q]) : order[q][x] \in Modules
  BY ElementOfSeq
<1>2. \A x \in 1 .. Len(order[r]) : order[r][x] \in Modules
  BY ElementOfSeq
<1>3. Modules \cap Queues = {}
  BY StartAssumption
<1>4. ASSUME k \in 1 .. Len(order[q]), l \in 1 .. Len(order[r])
      PROVE  order[q][k] # order[r][l]
  <2>1. Libraries[<<g_conf.module_path, order[q][k]>>] = q
    BY <1>4 DEF OwnQueue
  <2>2. Libraries[<<g_conf.module_path, order[r][l]>>] = r
    BY <1>4 DEF OwnQueue
  <2> QED
    BY <2>1, <2>2
<1>5. Node(q, k) \in {q} \cup Modules /\ Node(r, l) \in {r} \cup Modules
  BY <1>1, <1>2 DEF Node
<1>6. CASE k \in 1 .. Len(order[q]) /\ l \in 1 .. Len(order[r])
  BY <1>4, <1>6 DEF Node
<1>7. CASE k \notin 1 .. Len(order[q])
  BY <1>3, <1>5, <1>7 DEF Node
<1>8. CASE l \notin 1 .. Len(order[r])
  BY <1>3, <1>5, <1>8 DEF Node
<1> QED
  BY <1>6, <1>7, <1>8

LEMMA LinkLoad ==
  ASSUME LinkInv, dso_load
  PROVE  LinkInv'
<1>0. PICK q0, e : q0 = Libraries[Library] /\ e = Library[2]
  OBVIOUS
<1> DEFINE n == Len(order[q0])
           p == links[q0].prev
<1>1. /\ Ready /\ stage' = stage /\ UNCHANGED g_conf
      /\ OwnQueue /\ Tails /\ Linked /\ Chains
      /\ order \in [Queues -> Seq(Modules)]
      /\ links \in [Nodes -> Heads]
  BY DEF LinkInv, Ready, dso_load, Loading, confVars
<1>2. /\ Library \in DOMAIN Libraries /\ q0 \in Queues
      /\ Libraries[<<g_conf.module_path, e>>] = q0
      /\ <<g_conf.module_path, e>> \in DOMAIN Libraries
      /\ e \in Modules
  <2>1. Library \in DOMAIN Libraries
    BY DEF dso_load
  <2>2. Library = <<g_conf.module_path, e>>
    BY <1>0 DEF Library
  <2>3. e \in Modules
    BY <1>0, <2>1 DEF Modules
  <2> QED
    BY <1>0, <2>1, <2>2, <2>3, StartAssumption
<1>3. e \notin Queues
  BY <1>2, StartAssumption
<1>4. /\ order' = [order EXCEPT ![q0] = Append(@, e)]
      /\ links' = list_add_tail(links, e, q0)
  BY <1>0 DEF dso_load, push_module_queue
<1>5. n \in Nat
  BY <1>1, <1>2
<1>6. /\ order' \in [Queues -> Seq(Modules)]
      /\ \A q \in Queues \ {q0} : order'[q] = order[q]
      /\ Len(order'[q0]) = n + 1
      /\ \A k \in 1 .. n : order'[q0][k] = order[q0][k]
      /\ order'[q0][n + 1] = e
  <2>1. /\ Append(order[q0], e) \in Seq(Modules)
        /\ Len(Append(order[q0], e)) = n + 1
        /\ \A k \in 1 .. n : Append(order[q0], e)[k] = order[q0][k]
        /\ Append(order[q0], e)[n + 1] = e
    BY <1>1, <1>2, AppendProperties
  <2> QED
    BY <1>1, <1>2, <1>4, <2>1
<1>7. p = Node(q0, n)
  BY <1>1, <1>2 DEF Tails
<1>8. \A q \in Queues, k \in Int : Node(q, k) \in Nodes /\ (Node(q, k) \in Queues => Node(q, k) = q)
  <2> TAKE q \in Queues, k \in Int
  <2>1. CASE k \in 1 .. Len(order[q])
    <3>1. Node(q, k) = order[q][k]
      BY <2>1 DEF Node
    <3>2. order[q] \in Seq(Modules)
      BY <1>1
    <3>3. Node(q, k) \in Modules
      BY <2>1, <3>1, <3>2, ElementOfSeq
    <3> QED
      BY <3>3, StartAssumption DEF Nodes
  <2>2. CASE k \notin 1 .. Len(order[q])
    BY <2>2 DEF Node, Nodes
  <2> QED
    BY <2>1, <2>2
<1>9. p \in Nodes /\ q0 \in Nodes /\ e \in Nodes \ {q0}
  BY <1>2, <1>3, <1>5, <1>7, <1>8 DEF Nodes
<1>10. /\ links' \in [Nodes -> Heads]
       /\ links'[q0].prev = e
       /\ \A x \in Nodes \ {e, q0} : links'[x].prev = links[x].prev
       /\ \A x \in Nodes \ {e, p} : links'[x].next = links[x].next
       /\ p # e => links'[p].next = e /\ links'[e].next = q0 /\ links'[e].prev = p
       /\ p = e => links'[e].next = e
  <2>2. p = links[q0].prev
    OBVIOUS
  <2> HIDE DEF p
  <2>3. links \in [Nodes -> Heads]
    BY <1>1
  <2>4. p \in Nodes /\ q0 \in Nodes /\ e \in Nodes \ {q0}
    BY <1>9
  <2>5. links' = list_add_tail(links, e, q0)
    BY <1>4
  <2> QED
    BY <2>2, <2>3, <2>4, <2>5, AddTail
<1> HIDE DEF n, p
<1>11. \A q \in Queues \ {q0}, k \in Int :
         /\ Node(q, k)' = Node(q, k)
         /\ Node(q, k) \in Nodes \ {e, p, q0}
  <2> TAKE q \in Queues \ {q0}, k \in Int
  <2>1. Node(q, k)' = Node(q, k)
    BY <1>6 DEF Node
  <2>2. Node(q, k) # p
    <3>1. q \in Queues /\ q0 \in Queues \ {q} /\ n \in Int
      BY <1>2, <1>5
    <3>2. Node(q, k) # Node(q0, n)
      BY <1>1, <3>1, QueuesApart
    <3> QED
      BY <1>7, <3>2
  <2>3. Node(q, k) # q0
    BY <1>2, <1>8
  <2>4. Node(q, k) # e
    BY <1>1, <1>2, <1>3, <1>8 DEF OwnQueue, Node
  <2> QED
    BY <1>8, <2>1, <2>2, <2>3, <2>4
<1>12. \A k \in Int : Node(q0, k)' = IF k = n + 1 THEN e ELSE Node(q0, k)
  BY <1>5, <1>6 DEF Node, n
<1>13. OwnQueue'
  <2> SUFFICES ASSUME NEW q \in Queues, NEW k \in 1 .. Len(order'[q])
               PROVE  /\ <<g_conf.module_path, order'[q][k]>> \in DOMAIN Libraries
                      /\ Libraries[<<g_conf.module_path, order'[q][k]>>] = q
    BY <1>1 DEF OwnQueue
  <2>1. CASE q # q0
    BY <1>1, <1>6, <2>1 DEF OwnQueue
  <2>2. CASE q = q0 /\ k = n + 1
    BY <1>2, <1>6, <2>2
  <2>3. CASE q = q0 /\ k # n + 1
    <3>1. k \in 1 .. n
      BY <1>5, <1>6, <2>3
    <3>2. order'[q][k] = order[q][k]
      BY <1>6, <2>3, <3>1
    <3> QED
      BY <1>1, <2>3, <3>1, <3>2 DEF OwnQueue, n
  <2> QED
    BY <2>1, <2>2, <2>3
<1>14. Tails'
  <2> SUFFICES ASSUME NEW q \in Queues
               PROVE  links'[q].prev = Node(q, Len(order[q]))'
    BY DEF Tails
  <2>1. CASE q = q0
    BY <1>5, <1>6, <1>10, <1>12, <2>1 DEF Node
  <2>2. CASE q # q0
    <3>1. q \in Nodes /\ q # e /\ q # q0
      BY <1>3, <2>2 DEF Nodes
    <3>2. links'[q].prev = links[q].prev
      BY <1>10, <3>1
    <3> QED
      BY <1>1, <1>6, <2>2, <3>2 DEF Tails, Node
  <2> QED
    BY <2>1, <2>2
<1>15. Linked'
  <2> SUFFICES ASSUME NEW q \in Queues, Once(order'[q]), NEW k \in 0 .. Len(order'[q])
               PROVE  /\ links'[Node(q, k)'].next = Node(q, k + 1)'
                      /\ links'[Node(q, k + 1)'].prev = Node(q, k)'
    BY DEF Linked, Once
  <2>1. CASE q # q0
    <3>1. order'[q] = order[q] /\ k \in Int /\ k + 1 \in Int
      BY <1>6, <2>1
    <3>2. /\ links[Node(q, k)].next = Node(q, k + 1)
          /\ links[Node(q, k + 1)].prev = Node(q, k)
      BY <1>1, <3>1 DEF Linked, Ready
    <3> QED
      BY <1>10, <1>11, <2>1, <3>1, <3>2
  <2>2. CASE q = q0
    <3>1. k \in 0 .. (n + 1)
      BY <1>6, <2>2
    <3>2. Once(order[q0]) /\ \A x \in 1 .. n : order[q0][x] # e
      <4>1. \A x, y \in 1 .. (n + 1) : order'[q0][x] = order'[q0][y] => x = y
        BY <1>6, <2>2 DEF Once
      <4>2. \A x \in 1 .. n : x \in 1 .. (n + 1) /\ n + 1 \in 1 .. (n + 1) /\ x # n + 1
        BY <1>5
      <4>3. \A x \in 1 .. n : order[q0][x] # e
        BY <1>6, <4>1, <4>2
      <4>4. \A x, y \in 1 .. n : order[q0][x] = order[q0][y] => x = y
        BY <1>6, <4>1, <4>2
      <4> QED
        BY <4>3, <4>4 DEF Once, n
    <3>3. \A x \in Int : Node(q0, x) # e
      BY <1>2, <1>3, <3>2 DEF Node, n
    <3>4. p # e
      BY <1>5, <1>7, <3>3
    <3>5. CASE k = n + 1
      <4>1. Node(q0, k)' = e
        BY <1>12, <3>1, <3>5
      <4>2. Node(q0, k + 1)' = q0
        BY <1>5, <1>12, <3>5 DEF Node, n
      <4> QED
        BY <1>10, <2>2, <3>4, <4>1, <4>2
    <3>6. CASE k = n
      <4>1. Node(q0, k)' = p /\ Node(q0, k + 1)' = e
        BY <1>5, <1>7, <1>12, <3>6
      <4> QED
        BY <1>10, <2>2, <3>4, <4>1
    <3>7. CASE k \in 0 .. (n - 1)
      <4>1. /\ Node(q0, k)' = Node(q0, k) /\ Node(q0, k + 1)' = Node(q0, k + 1)
            /\ k \in Int /\ k + 1 \in Int
        BY <1>5, <1>12, <3>7
      <4>2. /\ links[Node(q0, k)].next = Node(q0, k + 1)
            /\ links[Node(q0, k + 1)].prev = Node(q0, k)
        <5>1. k \in 0 .. Len(order[q0])
          BY <1>5, <3>7 DEF n
        <5> QED
          BY <1>1, <1>2, <3>2, <5>1 DEF Linked, Ready
      <4>3. Node(q0, k) # p
        <5>1. CASE k = 0
          <6>1. Node(q0, k) = q0 /\ p = order[q0][n]
            BY <1>5, <1>7, <3>7, <5>1 DEF Node, n
          <6>2. n \in 1 .. Len(order[q0]) /\ order[q0] \in Seq(Modules)
            BY <1>1, <1>2, <1>5, <3>7, <5>1 DEF n
          <6>3. p \in Modules
            BY <6>1, <6>2, ElementOfSeq
          <6> QED
            BY <1>2, <6>1, <6>3, StartAssumption
        <5>2. CASE k \in 1 .. (n - 1)
          <6>1. /\ Node(q0, k) = order[q0][k] /\ p = order[q0][n]
                /\ k \in 1 .. Len(order[q0]) /\ n \in 1 .. Len(order[q0]) /\ k # n
            BY <1>5, <1>7, <5>2 DEF Node, n
          <6> QED
            BY <3>2, <6>1 DEF Once
        <5> QED
          BY <1>5, <3>7, <5>1, <5>2
      <4>4. Node(q0, k + 1) # q0
        <5>1. k + 1 \in 1 .. Len(order[q0]) /\ order[q0] \in Seq(Modules)
          BY <1>1, <1>2, <1>5, <3>7 DEF n
        <5>2. Node(q0, k + 1) \in Modules
          BY <5>1, ElementOfSeq DEF Node
        <5> QED
          BY <1>2, <5>2, StartAssumption
      <4>5. Node(q0, k) \in Nodes \ {e, p} /\ Node(q0, k + 1) \in Nodes \ {e, q0}
        BY <1>2, <1>8, <3>3, <4>1, <4>3, <4>4
      <4> QED
        BY <1>10, <2>2, <4>1, <4>2, <4>5
    <3> QED
      BY <1>5, <3>1, <3>5, <3>6, <3>7
  <2> QED
    BY <2>1, <2>2
<1>16. /\ bufSize' \in [Queues -> Nat]
       /\ \A q \in Queues : bufSize'[q] = IF q = q0 THEN bufSize[q] + 1 ELSE bufSize[q]
  <2>1. bufSize' = [bufSize EXCEPT ![q0] = @ + 1]
    BY <1>0 DEF dso_load, push_module_queue
  <2>2. bufSize \in [Queues -> Nat]
    BY DEF LinkInv
  <2> QED
    BY <1>2, <2>1, <2>2
<1>17. ASSUME NEW q \in Queues \ {q0}
       PROVE  Chain(links', q, order'[q])
  <2>1. order'[q] = order[q] /\ Chain(links, q, order[q])
    BY <1>1, <1>6 DEF Chains
  <2>2. \A x \in Int : links'[Node(q, x)].next = links[Node(q, x)].next
    BY <1>10, <1>11
  <2>3. links'[q].next = links[q].next
    BY <2>2 DEF Node
  <2>4. \A l \in 1 .. Len(order[q]) : links'[order[q][l]].next = links[order[q][l]].next
    BY <2>2 DEF Node
  <2> QED
    BY <2>1, <2>3, <2>4, Zenon DEF Chain
<1>18. Chain(links', q0, order'[q0])
  <2> DEFINE s == order[q0]
             u == order'[q0]
  <2>1. /\ Len(s) = n /\ Len(u) = n + 1 /\ u # <<>>
        /\ \A k \in 1 .. n : u[k] = s[k]
        /\ u[n + 1] = e
        /\ Chain(links, q0, s)
    <3>1. Len(<<>>) = 0
      OBVIOUS
    <3> QED
      BY <1>1, <1>2, <1>5, <1>6, <3>1 DEF n, Chains
  <2>2. \A k \in 1 .. n : s[k] \in Modules
    BY <1>1, <1>2, ElementOfSeq DEF n
  <2>3. p = IF n = 0 THEN q0 ELSE s[n]
    BY <1>5, <1>7 DEF Node, n
  <2>4. links'[q0].next = u[1]
    <3>1. CASE n = 0
      <4>1. p = q0 /\ q0 # e
        BY <1>9, <2>3, <3>1
      <4> QED
        BY <1>10, <2>1, <3>1, <4>1
    <3>2. CASE n # 0
      <4>1. n \in 1 .. n /\ 1 \in 1 .. n
        BY <1>5, <3>2
      <4>2. p \in Modules
        BY <2>2, <2>3, <3>2, <4>1
      <4>3. q0 \in Nodes \ {e, p}
        BY <1>2, <1>9, <4>2, StartAssumption
      <4>4. links'[q0].next = links[q0].next
        BY <1>10, <4>3
      <4>5. links[q0].next = s[1]
        <5>1. s # <<>>
          BY <2>1, <3>2
        <5> QED
          BY <2>1, <5>1 DEF Chain
      <4> QED
        BY <2>1, <4>1, <4>4, <4>5
    <3> QED
      BY <3>1, <3>2
  <2> HIDE DEF s, u
  <2>5. ASSUME NEW l \in 1 .. (n + 1), Latest(u, l)
        PROVE  links'[u[l]].next = IF l < n + 1 THEN u[l + 1] ELSE IF Stuck(u) THEN u[l] ELSE q0
    <3>1. CASE l = n + 1
      <4>1. Stuck(u) <=> n # 0 /\ u[n] = e
        BY <1>5, <2>1 DEF Stuck
      <4>2. n # 0 => n \in 1 .. n /\ u[n] = p
        BY <1>5, <2>1, <2>3
      <4>3. Stuck(u) <=> p = e
        BY <1>9, <2>3, <4>1, <4>2
      <4>4. links'[e].next = IF p = e THEN e ELSE q0
        BY <1>10
      <4> QED
        BY <1>5, <2>1, <3>1, <4>3, <4>4
    <3>2. CASE l \in 1 .. n
      <4>1. /\ u[l] = s[l] /\ u[l] # e /\ l < n + 1
            /\ \A k \in (l + 1) .. n : s[k] # s[l]
        <5>1. \A k \in (l + 1) .. (n + 1) : u[k] # u[l]
          BY <2>1, <2>5 DEF Latest
        <5>2. n + 1 \in (l + 1) .. (n + 1)
          BY <1>5, <3>2
        <5>3. \A k \in (l + 1) .. n : k \in 1 .. n /\ k \in (l + 1) .. (n + 1)
          BY <1>5, <3>2
        <5> QED
          BY <1>5, <2>1, <3>2, <5>1, <5>2, <5>3
      <4>2. CASE l = n
        <5>1. p = u[l] /\ p # e
          BY <2>3, <3>2, <4>1, <4>2
        <5> QED
          BY <1>10, <2>1, <4>1, <4>2, <5>1
      <4>3. CASE l # n
        <5>1. l + 1 \in 1 .. n /\ l < n /\ n \in (l + 1) .. n /\ n # 0
          BY <1>5, <3>2, <4>3
        <5>2. p = s[n] /\ s[l] # p
          BY <2>3, <4>1, <5>1
        <5>3. s[l] \in Nodes \ {e, p}
          BY <2>2, <3>2, <4>1, <5>2 DEF Nodes
        <5>4. links'[s[l]].next = links[s[l]].next
          BY <1>10, <5>3
        <5>5. Latest(s, l)
          BY <2>1, <4>1 DEF Latest
        <5>6. links[s[l]].next = s[l + 1]
          BY <2>1, <3>2, <5>1, <5>5 DEF Chain
        <5> QED
          BY <2>1, <4>1, <5>1, <5>4, <5>6
      <4> QED
        BY <4>2, <4>3
    <3> QED
      BY <1>5, <3>1, <3>2
  <2> QED
    BY <2>1, <2>4, <2>5 DEF Chain, u
<1>19. Chains'
  <2> SUFFICES ASSUME NEW q \in Queues
               PROVE  bufSize'[q] = Len(order'[q]) /\ Chain(links', q, order'[q])
    BY DEF Chains
  <2>1. bufSize[q] = Len(order[q])
    BY <1>1 DEF Chains
  <2>2. CASE q = q0
    BY <1>6, <1>16, <1>18, <2>1, <2>2 DEF n
  <2>3. CASE q # q0
    BY <1>6, <1>16, <1>17, <2>1, <2>3
  <2> QED
    BY <2>2, <2>3
<1> QED
  BY <1>1, <1>6, <1>10, <1>13, <1>14, <1>15, <1>16, <1>19 DEF LinkInv, Ready

LEMMA LinkStep ==
  ASSUME LinkInv, [StartNext]_allVars
  PROVE  LinkInv'
<1>1. CASE OpenConfig \/ SystemFails \/ LoadFails \/ Seeds \/ Run
  <2>1. UNCHANGED <<order, links, bufSize, g_conf>>
    BY <1>1 DEF OpenConfig, SystemFails, LoadFails, Seeds, Run, confVars
  <2>2. Ready' => Ready
    BY <1>1 DEF OpenConfig, SystemFails, LoadFails, Seeds, Run, Advance, Loading, Ready
  <2>3. stage' \in {"open", "config"} => stage \in {"open", "config"}
    BY <1>1 DEF OpenConfig, SystemFails, LoadFails, Seeds, Run, Advance, Loading
  <2> QED
    BY <2>1, <2>2, <2>3, LinkQuiet
<1>2. CASE LoadConfig
  <2>1. UNCHANGED <<order, links, bufSize>> /\ stage = "config" /\ stage' = "config"
    BY <1>2 DEF LoadConfig, startVars
  <2> QED
    BY <2>1, LinkQuiet DEF Ready
<1>3. CASE module_init
  BY <1>3, LinkModuleInit
<1>4. CASE dso_load
  BY <1>4, LinkLoad
<1>5. CASE UNCHANGED allVars
  <2>1. UNCHANGED <<order, links, bufSize, g_conf, stage>>
    BY <1>5 DEF allVars, confVars, startVars
  <2> QED
    BY <2>1, LinkQuiet DEF Ready
<1> QED
  BY <1>1, <1>2, <1>3, <1>4, <1>5 DEF StartNext

(* For any libraries and any configuration: a queue into which no module   *)
(* was loaded twice is a ring in the order of loading, so that the loops   *)
(* of recv_response and header_postcheck call each module once and end,    *)
(* also when another queue was given a module twice.                       *)
THEOREM Rings == StartSpec => []Linked
<1>1. LinkInv => Linked
  BY DEF LinkInv, Ready, Linked
<1> QED
  BY <1>1, LinkInit, LinkStep, PTL DEF StartSpec

-----------------------------------------------------------------------------
(* The places of the k-th module from k on, and the one behind the latest. *)
SamePlaces(s, k) == {l \in k .. Len(s) : s[l] = s[k]}

Leap(s, k) == 1 + Max(SamePlaces(s, k))

LEMMA LeapLands ==
  ASSUME NEW s \in Seq(Modules), NEW k \in 1 .. Len(s)
  PROVE  LET l == Max(SamePlaces(s, k))
         IN  /\ l \in k .. Len(s) /\ s[l] = s[k] /\ Latest(s, l)
             /\ Leap(s, k) = l + 1 /\ Leap(s, k) \in (k + 1) .. (Len(s) + 1)
             /\ \A x \in Leap(s, k) .. Len(s) : s[x] # s[k]
<1> DEFINE T == SamePlaces(s, k)
           R == {Len(s) - x : x \in T}
<1>1. k \in Nat /\ Len(s) \in Nat /\ T \subseteq k .. Len(s) /\ k \in T
  BY DEF SamePlaces
<1>2. R \subseteq Nat /\ R # {}
  BY <1>1
<1>3. PICK y \in R : \A z \in R : y <= z
  <2> HIDE DEF R
  <2> QED
    BY <1>2, Least
<1>4. PICK x \in T : y = Len(s) - x
  OBVIOUS
<1>5. \A z \in T : x >= z
  <2> TAKE z \in T
  <2>1. Len(s) - z \in R /\ z \in Nat /\ x \in Nat
    BY <1>1
  <2>2. y <= Len(s) - z
    BY <1>3, <2>1
  <2> QED
    BY <1>1, <1>4, <2>1, <2>2
<1> DEFINE l == Max(T)
<1>6. l \in T /\ \A z \in T : l >= z
  <2> HIDE DEF T
  <2> QED
    BY <1>4, <1>5, Zenon DEF Max
<1> HIDE DEF l
<1>7. l \in k .. Len(s) /\ s[l] = s[k] /\ l \in Nat /\ l >= k
  BY <1>1, <1>6 DEF SamePlaces
<1>8. ASSUME NEW z \in (l + 1) .. Len(s) PROVE s[z] # s[k]
  <2>1. z \in k .. Len(s) /\ ~ (l >= z)
    BY <1>1, <1>7
  <2> QED
    BY <1>6, <2>1 DEF SamePlaces
<1>9. Leap(s, k) = l + 1
  BY <1>7 DEF l, Leap
<1> QED
  BY <1>1, <1>7, <1>8, <1>9 DEF l, Latest

(* The recursion of Called, unfolded. *)
Remaining(s, from) ==
  /\ from \in [1 .. (Len(s) + 1) -> Seq(Modules)]
  /\ from[Len(s) + 1] = <<>>
  /\ \A k \in 1 .. Len(s) : from[k] = <<s[k]>> \o from[Leap(s, k)]

LEMMA CalledIs ==
  ASSUME NEW s \in Seq(Modules)
  PROVE  \E from : Remaining(s, from) /\ Called(s) = from[1]
<1> DEFINE n == Len(s)
           D == Seq(Modules)
           leap == [k \in 1 .. n |-> Leap(s, k)]
           g == [k \in 1 .. n |-> [w \in D |-> <<s[k]>> \o w]]
           Fits(f) == f = [k \in 1 .. (n + 1) |->
                             IF k > n THEN <<>> ELSE <<s[k]>> \o f[Leap(s, k)]]
           from == CHOOSE f : Fits(f)
<1>1. Called(s) = from[1]
  BY DEF Called, Leap, SamePlaces
<1>2. n \in Nat /\ <<>> \in D /\ \A k \in 1 .. n : s[k] \in Modules
  BY EmptySeq, ElementOfSeq
<1>3. \A k \in 1 .. n, w \in D : <<s[k]>> \o w \in D
  BY <1>2, ConcatProperties
<1>4. \A k \in 1 .. n : Leap(s, k) \in (k + 1) .. (n + 1) /\ Leap(s, k) \in 1 .. (n + 1)
  <2> TAKE k \in 1 .. n
  <2>1. Leap(s, k) \in (k + 1) .. (n + 1)
    BY LeapLands
  <2> QED
    BY <2>1
<1> HIDE DEF n, D
<1>5. PICK f : Landed(n, D, <<>>, leap, g, f)
  <2>1. Leaps(n, D, <<>>, leap, g)
    BY <1>2, <1>3, <1>4 DEF Leaps
  <2> QED
    BY <2>1, LeapingRecursion
<1>6. f \in [1 .. (n + 1) -> D] /\ f[n + 1] = <<>>
  BY <1>5 DEF Landed
<1>7. \A k \in 1 .. n : f[k] = <<s[k]>> \o f[Leap(s, k)]
  <2> TAKE k \in 1 .. n
  <2>1. f[k] = g[k][f[leap[k]]]
    BY <1>5 DEF Landed
  <2>2. f[Leap(s, k)] \in D
    BY <1>4, <1>6
  <2> QED
    BY <2>1, <2>2
<1>8. \A k \in 1 .. (n + 1) : IF k > n THEN k = n + 1 ELSE k \in 1 .. n
  BY <1>2
<1>9. Fits(f)
  <2>1. \A k \in 1 .. (n + 1) : f[k] = IF k > n THEN <<>> ELSE <<s[k]>> \o f[Leap(s, k)]
    BY <1>6, <1>7, <1>8, Zenon
  <2> QED
    BY <1>6, <2>1, Zenon
<1>10. Fits(from)
  <2> HIDE DEF Fits
  <2> QED
    BY <1>9, Zenon
<1> HIDE DEF from
<1>11. \A k \in 1 .. (n + 1) : from[k] = IF k > n THEN <<>> ELSE <<s[k]>> \o from[Leap(s, k)]
  BY <1>10, Zenon
<1>12. \A k \in 1 .. n : k \in 1 .. (n + 1) /\ ~ (k > n)
  BY <1>2
<1>13. n + 1 \in 1 .. (n + 1) /\ n + 1 > n
  BY <1>2
<1>14. from[n + 1] = <<>> /\ \A k \in 1 .. n : from[k] = <<s[k]>> \o from[Leap(s, k)]
  BY <1>11, <1>12, <1>13, Zenon
<1> DEFINE T == {k \in 1 .. (n + 1) : from[k] \in D}
<1>15. n + 1 \in T
  BY <1>2, <1>13, <1>14
<1>16. \A k \in 1 .. n : leap[k] \in (k + 1) .. (n + 1) /\ (leap[k] \in T => k \in T)
  <2> TAKE k \in 1 .. n
  <2>1. leap[k] = Leap(s, k)
    OBVIOUS
  <2>2. ASSUME Leap(s, k) \in T PROVE k \in T
    BY <1>3, <1>12, <1>14, <2>2
  <2> QED
    BY <1>4, <2>1, <2>2
<1> HIDE DEF leap, T
<1>17. 1 .. (n + 1) \subseteq T
  BY <1>2, <1>15, <1>16, Downward
<1>18. from \in [1 .. (n + 1) -> D]
  <2>1. \A k \in 1 .. (n + 1) : from[k] \in D
    BY <1>17 DEF T
  <2>2. from = [k \in 1 .. (n + 1) |-> from[k]]
    BY <1>10, Zenon
  <2> QED
    BY <2>1, <2>2
<1> QED
  BY <1>1, <1>14, <1>18 DEF Remaining, n, D

-----------------------------------------------------------------------------
LEMMA NodesFinite ==
  /\ IsFiniteSet(Modules) /\ IsFiniteSet(Nodes)
  /\ Cardinality(Modules) \in Nat /\ Cardinality(Nodes) \in Nat
  /\ Cardinality(Modules) < Cardinality(Nodes)
<1> DEFINE f == [lib \in DOMAIN Libraries |-> lib[2]]
<1>1. f \in Surjection(DOMAIN Libraries, Modules)
  BY DEF Surjection, Modules
<1>2. IsFiniteSet(DOMAIN Libraries)
  BY StartAssumption
<1> HIDE DEF f
<1>3. IsFiniteSet(Modules)
  BY <1>1, <1>2, FS_Surjection
<1>4. IsFiniteSet(Queues)
  <2>1. IsFiniteSet({}) /\ IsFiniteSet({"pre_surl"})
    BY FS_EmptySet, FS_Singleton
  <2>2. IsFiniteSet({"pre_surl"} \cup {"post_header"})
    BY <2>1, FS_AddElement
  <2>3. IsFiniteSet(({"pre_surl"} \cup {"post_header"}) \cup {"post_html"})
    BY <2>2, FS_AddElement
  <2>4. Queues = ({"pre_surl"} \cup {"post_header"}) \cup {"post_html"}
    BY DEF Queues
  <2> QED
    BY <2>3, <2>4
<1>5. IsFiniteSet(Nodes)
  BY <1>3, <1>4, FS_Union DEF Nodes
<1>6. "pre_surl" \in Nodes \ Modules /\ Modules \subseteq Nodes
  BY StartAssumption DEF Nodes, Queues
<1>7. Cardinality(Modules) <= Cardinality(Nodes) /\ Cardinality(Modules) # Cardinality(Nodes)
  <2>1. /\ Cardinality(Modules) <= Cardinality(Nodes)
        /\ Cardinality(Modules) = Cardinality(Nodes) => Modules = Nodes
    BY <1>5, <1>6, FS_Subset
  <2> QED
    BY <1>6, <2>1
<1>8. Cardinality(Modules) \in Nat /\ Cardinality(Nodes) \in Nat
  BY <1>3, <1>5, FS_CardinalityType
<1> QED
  BY <1>3, <1>5, <1>7, <1>8

Steps == Cardinality(Nodes) + 1

(* A walk follows the next pointers, and stays in a set they do not leave. *)
Follows(mem, q, E, pos) ==
  /\ pos \in [1 .. Steps -> E]
  /\ pos[1] = mem[q].next
  /\ \A k \in 1 .. (Steps - 1) : pos[k + 1] = mem[pos[k]].next

LEMMA WalkFollows ==
  ASSUME NEW mem \in [Nodes -> Heads], NEW q, NEW E,
         mem[q].next \in E, \A x \in E : mem[x].next \in E
  PROVE  Follows(mem, q, E, Walk(mem, q))
<1> DEFINE n == Steps
           g == [k \in 1 .. n |-> [x \in E |-> mem[x].next]]
           Fits(f) == f = [k \in 1 .. n |-> mem[IF k = 1 THEN q ELSE f[k - 1]].next]
           pos == CHOOSE f : Fits(f)
<1>1. n \in Nat /\ 1 <= n
  BY NodesFinite DEF Steps
<1>2. Walk(mem, q) = pos
  <2>1. DOMAIN mem = Nodes
    OBVIOUS
  <2> QED
    BY <2>1 DEF Walk, Steps
<1> HIDE DEF n
<1>3. PICK f : Unrolled(1, n, E, mem[q].next, g, f)
  <2>1. Step(1, n, E, mem[q].next, g)
    BY <1>1 DEF Step
  <2> QED
    BY <2>1, Recursion
<1>4. \A k \in 1 .. n : k # 1 => k - 1 \in 1 .. n
  BY <1>1
<1>5. \A k \in 1 .. n : k # 1 => f[k] = mem[f[k - 1]].next
  BY <1>3, <1>4 DEF Unrolled
<1>6. Fits(f)
  <2>1. \A k \in 1 .. n : f[k] = mem[IF k = 1 THEN q ELSE f[k - 1]].next
    BY <1>3, <1>5, Zenon DEF Unrolled
  <2> QED
    BY <1>3, <2>1, Zenon DEF Unrolled
<1>7. Fits(pos)
  <2> HIDE DEF Fits
  <2> QED
    BY <1>6, Zenon
<1> HIDE DEF pos
<1>8. \A k \in 1 .. n : pos[k] = mem[IF k = 1 THEN q ELSE pos[k - 1]].next
  BY <1>7, Zenon
<1>9. 1 \in 1 .. n /\ \A k \in 1 .. (n - 1) : k + 1 \in 1 .. n /\ k + 1 # 1 /\ (k + 1) - 1 = k
  BY <1>1
<1>10. pos[1] = mem[q].next
  BY <1>8, <1>9, Zenon
<1>11. \A k \in 1 .. (n - 1) : pos[k + 1] = mem[pos[k]].next
  BY <1>8, <1>9, Zenon
<1> DEFINE T == {k \in 1 .. n : pos[k] \in E}
<1>12. 1 .. n \subseteq T
  <2>1. 1 \in T
    BY <1>9, <1>10
  <2>2. \A k \in 1 .. (n - 1) : k \in T => k + 1 \in T
    BY <1>9, <1>11
  <2> HIDE DEF T
  <2> QED
    BY <1>1, <2>1, <2>2, Upward
<1>13. pos \in [1 .. n -> E]
  <2>1. \A k \in 1 .. n : pos[k] \in E
    BY <1>12
  <2>2. pos = [k \in 1 .. n |-> pos[k]]
    BY <1>7, Zenon
  <2> QED
    BY <2>1, <2>2
<1> QED
  BY <1>2, <1>10, <1>11, <1>13 DEF Follows, n

LEMMA ChainLeaps ==
  ASSUME NEW mem, NEW q, NEW s \in Seq(Modules), Chain(mem, q, s), NEW k \in 1 .. Len(s)
  PROVE  mem[s[k]].next = IF Leap(s, k) <= Len(s) THEN s[Leap(s, k)]
                          ELSE IF Stuck(s) THEN s[k] ELSE q
<1>1. PICK l \in k .. Len(s) : /\ s[l] = s[k] /\ Latest(s, l) /\ Leap(s, k) = l + 1
  BY LeapLands
<1>2. l \in 1 .. Len(s) /\ (l < Len(s) <=> l + 1 <= Len(s))
  OBVIOUS
<1>3. mem[s[l]].next = IF l < Len(s) THEN s[l + 1] ELSE IF Stuck(s) THEN s[l] ELSE q
  BY <1>1, <1>2 DEF Chain
<1> QED
  BY <1>1, <1>2, <1>3, Zenon

(* After a module was loaded twice in a row as the last one no walk ends.  *)
LEMMA StuckWalks ==
  ASSUME NEW mem \in [Nodes -> Heads], NEW q \in Queues, NEW s \in Seq(Modules),
         Chain(mem, q, s), Stuck(s)
  PROVE  ~WalkEnds(mem, q)
<1> DEFINE E == {s[k] : k \in 1 .. Len(s)}
<1>1. Len(s) \in Nat /\ Len(s) > 1 /\ s # <<>>
  BY DEF Stuck
<1>2. mem[q].next \in E
  BY <1>1 DEF Chain
<1>3. \A x \in E : mem[x].next \in E
  <2> SUFFICES ASSUME NEW k \in 1 .. Len(s) PROVE mem[s[k]].next \in E
    OBVIOUS
  <2>1. Leap(s, k) \in (k + 1) .. (Len(s) + 1)
    BY LeapLands
  <2>2. Leap(s, k) <= Len(s) => Leap(s, k) \in 1 .. Len(s)
    BY <2>1
  <2> QED
    BY <2>2, ChainLeaps
<1>4. q \notin E
  <2>1. \A k \in 1 .. Len(s) : s[k] \in Modules
    BY ElementOfSeq
  <2> QED
    BY <2>1, StartAssumption
<1> HIDE DEF E
<1>5. Follows(mem, q, E, Walk(mem, q))
  BY <1>2, <1>3, WalkFollows
<1> QED
  BY <1>4, <1>5 DEF Follows, WalkEnds

-----------------------------------------------------------------------------
(* After t - 1 modules a walk is at the k-th of s, or back at the head.    *)
(* It has met none of the former twice and meets none of them again, and   *)
(* what Called leaves to call is behind k.                                 *)
Reached(pos, from, s, q, t, k) ==
  /\ k \in 1 .. (Len(s) + 1)
  /\ pos[t] = IF k <= Len(s) THEN s[k] ELSE q
  /\ \A a \in 1 .. (t - 1) : pos[a] \in Modules /\ \A l \in k .. Len(s) : s[l] # pos[a]
  /\ \A a, b \in 1 .. (t - 1) : pos[a] = pos[b] => a = b
  /\ from[1] = SubSeq(pos, 1, t - 1) \o from[k]

On(q, s) == {q} \cup {s[k] : k \in 1 .. Len(s)}

LEMMA WalkReaches ==
  ASSUME NEW mem \in [Nodes -> Heads], NEW q \in Queues, NEW s \in Seq(Modules),
         Chain(mem, q, s), ~Stuck(s),
         NEW pos, Follows(mem, q, On(q, s), pos), NEW from, Remaining(s, from),
         NEW t \in 1 .. (Steps - 1), NEW k \in 1 .. Len(s), Reached(pos, from, s, q, t, k)
  PROVE  Reached(pos, from, s, q, t + 1, Leap(s, k))
<1> DEFINE h == Leap(s, k)
           n == Len(s)
<1>1. /\ h \in (k + 1) .. (n + 1) /\ h \in 1 .. (n + 1) /\ h \in Nat
      /\ \A x \in h .. n : s[x] # s[k]
      /\ h .. n \subseteq k .. n
  <2>1. h \in (k + 1) .. (n + 1) /\ \A x \in h .. n : s[x] # s[k]
    BY LeapLands
  <2> HIDE DEF h
  <2> QED
    BY <2>1
<1>2. /\ Steps \in Nat /\ n \in Nat /\ k <= n /\ k \in k .. n
  BY NodesFinite DEF Steps
<1>3. pos[t] = s[k] /\ s[k] \in Modules
  BY <1>2, ElementOfSeq DEF Reached
<1>4. pos[t + 1] = IF h <= n THEN s[h] ELSE q
  BY <1>3, ChainLeaps DEF Follows
<1>5. /\ \A a \in 1 .. (t - 1) : pos[a] \in Modules /\ \A l \in k .. n : s[l] # pos[a]
      /\ \A a, b \in 1 .. (t - 1) : pos[a] = pos[b] => a = b
  BY DEF Reached
<1> HIDE DEF h, n
<1>6. \A a \in 1 .. ((t + 1) - 1) : a = t \/ a \in 1 .. (t - 1)
  BY <1>2
<1>7. \A a \in 1 .. ((t + 1) - 1) : pos[a] \in Modules /\ \A l \in h .. n : s[l] # pos[a]
  BY <1>1, <1>3, <1>5, <1>6, Zenon
<1>8. \A a, b \in 1 .. ((t + 1) - 1) : pos[a] = pos[b] => a = b
  <2>1. \A a \in 1 .. (t - 1) : pos[a] # pos[t]
    BY <1>2, <1>3, <1>5, Zenon
  <2> QED
    BY <1>5, <1>6, <2>1, Zenon
<1>9. from[1] = SubSeq(pos, 1, (t + 1) - 1) \o from[h]
  <2>1. from[1] = SubSeq(pos, 1, t - 1) \o from[k]
    BY DEF Reached
  <2>2. from[k] = <<s[k]>> \o from[h]
    BY DEF Remaining, h
  <2>3. On(q, s) \subseteq Nodes
    <3>1. \A l \in 1 .. Len(s) : s[l] \in Modules
      BY ElementOfSeq
    <3> QED
      BY <3>1 DEF On, Nodes
  <2>4. pos \in Seq(Nodes) /\ Len(pos) = Steps
    <3>1. pos \in [1 .. Steps -> Nodes]
      BY <2>3 DEF Follows
    <3> QED
      BY <1>2, <3>1
  <2>5. from[h] \in Seq(Nodes) /\ <<s[k]>> \in Seq(Nodes)
    <3>1. from[h] \in Seq(Modules)
      BY <1>1 DEF Remaining, n
    <3>2. Modules \subseteq Nodes
      BY DEF Nodes
    <3> QED
      BY <1>3, <3>1, <3>2, SeqMonotonic
  <2>6. 1 \in 1 .. Len(pos) /\ t \in 1 .. Len(pos) /\ t \in Int /\ (t + 1) - 1 = t
    BY <1>2, <2>4
  <2>7. SubSeq(pos, 1, t) = SubSeq(pos, 1, t - 1) \o <<pos[t]>>
    <3>1. t \in 1 .. Len(pos)
      BY <2>6
    <3> QED
      BY <2>4, <2>6, <3>1, SubSeqRecursiveSecond
  <2>8. SubSeq(pos, 1, t - 1) \in Seq(Nodes)
    <3>1. \A x \in 1 .. (t - 1) : pos[x] \in Nodes
      BY <1>5 DEF Nodes
    <3>2. 1 \in Int /\ t - 1 \in Int
      BY <2>6
    <3> QED
      BY <3>1, <3>2, SubSeqProperties
  <2> DEFINE u == SubSeq(pos, 1, t - 1)
             v == <<s[k]>>
             w == from[h]
  <2>9. u \in Seq(Nodes) /\ v \in Seq(Nodes) /\ w \in Seq(Nodes)
    BY <2>5, <2>8
  <2> HIDE DEF u, v, w
  <2>10. (u \o v) \o w = u \o (v \o w)
    BY ONLY <2>9, ConcatAssociative, SMTT(60)
  <2>11. SubSeq(pos, 1, (t + 1) - 1) = u \o v
    BY <1>3, <2>6, <2>7 DEF u, v
  <2> QED
    BY <2>1, <2>2, <2>10, <2>11 DEF u, v, w
<1> QED
  BY <1>1, <1>4, <1>7, <1>8, <1>9 DEF Reached, h, n

(* Every other walk ends, and has then called what Called says. *)
LEMMA FreeWalks ==
  ASSUME NEW mem \in [Nodes -> Heads], NEW q \in Queues, NEW s \in Seq(Modules),
         Chain(mem, q, s), ~Stuck(s)
  PROVE  WalkEnds(mem, q) /\ list_for_each(mem, q) = Called(s)
<1> DEFINE E == On(q, s)
           n == Len(s)
           pos == Walk(mem, q)
<1>1. n \in Nat /\ Steps \in Nat /\ Steps = Cardinality(Nodes) + 1 /\ 1 <= Steps
      /\ (s = <<>> <=> n = 0)
  BY NodesFinite, EmptySeq DEF Steps
<1>2. mem[q].next \in E
  <2>1. s # <<>> => 1 \in 1 .. n
    BY <1>1
  <2> QED
    BY <2>1 DEF Chain, On
<1>3. \A x \in E : mem[x].next \in E
  <2>1. ASSUME NEW k \in 1 .. n PROVE mem[s[k]].next \in E
    <3>1. Leap(s, k) \in (k + 1) .. (n + 1)
      BY LeapLands
    <3>2. Leap(s, k) <= n => Leap(s, k) \in 1 .. n
      BY <3>1
    <3> QED
      BY <3>2, ChainLeaps DEF On
  <2> QED
    BY <1>2, <2>1 DEF On
<1>4. Follows(mem, q, E, pos)
  BY <1>2, <1>3, WalkFollows
<1>5. PICK from : Remaining(s, from) /\ Called(s) = from[1]
  BY CalledIs
<1>6. pos \in [1 .. Steps -> E] /\ DOMAIN pos = 1 .. Steps /\ pos[1] = mem[q].next
  BY <1>4 DEF Follows
<1> HIDE DEF pos, E
<1>7. Reached(pos, from, s, q, 1, 1)
  <2>1. 1 \in 1 .. (n + 1) /\ (1 <= n <=> s # <<>>)
    BY <1>1
  <2>2. from[1] = SubSeq(pos, 1, 1 - 1) \o from[1]
    <3>1. SubSeq(pos, 1, 1 - 1) = <<>>
      BY SubSeqEmpty
    <3>2. from[1] \in Seq(Modules)
      BY <2>1, <1>5 DEF Remaining
    <3> QED
      BY <3>1, <3>2, ConcatEmptySeq
  <2>3. pos[1] = IF 1 <= n THEN s[1] ELSE q
    BY <1>6, <2>1 DEF Chain
  <2> QED
    BY <2>1, <2>2, <2>3 DEF Reached
<1> DEFINE Back(t) == Reached(pos, from, s, q, t, n + 1)
           T == {t \in 1 .. Steps : \E k \in 1 .. n : Reached(pos, from, s, q, t, k)}
<1>8. ASSUME NEW t, NEW k, Reached(pos, from, s, q, t, k), ~Back(t)
      PROVE  k \in 1 .. n
  <2>1. k \in 1 .. (n + 1) /\ k # n + 1
    BY <1>8 DEF Reached
  <2> QED
    BY <1>1, <2>1
<1>9. \E t \in 1 .. Steps : Back(t)
  <2> SUFFICES ASSUME \A t \in 1 .. Steps : ~Back(t) PROVE FALSE
    OBVIOUS
  <2>1. 1 \in T
    <3>1. 1 \in 1 .. Steps
      BY <1>1
    <3> HIDE DEF Back
    <3> QED
      BY <1>7, <1>8, <3>1
  <2>2. ASSUME NEW t \in 1 .. (Steps - 1), t \in T PROVE t + 1 \in T
    <3>1. PICK k \in 1 .. n : Reached(pos, from, s, q, t, k)
      BY <2>2
    <3>2. Reached(pos, from, s, q, t + 1, Leap(s, k))
      BY <1>4, <1>5, <3>1, WalkReaches DEF E
    <3>3. t + 1 \in 1 .. Steps
      BY <1>1
    <3> HIDE DEF Back
    <3> QED
      BY <1>8, <3>2, <3>3
  <2> HIDE DEF T
  <2>3. 1 .. Steps \subseteq T
    BY <1>1, <2>1, <2>2, Upward
  <2>4. PICK k \in 1 .. n : Reached(pos, from, s, q, Steps, k)
    <3>1. Steps \in T
      BY <1>1, <2>3
    <3> QED
      BY <3>1 DEF T
  <2> DEFINE c == Cardinality(Nodes)
             f == [a \in 1 .. c |-> pos[a]]
  <2>5. c \in Nat /\ Steps - 1 = c
    BY <1>1, NodesFinite
  <2>6. /\ \A a \in 1 .. c : pos[a] \in Modules
        /\ \A a, b \in 1 .. c : pos[a] = pos[b] => a = b
    BY <2>4, <2>5 DEF Reached
  <2>7. f \in [1 .. c -> Modules] /\ \A a, b \in 1 .. c : f[a] = f[b] => a = b
    BY <2>6
  <2>8. IsFiniteSet(1 .. c) /\ Cardinality(1 .. c) = c
    BY <2>5, FS_Interval
  <2> HIDE DEF f
  <2>9. \E a, b \in 1 .. c : a # b /\ f[a] = f[b]
    <3>1. IsFiniteSet(Modules) /\ Cardinality(Modules) < Cardinality(1 .. c)
      BY <2>8, NodesFinite
    <3> HIDE DEF c
    <3> QED
      BY <2>7, <2>8, <3>1, FS_PigeonHole
  <2> QED
    BY <2>7, <2>9
<1>10. PICK t \in 1 .. Steps : Back(t)
  BY <1>9
<1>11. pos[t] = q /\ \A a \in 1 .. (t - 1) : pos[a] # q
  BY <1>1, <1>10, StartAssumption DEF Reached
<1>12. from[1] = SubSeq(pos, 1, t - 1)
  <2>1. from[1] = SubSeq(pos, 1, t - 1) \o from[n + 1] /\ from[n + 1] = <<>>
    BY <1>5, <1>10 DEF Reached, Remaining
  <2>2. SubSeq(pos, 1, t - 1) \in Seq(Modules)
    <3>1. \A a \in 1 .. (t - 1) : pos[a] \in Modules
      BY <1>10 DEF Reached
    <3> QED
      BY <3>1, SubSeqProperties
  <2> QED
    BY <2>1, <2>2, ConcatEmptySeq
<1> DEFINE First(x) == pos[x] = q /\ \A a \in 1 .. (x - 1) : pos[a] # q
           end == CHOOSE x \in DOMAIN pos : First(x)
<1>13. end = t
  <2>1. t \in DOMAIN pos /\ First(t)
    BY <1>6, <1>11
  <2>2. end \in DOMAIN pos /\ First(end)
    <3> HIDE DEF First
    <3> QED
      BY <2>1, Zenon
  <2> HIDE DEF end
  <2>3. end \in 1 .. Steps /\ t \in 1 .. Steps
    BY <1>6, <2>2
  <2>4. end \notin 1 .. (t - 1) /\ t \notin 1 .. (end - 1)
    BY <1>11, <2>2
  <2> QED
    BY <1>1, <2>3, <2>4
<1>14. list_for_each(mem, q) = SubSeq(pos, 1, end - 1)
  BY DEF list_for_each, pos
<1>15. WalkEnds(mem, q)
  BY <1>6, <1>11 DEF WalkEnds, pos
<1> QED
  BY <1>5, <1>12, <1>13, <1>14, <1>15

(* WalkExact, of the loops of recv_response and header_postcheck: for any  *)
(* libraries and configuration they end, having called each module once in *)
(* the order of loading but for those a second loading cuts out, unless    *)
(* the module loaded last was also loaded just before.                     *)
THEOREM Walks == StartSpec => []WalkExact
<1>1. LinkInv => WalkExact
  <2> SUFFICES ASSUME LinkInv, stage = "run", NEW q \in Queues
               PROVE  LET s == order[q]
                          n == Len(s)
                      IN  /\ bufSize[q] = n
                          /\ WalkEnds(links, q) <=> ~(n > 1 /\ s[n] = s[n - 1])
                          /\ WalkEnds(links, q) => list_for_each(links, q) = Called(s)
    BY DEF WalkExact
  <2>1. /\ order[q] \in Seq(Modules) /\ links \in [Nodes -> Heads]
        /\ bufSize[q] = Len(order[q]) /\ Chain(links, q, order[q])
    BY DEF LinkInv, Ready, Chains
  <2>2. Stuck(order[q]) => ~WalkEnds(links, q)
    BY <2>1, StuckWalks
  <2>3. ~Stuck(order[q]) => WalkEnds(links, q) /\ list_for_each(links, q) = Called(order[q])
    BY <2>1, FreeWalks
  <2> QED
    BY <2>1, <2>2, <2>3, Zenon DEF Stuck
<1> QED
  BY <1>1, LinkInit, LinkStep, PTL DEF StartSpec
=============================================================================
