---------------------------- MODULE CrawlerProofs ----------------------------
(* Theorems about Crawler, for every set of tasks, every choice of faults  *)
(* and every limit on the jobs.                                            *)
EXTENDS Crawler, FiniteSetTheorems, TLAPS

(* Labels at which a thread works on the task in its hand.                 *)
Holding == {"resolve", "push", "connect", "log", "inc", "incstore"}

(* TypeOK is not inductive by itself: Register adds the task in hand to    *)
(* epfd, so there must be one, and Return takes one off todo.              *)
HandFull == \A a \in Attachers : pc[a] \in Holding => hand[a] \in Urls

TodoPositive ==
  /\ \A a \in Attachers : todo[a] > 0 <=> pc[a] \in AttachLabels
  /\ todo[Parser] <= 1

(* The tasks in the hand of a thread that still has to hand them on, and   *)
(* those whose thread exists.                                              *)
InHand == {hand[a] : a \in {b \in Attachers : pc[b] \in Delivering}}
Started == {u \in Urls : pc[u] # "idle"}

Distinct(q) == \A i, j \in DOMAIN q : q[i] = q[j] => i = j

(* OneOwner, with the threads that have come further than free_url among   *)
(* the owners: a task never comes back from its thread.                    *)
OnePlace ==
  /\ InQueue(surl_queue) \cap InQueue(ourl_queue) = {}
  /\ InQueue(surl_queue) \cap (InHand \cup epfd \cup Started) = {}
  /\ InQueue(ourl_queue) \cap (InHand \cup epfd \cup Started) = {}
  /\ InHand \cap (epfd \cup Started) = {}
  /\ epfd \cap Started = {}

OneHand ==
  \A a, b \in Attachers :
    pc[a] \in Delivering /\ pc[b] \in Delivering /\ hand[a] = hand[b] => a = b

NextOwner ==
  /\ Distinct(surl_queue) /\ Distinct(ourl_queue)
  /\ OnePlace /\ OneHand

(* What an owner has is allocated; what was never allocated has no thread. *)
Allocated ==
  /\ \A u \in InQueue(surl_queue) \cup InQueue(ourl_queue) \cup InHand \cup epfd :
       heap[u] = "live"
  /\ \A u \in Urls : pc[u] \in Reading => heap[u] = "live"
  /\ \A u \in Urls : heap[u] = "none" => pc[u] = "idle"

TypeInv == TypeOK /\ HandFull /\ TodoPositive

USE CrawlerAssumption DEF Attachers, Actors

LEMMA TypeInit == Init => TypeInv
  BY DEF Init, TypeInv, TypeOK, HandFull, TodoPositive, Holding, AttachLabels,
         MainLabels, ParserLabels, ThreadLabels, Receiving, Locked

LabelsOK ==
  /\ pc \in [Actors -> MainLabels \cup ParserLabels \cup ThreadLabels]
  /\ pc[Main] \in MainLabels /\ pc[Parser] \in ParserLabels
  /\ \A t \in Urls : pc[t] \in ThreadLabels

(* A return of attach_epoll_task leaves both parts of the strengthening.   *)
LEMMA TypeReturn ==
  ASSUME TypeInv, NEW a \in Attachers, pc[a] \in AttachLabels, Return(a)
  PROVE  /\ todo' \in [Attachers -> 0..2]
         /\ hand' \in [Attachers -> Urls \cup {None}]
         /\ LabelsOK'
         /\ HandFull' /\ TodoPositive'
<1> USE DEF TypeInv, TypeOK, Return, Goto
<1>1. todo[a] \in 1..2
  BY DEF TodoPositive
<1>2. todo' = [todo EXCEPT ![a] = todo[a] - 1]
  OBVIOUS
<1>3. todo' \in [Attachers -> 0..2]
  BY <1>1, <1>2
<1>4. hand' \in [Attachers -> Urls \cup {None}]
  OBVIOUS
<1>5. AfterAttach(a) \in {"scan", "empty", "unlock"}
  BY DEF AfterAttach
<1>6. pc' = [pc EXCEPT ![a] = AfterAttach(a)]
  OBVIOUS
<1>7. AfterAttach(a) = "scan" <=> a = Parser
  BY DEF AfterAttach
<1>8. LabelsOK'
  BY <1>5, <1>6, <1>7 DEF LabelsOK, ParserLabels, ThreadLabels, AttachLabels, Locked
<1>9. HandFull'
  BY <1>5, <1>6 DEF HandFull, Holding
<1>10. AfterAttach(a) = "empty" <=> a # Parser /\ todo[a] > 1
  BY DEF AfterAttach
<1>11. todo'[a] > 0 <=> pc'[a] \in AttachLabels
  BY <1>1, <1>2, <1>5, <1>6, <1>10 DEF AttachLabels, TodoPositive
<1>12. TodoPositive'
  BY <1>1, <1>2, <1>3, <1>6, <1>11 DEF TodoPositive
<1> QED
  BY <1>3, <1>4, <1>8, <1>9, <1>12

LEMMA TypeAttach ==
  ASSUME TypeInv, NEW a \in Attachers, attach_epoll_task(a)
  PROVE  TypeInv'
<1> USE DEF TypeInv, TypeOK, HandFull, TodoPositive, Holding, AttachLabels,
      MainLabels, ParserLabels, ThreadLabels, Receiving, Locked,
      LabelsOK, Goto, At, Running, conf, surlVars, ourlVars, jobVars, pollVars
<1>1. CASE PopTest(a)
  <2>1. CASE Return(a)
    BY <1>1, <2>1, TypeReturn DEF PopTest
  <2>2. CASE Goto(a, "pop") /\ UNCHANGED <<todo, hand>>
    BY <1>1, <2>2 DEF PopTest
  <2> QED
    BY <1>1, <2>1, <2>2 DEF PopTest
<1>2. CASE PopElement(a)
  BY <1>2 DEF PopElement
<1>3. CASE PopHead(a)
  BY <1>3, TypeReturn DEF PopHead
<1>4. CASE PopBroken(a)
  BY <1>4, ZenonT(60) DEF PopBroken
<1>5. CASE Register(a)
  BY <1>5 DEF Register
<1>6. CASE ConnectFails(a)
  BY <1>6, TypeReturn DEF ConnectFails
<1>7. CASE RegisterFails(a)
  BY <1>7, TypeReturn DEF RegisterFails
<1>8. CASE LogAttach(a)
  BY <1>8 DEF LogAttach
<1>9. CASE IncAtomic(a)
  <2>1. /\ LabelsOK' /\ HandFull' /\ TodoPositive'
        /\ todo' \in [Attachers -> 0..2]
        /\ hand' \in [Attachers -> Urls \cup {None}]
    BY <1>9, TypeReturn DEF IncAtomic
  <2>2. g_cur_thread_num' \in Int /\ reg' \in [Attachers -> Int]
    BY <1>9 DEF IncAtomic
  <2> QED
    BY <1>9, <2>1, <2>2 DEF IncAtomic
<1>10. CASE IncLoad(a)
  BY <1>10 DEF IncLoad
<1>11. CASE IncStore(a)
  <2>1. /\ LabelsOK' /\ HandFull' /\ TodoPositive'
        /\ todo' \in [Attachers -> 0..2]
        /\ hand' \in [Attachers -> Urls \cup {None}]
    BY <1>11, TypeReturn DEF IncStore
  <2>2. g_cur_thread_num' \in Int /\ reg' \in [Attachers -> Int]
    BY <1>11 DEF IncStore
  <2> QED
    BY <1>11, <2>1, <2>2 DEF IncStore
<1> QED
  BY <1>1, <1>2, <1>3, <1>4, <1>5, <1>6, <1>7, <1>8, <1>9, <1>10, <1>11
     DEF attach_epoll_task

LEMMA TypePush ==
  ASSUME TypeInv, PushOurl
  PROVE  TypeInv'
<1> USE DEF TypeInv, TypeOK, PushOurl, Goto, conf, surlVars, jobVars, pollVars
<1>1. pc[Parser] = "push" /\ hand[Parser] \in Urls
  BY DEF At, HandFull, Holding
<1>2. CASE list_ok
  <2>1. ourl_queue' = Append(ourl_queue, hand[Parser])
    BY <1>2
  <2>5. Append(ourl_queue, hand[Parser]) \in Seq(Urls)
    BY <1>1
  <2>2. /\ pc' = [pc EXCEPT ![Parser] = "jobs"]
        /\ hand' = [hand EXCEPT ![Parser] = None]
    BY <1>2
  <2>3. LabelsOK' /\ hand' \in [Attachers -> Urls \cup {None}]
    BY <2>2 DEF LabelsOK, ParserLabels
  <2>4. HandFull' /\ TodoPositive'
    BY <1>1, <2>2 DEF HandFull, TodoPositive, Holding, AttachLabels
  <2> QED
    BY <1>2, <2>1, <2>3, <2>4, <2>5 DEF LabelsOK
<1>3. CASE ~list_ok
  BY <1>3 DEF HandFull, TodoPositive
<1> QED
  BY <1>2, <1>3

LEMMA TypeTest ==
  ASSUME TypeInv, TestJobs
  PROVE  TypeInv'
<1> USE DEF TypeInv, TypeOK, TestJobs, Goto, conf, surlVars, ourlVars, pollVars
<1>1. pc[Parser] = "jobs"
  BY DEF At
<1>2. CASE g_cur_thread_num = 0
  <2>1. /\ todo' = [todo EXCEPT ![Parser] = 1]
        /\ pc' = [pc EXCEPT ![Parser] = "empty"]
    BY <1>2
  <2>2. LabelsOK' /\ todo' \in [Attachers -> 0..2]
    BY <2>1 DEF LabelsOK, ParserLabels, AttachLabels
  <2>3. HandFull' /\ TodoPositive'
    BY <1>1, <2>1 DEF HandFull, TodoPositive, Holding, AttachLabels
  <2> QED
    BY <1>2, <2>2, <2>3 DEF LabelsOK
<1>3. CASE g_cur_thread_num # 0
  <2>1. pc' = [pc EXCEPT ![Parser] = "scan"] /\ todo' = todo
    BY <1>3
  <2>2. LabelsOK'
    BY <2>1 DEF LabelsOK, ParserLabels
  <2>3. HandFull' /\ TodoPositive'
    BY <1>1, <2>1 DEF HandFull, TodoPositive, Holding, AttachLabels
  <2> QED
    BY <1>3, <2>1, <2>2, <2>3 DEF LabelsOK
<1> QED
  BY <1>2, <1>3

LEMMA TypeSignal ==
  ASSUME TypeInv, NEW t \in Urls, Signal(t)
  PROVE  TypeInv'
<1> USE DEF TypeInv, TypeOK, Signal, conf, surlVars, ourlVars, jobVars, pollVars
<1>1. pc[t] = "signal" /\ t # Parser /\ t # Main
  BY DEF At
<1>2. /\ pc'[t] = "extract"
      /\ pc'[Parser] = IF pc[Parser] = "blocked" THEN "check" ELSE pc[Parser]
      /\ \A a \in Actors \ {t, Parser} : pc'[a] = pc[a]
      /\ DOMAIN pc' = Actors
  BY <1>1
<1>3. LabelsOK'
  BY <1>1, <1>2 DEF LabelsOK, ParserLabels, ThreadLabels, Receiving
<1>4. HandFull' /\ TodoPositive'
  BY <1>1, <1>2 DEF HandFull, TodoPositive, Holding, AttachLabels
<1> QED
  BY <1>3, <1>4 DEF LabelsOK

LEMMA TypeParser ==
  ASSUME TypeInv, urlparser \/ SpuriousWakeup
  PROVE  TypeInv'
<1> USE DEF TypeInv, TypeOK, HandFull, TodoPositive, Holding, AttachLabels,
      MainLabels, ParserLabels, ThreadLabels, Receiving, Locked,
      Goto, At, Running, conf, surlVars, ourlVars, jobVars, pollVars
<1>1. CASE TestSurlSize
  BY <1>1 DEF TestSurlSize
<1>2. CASE CondWait
  BY <1>2 DEF CondWait
<1>3. CASE SpuriousWakeup
  BY <1>3 DEF SpuriousWakeup
<1>4. CASE LockSurl
  BY <1>4 DEF LockSurl
<1>5. CASE TakeSurl
  BY <1>5 DEF TakeSurl
<1>6. CASE UnlockSurl
  BY <1>6 DEF UnlockSurl
<1>7. CASE Resolve
  BY <1>7 DEF Resolve
<1>8. CASE ResolveFails
  BY <1>8 DEF ResolveFails
<1>9. CASE PushOurl
  BY <1>9, TypePush
<1>10. CASE TestJobs
  BY <1>10, TypeTest
<1>11. CASE attach_epoll_task(Parser)
  BY <1>11, TypeAttach
<1> QED
  BY <1>1, <1>2, <1>3, <1>4, <1>5, <1>6, <1>7, <1>8, <1>9, <1>10, <1>11
     DEF urlparser

LEMMA TypeRecv ==
  ASSUME TypeInv, NEW t \in Urls, recv_response(t)
  PROVE  TypeInv'
<1> USE DEF TypeInv, TypeOK, HandFull, TodoPositive, Holding, AttachLabels,
      MainLabels, ParserLabels, ThreadLabels, Receiving, Locked,
      Goto, At, Running, conf, surlVars, ourlVars, jobVars, pollVars
<1>1. CASE RecvPage(t)
  BY <1>1 DEF RecvPage
<1>2. CASE RecvRejected(t)
  BY <1>2 DEF RecvRejected
<1>3. CASE RecvNoHeader(t)
  BY <1>3, ZenonT(60) DEF RecvNoHeader
<1>4. CASE ExtractLink(t)
  BY <1>4 DEF ExtractLink
<1>5. CASE TestSignal(t)
  BY <1>5 DEF TestSignal
<1>6. CASE Signal(t)
  BY <1>6, TypeSignal
<1>7. CASE ExtractDone(t)
  BY <1>7 DEF ExtractDone
<1>8. CASE FreeUrl(t)
  BY <1>8 DEF FreeUrl
<1> QED
  BY <1>1, <1>2, <1>3, <1>4, <1>5, <1>6, <1>7, <1>8 DEF recv_response

LEMMA TypeEnd ==
  ASSUME TypeInv, NEW t \in Urls, end_thread(t)
  PROVE  TypeInv'
<1> USE DEF TypeInv, TypeOK, HandFull, TodoPositive, Holding, AttachLabels,
      MainLabels, ParserLabels, ThreadLabels, Receiving, Locked,
      Goto, At, Running, conf, surlVars, ourlVars, jobVars, pollVars
<1>1. CASE LockJobs(t)
  BY <1>1 DEF LockJobs
<1>2. CASE DecAtomic(t)
  BY <1>2 DEF DecAtomic
<1>3. CASE DecLoad(t)
  BY <1>3 DEF DecLoad
<1>4. CASE DecStore(t)
  BY <1>4 DEF DecStore
<1>5. CASE Left(t)
  BY <1>5 DEF Left, Starts
<1>6. CASE UnlockJobs(t)
  BY <1>6 DEF UnlockJobs
<1>7. CASE attach_epoll_task(t)
  BY <1>7, TypeAttach
<1> QED
  BY <1>1, <1>2, <1>3, <1>4, <1>5, <1>6, <1>7 DEF end_thread

LEMMA TypeMain ==
  ASSUME TypeInv, NextOwner, epoll_proc
  PROVE  TypeInv'
<1> USE DEF TypeInv, TypeOK, HandFull, TodoPositive, Holding, AttachLabels,
      MainLabels, ParserLabels, ThreadLabels, Receiving, Locked,
      Goto, At, Running, conf, surlVars, ourlVars, jobVars, pollVars
<1>1. CASE SeedWait
  BY <1>1 DEF SeedWait
<1>2. CASE Timeout
  BY <1>2 DEF Timeout
<1>3. CASE QuietTest
  <2>1. PICK l \in MainLabels : Goto(Main, l)
    BY <1>3 DEF QuietTest, NoJobs, OurlEmpty, SurlEmpty, Check, Sleep
  <2>2. UNCHANGED <<conf, alive, surlVars, ourlVars, jobVars, hand, pollVars, heap>>
    BY <1>3 DEF QuietTest, NoJobs, OurlEmpty, SurlEmpty, Check, Sleep
  <2> QED
    BY <2>1, <2>2
<1>4. CASE \E t \in Urls : Dispatch(t) \/ DropTask(t)
  <2>1. PICK t \in Urls : Dispatch(t) \/ DropTask(t)
    BY <1>4
  <2>2. CASE Dispatch(t)
    <3>1. pc[t] = "idle"
      BY <2>2 DEF Dispatch, NextOwner, OnePlace, Started
    <3>2. epfd' \subseteq Urls
      BY <2>2 DEF Dispatch
    <3> QED
      BY <2>2, <3>1, <3>2 DEF Dispatch
  <2>3. CASE DropTask(t)
    BY <2>3 DEF DropTask
  <2> QED
    BY <2>1, <2>2, <2>3
<1> QED
  BY <1>1, <1>2, <1>3, <1>4 DEF epoll_proc

LEMMA AppendQueue ==
  ASSUME NEW S, NEW q \in Seq(S), NEW e \in S
  PROVE  /\ InQueue(Append(q, e)) = InQueue(q) \cup {e}
         /\ Distinct(q) /\ e \notin InQueue(q) => Distinct(Append(q, e))
<1>1. /\ DOMAIN Append(q, e) = DOMAIN q \cup {Len(q) + 1}
      /\ Len(q) + 1 \notin DOMAIN q
      /\ Append(q, e)[Len(q) + 1] = e
      /\ \A i \in DOMAIN q : Append(q, e)[i] = q[i]
  OBVIOUS
<1> QED
  BY <1>1 DEF InQueue, Distinct

LEMMA TailQueue ==
  ASSUME NEW S, NEW q \in Seq(S), q # <<>>, Distinct(q)
  PROVE  /\ Head(q) \in InQueue(q) /\ Head(q) \in S
         /\ InQueue(Tail(q)) = InQueue(q) \ {Head(q)}
         /\ Distinct(Tail(q))
<1>1. /\ 1 \in DOMAIN q /\ Head(q) = q[1]
      /\ DOMAIN q = 1..Len(q) /\ Len(q) \in Nat
      /\ DOMAIN Tail(q) = 1..(Len(q) - 1)
      /\ \A i \in 1..(Len(q) - 1) : Tail(q)[i] = q[i + 1]
  OBVIOUS
<1>2. Distinct(Tail(q))
  BY <1>1 DEF Distinct
<1>3. InQueue(Tail(q)) \subseteq InQueue(q) \ {Head(q)}
  BY <1>1 DEF InQueue, Distinct
<1>4. InQueue(q) \ {Head(q)} \subseteq InQueue(Tail(q))
  <2> SUFFICES ASSUME NEW x \in InQueue(q), x # Head(q)
               PROVE  x \in InQueue(Tail(q))
    OBVIOUS
  <2>1. PICK i \in DOMAIN q : x = q[i]
    BY DEF InQueue
  <2>2. i - 1 \in DOMAIN Tail(q) /\ Tail(q)[i - 1] = x
    BY <1>1, <2>1
  <2> QED
    BY <2>2 DEF InQueue
<1>5. Head(q) \in InQueue(q)
  BY <1>1 DEF InQueue
<1>6. Head(q) \in S
  OBVIOUS
<1> QED
  BY <1>2, <1>3, <1>4, <1>5, <1>6

OwnerInv == NextOwner /\ Allocated

(* A step that moves no task to a new place, except out of every place,    *)
(* and neither allocates nor frees.                                        *)
Quiet ==
  /\ UNCHANGED <<surl_queue, ourl_queue, heap>>
  /\ epfd' \subseteq epfd
  /\ \A u \in Urls : /\ pc'[u] = "idle" <=> pc[u] = "idle"
                     /\ pc'[u] \in Reading => pc[u] \in Reading
  /\ \A b \in Attachers :
       pc'[b] \in Delivering => pc[b] \in Delivering /\ hand'[b] = hand[b]

LEMMA OwnerQuiet ==
  ASSUME OwnerInv, Quiet
  PROVE  OwnerInv'
<1>1. InHand' \subseteq InHand
  BY DEF InHand, Quiet
<1>2. Started' = Started
  BY DEF Started, Quiet
<1>3. NextOwner'
  BY <1>1, <1>2 DEF OwnerInv, NextOwner, OnePlace, OneHand, InQueue, Distinct, Quiet
<1>4. Allocated'
  BY <1>1 DEF OwnerInv, Allocated, InQueue, Quiet
<1> QED
  BY <1>3, <1>4 DEF OwnerInv

LEMMA OwnerAttach ==
  ASSUME TypeInv, OwnerInv, NEW a \in Attachers, attach_epoll_task(a)
  PROVE  OwnerInv'
<1> DEFINE u == hand[a]
<1> USE DEF At, Running, Goto, Return, AfterAttach, conf, surlVars, ourlVars,
      jobVars, pollVars
<1>0. /\ pc \in [Actors -> MainLabels \cup ParserLabels \cup ThreadLabels]
      /\ hand \in [Attachers -> Urls \cup {None}]
      /\ ourl_queue \in Seq(Urls) /\ surl_queue \in Seq(Urls) /\ epfd \subseteq Urls
      /\ heap \in [Urls -> {"none", "live", "freed"}]
  BY DEF TypeInv, TypeOK
<1>1. CASE PopTest(a)
  <2>1. Quiet
    BY <1>0, <1>1 DEF PopTest, Quiet, Delivering, Reading
  <2> QED
    BY <2>1, OwnerQuiet
<1>3. CASE PopHead(a)
  <2>1. Quiet
    BY <1>0, <1>3 DEF PopHead, Quiet, Delivering, Reading
  <2> QED
    BY <2>1, OwnerQuiet
<1>4. CASE PopBroken(a)
  <2>1. Quiet
    BY <1>0, <1>4 DEF PopBroken, Quiet, Delivering, Reading
  <2> QED
    BY <2>1, OwnerQuiet
<1>6. CASE ConnectFails(a)
  <2>1. Quiet
    BY <1>0, <1>6 DEF ConnectFails, Quiet, Delivering, Reading
  <2> QED
    BY <2>1, OwnerQuiet
<1>8. CASE LogAttach(a)
  <2>1. Quiet
    BY <1>0, <1>8 DEF LogAttach, Quiet, Delivering, Reading
  <2> QED
    BY <2>1, OwnerQuiet
<1>9. CASE IncAtomic(a)
  <2>1. Quiet
    BY <1>0, <1>9 DEF IncAtomic, Quiet, Delivering, Reading
  <2> QED
    BY <2>1, OwnerQuiet
<1>10. CASE IncLoad(a)
  <2>1. Quiet
    BY <1>0, <1>10 DEF IncLoad, Quiet, Delivering, Reading
  <2> QED
    BY <2>1, OwnerQuiet
<1>11. CASE IncStore(a)
  <2>1. Quiet
    BY <1>0, <1>11 DEF IncStore, Quiet, Delivering, Reading
  <2> QED
    BY <2>1, OwnerQuiet
<1>2. CASE PopElement(a)
  <2>1. /\ ourl_queue # <<>> /\ hand' = [hand EXCEPT ![a] = Head(ourl_queue)]
        /\ ourl_queue' = Tail(ourl_queue) /\ pc[a] = "pop"
        /\ pc' = [pc EXCEPT ![a] = "connect"]
        /\ UNCHANGED <<surl_queue, epfd, heap>>
    BY <1>2 DEF PopElement
  <2>2. /\ Head(ourl_queue) \in InQueue(ourl_queue) /\ Head(ourl_queue) \in Urls
        /\ InQueue(ourl_queue') = InQueue(ourl_queue) \ {Head(ourl_queue)}
        /\ Distinct(ourl_queue')
    BY <1>0, <2>1, TailQueue DEF OwnerInv, NextOwner
  <2>3. /\ InHand' = InHand \cup {Head(ourl_queue)}
        /\ Started' = Started
    BY <1>0, <2>1 DEF InHand, Started, Delivering
  <2>4. \A b \in Attachers \ {a} : /\ pc'[b] = pc[b] /\ hand'[b] = hand[b]
                                   /\ pc[b] \in Delivering => hand[b] \in InHand
    BY <1>0, <2>1 DEF InHand
  <2>7. OnePlace'
    BY <2>1, <2>2, <2>3, ZenonT(60) DEF OwnerInv, NextOwner, OnePlace, InQueue
  <2>8. OneHand'
    BY <1>0, <2>1, <2>2, <2>4 DEF OwnerInv, NextOwner, OnePlace, OneHand
  <2>5. NextOwner'
    BY <2>1, <2>2, <2>7, <2>8 DEF OwnerInv, NextOwner, Distinct
  <2>6. Allocated'
    BY <1>0, <2>1, <2>2, <2>3 DEF OwnerInv, Allocated, InQueue, Reading
  <2> QED
    BY <2>5, <2>6 DEF OwnerInv
<1>5. CASE Register(a)
  <2>1. /\ pc[a] = "connect" /\ epfd' = epfd \cup {u} /\ u \in InHand
        /\ pc' \in { [pc EXCEPT ![a] = "log"], [pc EXCEPT ![a] = "inc"] }
        /\ UNCHANGED <<surl_queue, ourl_queue, heap, hand>>
    BY <1>5 DEF Register, InHand, Delivering
  <2>2. InHand' = InHand \ {u} /\ Started' = Started
    BY <1>0, <2>1 DEF InHand, Started, Delivering, OwnerInv, NextOwner, OneHand
  <2>3. \A b \in Attachers : pc'[b] \in Delivering => pc[b] \in Delivering
    BY <1>0, <2>1 DEF Delivering
  <2>4. NextOwner'
    BY <1>0, <2>1, <2>2, <2>3, SMTT(30)
       DEF OwnerInv, NextOwner, OnePlace, OneHand, InQueue, Distinct
  <2>5. Allocated'
    BY <1>0, <2>1, <2>2 DEF OwnerInv, Allocated, InQueue, Reading
  <2> QED
    BY <2>4, <2>5 DEF OwnerInv
<1>7. CASE RegisterFails(a)
  <2>1. /\ pc[a] = "connect" /\ heap' = [heap EXCEPT ![u] = "freed"] /\ u \in InHand
        /\ pc' = [pc EXCEPT ![a] = AfterAttach(a)]
        /\ hand' = [hand EXCEPT ![a] = None]
        /\ UNCHANGED <<surl_queue, ourl_queue, epfd>>
    BY <1>7 DEF RegisterFails, InHand, Delivering
  <2>2. InHand' = InHand \ {u} /\ Started' = Started
    BY <1>0, <2>1 DEF InHand, Started, Delivering, OwnerInv, NextOwner, OneHand
  <2>3. \A b \in Attachers :
          pc'[b] \in Delivering => pc[b] \in Delivering /\ hand'[b] = hand[b]
    BY <1>0, <2>1 DEF Delivering
  <2>7. OneHand'
    BY <2>3 DEF OwnerInv, NextOwner, OneHand
  <2>8. OnePlace'
    BY <2>1, <2>2 DEF OwnerInv, NextOwner, OnePlace, InQueue
  <2>4. NextOwner'
    BY <2>1, <2>7, <2>8 DEF OwnerInv, NextOwner, Distinct
  <2>5. \A v \in Urls : pc'[v] \in Reading => pc[v] \in Reading /\ v # u
    BY <1>0, <2>1 DEF OwnerInv, NextOwner, OnePlace, Started, Reading
  <2>6. Allocated'
    BY <1>0, <2>1, <2>2, <2>5
       DEF OwnerInv, NextOwner, OnePlace, Allocated, InQueue
  <2> QED
    BY <2>4, <2>6 DEF OwnerInv
<1> QED
  BY <1>1, <1>2, <1>3, <1>4, <1>5, <1>6, <1>7, <1>8, <1>9, <1>10, <1>11
     DEF attach_epoll_task

LEMMA OwnerParser ==
  ASSUME TypeInv, OwnerInv, urlparser \/ SpuriousWakeup
  PROVE  OwnerInv'
<1> USE DEF At, Running, Goto, conf, surlVars, ourlVars, jobVars, pollVars
<1>0. /\ pc \in [Actors -> MainLabels \cup ParserLabels \cup ThreadLabels]
      /\ hand \in [Attachers -> Urls \cup {None}]
      /\ ourl_queue \in Seq(Urls) /\ surl_queue \in Seq(Urls) /\ epfd \subseteq Urls
      /\ heap \in [Urls -> {"none", "live", "freed"}]
  BY DEF TypeInv, TypeOK
<1>1. CASE TestSurlSize
  <2>1. Quiet
    BY <1>0, <1>1 DEF TestSurlSize, Quiet, Delivering, Reading
  <2> QED
    BY <2>1, OwnerQuiet
<1>2. CASE CondWait
  <2>1. Quiet
    BY <1>0, <1>2 DEF CondWait, Quiet, Delivering, Reading
  <2> QED
    BY <2>1, OwnerQuiet
<1>3. CASE SpuriousWakeup
  <2>1. Quiet
    BY <1>0, <1>3 DEF SpuriousWakeup, Quiet, Delivering, Reading
  <2> QED
    BY <2>1, OwnerQuiet
<1>4. CASE LockSurl
  <2>1. Quiet
    BY <1>0, <1>4 DEF LockSurl, Quiet, Delivering, Reading
  <2> QED
    BY <2>1, OwnerQuiet
<1>6. CASE UnlockSurl
  <2>1. Quiet
    BY <1>0, <1>6 DEF UnlockSurl, Quiet, Delivering, Reading
  <2> QED
    BY <2>1, OwnerQuiet
<1>7. CASE Resolve
  <2>1. Quiet
    BY <1>0, <1>7 DEF Resolve, Quiet, Delivering, Reading
  <2> QED
    BY <2>1, OwnerQuiet
<1>8. CASE ResolveFails
  <2>1. Quiet
    BY <1>0, <1>8 DEF ResolveFails, Quiet, Delivering, Reading
  <2> QED
    BY <2>1, OwnerQuiet
<1>10. CASE TestJobs
  <2>1. Quiet
    BY <1>0, <1>10 DEF TestJobs, Quiet, Delivering, Reading
  <2> QED
    BY <2>1, OwnerQuiet
<1>5. CASE TakeSurl
  <2>1. /\ surl_queue # <<>> /\ hand' = [hand EXCEPT ![Parser] = Head(surl_queue)]
        /\ surl_queue' = Tail(surl_queue) /\ pc[Parser] = "scan"
        /\ pc' = [pc EXCEPT ![Parser] = "resolve"]
        /\ UNCHANGED <<ourl_queue, epfd, heap>>
    BY <1>5 DEF TakeSurl
  <2>2. /\ Head(surl_queue) \in InQueue(surl_queue) /\ Head(surl_queue) \in Urls
        /\ InQueue(surl_queue') = InQueue(surl_queue) \ {Head(surl_queue)}
        /\ Distinct(surl_queue')
    BY <1>0, <2>1, TailQueue DEF OwnerInv, NextOwner
  <2>3. /\ InHand' = InHand \cup {Head(surl_queue)}
        /\ Started' = Started
    BY <1>0, <2>1 DEF InHand, Started, Delivering
  <2>4. \A b \in Attachers \ {Parser} :
          /\ pc'[b] = pc[b] /\ hand'[b] = hand[b]
          /\ pc[b] \in Delivering => hand[b] \in InHand
    BY <1>0, <2>1 DEF InHand
  <2>9. /\ InQueue(ourl_queue)' = InQueue(ourl_queue)
        /\ InQueue(surl_queue)' = InQueue(surl_queue) \ {Head(surl_queue)}
    BY <2>1, <2>2 DEF InQueue
  <2>5. OnePlace'
    BY <2>1, <2>2, <2>3, <2>9 DEF OwnerInv, NextOwner, OnePlace
  <2>6. OneHand'
    BY <1>0, <2>1, <2>2, <2>4 DEF OwnerInv, NextOwner, OnePlace, OneHand
  <2>7. NextOwner'
    BY <2>1, <2>2, <2>5, <2>6 DEF OwnerInv, NextOwner, Distinct
  <2>8. Allocated'
    BY <1>0, <2>1, <2>2, <2>3 DEF OwnerInv, Allocated, InQueue, Reading
  <2> QED
    BY <2>7, <2>8 DEF OwnerInv
<1>9. CASE PushOurl
  <2>1. CASE ~list_ok
    <3>1. Quiet
      BY <1>0, <1>9, <2>1 DEF PushOurl, Quiet, Delivering, Reading
    <3> QED
      BY <3>1, OwnerQuiet
  <2>2. CASE list_ok
    <3> DEFINE u == hand[Parser]
    <3>1. /\ pc[Parser] = "push" /\ u \in InHand /\ u \in Urls
          /\ ourl_queue' = Append(ourl_queue, u)
          /\ hand' = [hand EXCEPT ![Parser] = None]
          /\ pc' = [pc EXCEPT ![Parser] = "jobs"]
          /\ UNCHANGED <<surl_queue, epfd, heap>>
      BY <1>9, <2>2 DEF PushOurl, InHand, Delivering, TypeInv, HandFull, Holding
    <3>2. /\ InQueue(ourl_queue') = InQueue(ourl_queue) \cup {u}
          /\ Distinct(ourl_queue')
      BY <1>0, <3>1, AppendQueue DEF OwnerInv, NextOwner, OnePlace
    <3>3. InHand' = InHand \ {u} /\ Started' = Started
      BY <1>0, <3>1 DEF InHand, Started, Delivering, OwnerInv, NextOwner, OneHand
    <3>4. \A b \in Attachers :
            pc'[b] \in Delivering => pc[b] \in Delivering /\ hand'[b] = hand[b]
      BY <1>0, <3>1 DEF Delivering
    <3>5. OnePlace'
      BY <3>1, <3>2, <3>3 DEF OwnerInv, NextOwner, OnePlace, InQueue
    <3>6. OneHand'
      BY <3>4 DEF OwnerInv, NextOwner, OneHand
    <3>7. NextOwner'
      BY <3>1, <3>2, <3>5, <3>6 DEF OwnerInv, NextOwner, Distinct
    <3>8. Allocated'
      BY <1>0, <3>1, <3>2, <3>3 DEF OwnerInv, Allocated, InQueue, Reading
    <3> QED
      BY <3>7, <3>8 DEF OwnerInv
  <2> QED
    BY <2>1, <2>2
<1>11. CASE attach_epoll_task(Parser)
  BY <1>11, OwnerAttach
<1> QED
  BY <1>1, <1>2, <1>3, <1>4, <1>5, <1>6, <1>7, <1>8, <1>9, <1>10, <1>11
     DEF urlparser

LEMMA OwnerRecv ==
  ASSUME TypeInv, OwnerInv, NEW t \in Urls, recv_response(t)
  PROVE  OwnerInv'
<1> USE DEF At, Running, Goto, conf, surlVars, ourlVars, jobVars, pollVars
<1>0. /\ pc \in [Actors -> MainLabels \cup ParserLabels \cup ThreadLabels]
      /\ hand \in [Attachers -> Urls \cup {None}]
      /\ ourl_queue \in Seq(Urls) /\ surl_queue \in Seq(Urls) /\ epfd \subseteq Urls
      /\ heap \in [Urls -> {"none", "live", "freed"}]
  BY DEF TypeInv, TypeOK
<1>1. CASE RecvPage(t)
  <2>1. Quiet
    BY <1>0, <1>1 DEF RecvPage, Quiet, Delivering, Reading
  <2> QED
    BY <2>1, OwnerQuiet
<1>2. CASE RecvRejected(t)
  <2>1. Quiet
    BY <1>0, <1>2 DEF RecvRejected, Quiet, Delivering, Reading
  <2> QED
    BY <2>1, OwnerQuiet
<1>3. CASE RecvNoHeader(t)
  <2>1. Quiet
    BY <1>0, <1>3 DEF RecvNoHeader, Quiet, Delivering, Reading
  <2> QED
    BY <2>1, OwnerQuiet
<1>5. CASE TestSignal(t)
  <2>1. Quiet
    BY <1>0, <1>5 DEF TestSignal, Quiet, Delivering, Reading
  <2> QED
    BY <2>1, OwnerQuiet
<1>6. CASE Signal(t)
  <2>1. Quiet
    BY <1>0, <1>6 DEF Signal, Quiet, Delivering, Reading
  <2> QED
    BY <2>1, OwnerQuiet
<1>7. CASE ExtractDone(t)
  <2>1. Quiet
    BY <1>0, <1>7 DEF ExtractDone, Quiet, Delivering, Reading
  <2> QED
    BY <2>1, OwnerQuiet
<1>4. CASE ExtractLink(t)
  <2>1. PICK u \in Urls : /\ heap[u] = "none"
                          /\ heap' = [heap EXCEPT ![u] = "live"]
                          /\ surl_queue' = Append(surl_queue, u)
    BY <1>4 DEF ExtractLink
  <2>2. /\ pc[t] = "extract" /\ pc' = [pc EXCEPT ![t] = "test"]
        /\ UNCHANGED <<ourl_queue, epfd, hand>>
    BY <1>4 DEF ExtractLink
  <2>3. u \notin InQueue(surl_queue) \cup InQueue(ourl_queue) \cup InHand \cup epfd \cup Started
    BY <1>0, <2>1 DEF OwnerInv, Allocated, Started
  <2>4. /\ InQueue(surl_queue') = InQueue(surl_queue) \cup {u}
        /\ Distinct(surl_queue')
    BY <1>0, <2>1, <2>3, AppendQueue DEF OwnerInv, NextOwner
  <2>5. InHand' = InHand /\ Started' = Started
    BY <1>0, <2>2 DEF InHand, Started, Delivering
  <2>6. OnePlace'
    BY <2>2, <2>3, <2>4, <2>5 DEF OwnerInv, NextOwner, OnePlace, InQueue
  <2>7. OneHand'
    BY <1>0, <2>2 DEF OwnerInv, NextOwner, OneHand, Delivering
  <2>8. NextOwner'
    BY <2>2, <2>4, <2>6, <2>7 DEF OwnerInv, NextOwner, Distinct
  <2>9. Allocated'
    BY <1>0, <2>1, <2>2, <2>4, <2>5 DEF OwnerInv, Allocated, InQueue, Reading
  <2> QED
    BY <2>8, <2>9 DEF OwnerInv
<1>8. CASE FreeUrl(t)
  <2>1. /\ pc[t] = "free" /\ pc' = [pc EXCEPT ![t] = "lockjobs"]
        /\ heap' = [heap EXCEPT ![t] = "freed"]
        /\ UNCHANGED <<surl_queue, ourl_queue, epfd, hand>>
    BY <1>8 DEF FreeUrl
  <2>2. InHand' = InHand /\ Started' = Started /\ t \in Started
    BY <1>0, <2>1 DEF InHand, Started, Delivering
  <2>3. OnePlace'
    BY <2>1, <2>2 DEF OwnerInv, NextOwner, OnePlace, InQueue
  <2>4. OneHand'
    BY <1>0, <2>1 DEF OwnerInv, NextOwner, OneHand, Delivering
  <2>5. NextOwner'
    BY <2>1, <2>3, <2>4 DEF OwnerInv, NextOwner, Distinct
  <2>6. Allocated'
    BY <1>0, <2>1, <2>2
       DEF OwnerInv, NextOwner, OnePlace, Allocated, InQueue, Reading
  <2> QED
    BY <2>5, <2>6 DEF OwnerInv
<1> QED
  BY <1>1, <1>2, <1>3, <1>4, <1>5, <1>6, <1>7, <1>8 DEF recv_response

LEMMA OwnerEnd ==
  ASSUME TypeInv, OwnerInv, NEW t \in Urls, end_thread(t)
  PROVE  OwnerInv'
<1> USE DEF At, Running, Goto, conf, surlVars, ourlVars, jobVars, pollVars
<1>0. /\ pc \in [Actors -> MainLabels \cup ParserLabels \cup ThreadLabels]
      /\ hand \in [Attachers -> Urls \cup {None}]
      /\ ourl_queue \in Seq(Urls) /\ surl_queue \in Seq(Urls) /\ epfd \subseteq Urls
      /\ heap \in [Urls -> {"none", "live", "freed"}]
  BY DEF TypeInv, TypeOK
<1>1. CASE LockJobs(t)
  <2>1. Quiet
    BY <1>0, <1>1 DEF LockJobs, Quiet, Delivering, Reading
  <2> QED
    BY <2>1, OwnerQuiet
<1>2. CASE DecAtomic(t)
  <2>1. Quiet
    BY <1>0, <1>2 DEF DecAtomic, Quiet, Delivering, Reading
  <2> QED
    BY <2>1, OwnerQuiet
<1>3. CASE DecLoad(t)
  <2>1. Quiet
    BY <1>0, <1>3 DEF DecLoad, Quiet, Delivering, Reading
  <2> QED
    BY <2>1, OwnerQuiet
<1>4. CASE DecStore(t)
  <2>1. Quiet
    BY <1>0, <1>4 DEF DecStore, Quiet, Delivering, Reading
  <2> QED
    BY <2>1, OwnerQuiet
<1>5. CASE Left(t)
  <2>1. Quiet
    BY <1>0, <1>5 DEF Left, Quiet, Delivering, Reading
  <2> QED
    BY <2>1, OwnerQuiet
<1>6. CASE UnlockJobs(t)
  <2>1. Quiet
    BY <1>0, <1>6 DEF UnlockJobs, Quiet, Delivering, Reading
  <2> QED
    BY <2>1, OwnerQuiet
<1>7. CASE attach_epoll_task(t)
  BY <1>7, OwnerAttach
<1> QED
  BY <1>1, <1>2, <1>3, <1>4, <1>5, <1>6, <1>7 DEF end_thread

LEMMA OwnerMain ==
  ASSUME TypeInv, OwnerInv, epoll_proc
  PROVE  OwnerInv'
<1> USE DEF At, Running, Goto, conf, surlVars, ourlVars, jobVars, pollVars
<1>0. /\ pc \in [Actors -> MainLabels \cup ParserLabels \cup ThreadLabels]
      /\ hand \in [Attachers -> Urls \cup {None}]
      /\ ourl_queue \in Seq(Urls) /\ surl_queue \in Seq(Urls) /\ epfd \subseteq Urls
      /\ heap \in [Urls -> {"none", "live", "freed"}]
  BY DEF TypeInv, TypeOK
<1>1. CASE SeedWait
  <2>1. Quiet
    BY <1>0, <1>1 DEF SeedWait, Quiet, Delivering, Reading
  <2> QED
    BY <2>1, OwnerQuiet
<1>2. CASE Timeout
  <2>1. Quiet
    BY <1>0, <1>2 DEF Timeout, Quiet, Delivering, Reading
  <2> QED
    BY <2>1, OwnerQuiet
<1>3. CASE QuietTest
  <2>1. Quiet
    BY <1>0, <1>3 DEF QuietTest, NoJobs, OurlEmpty, SurlEmpty, Check, Sleep, Quiet, Delivering, Reading
  <2> QED
    BY <2>1, OwnerQuiet
<1>4. CASE \E t \in Urls : DropTask(t)
  <2>1. Quiet
    BY <1>0, <1>4 DEF DropTask, Quiet
  <2> QED
    BY <2>1, OwnerQuiet
<1>5. ASSUME NEW t \in Urls, Dispatch(t)
      PROVE  OwnerInv'
  <2>1. /\ t \in epfd /\ epfd' = epfd \ {t} /\ pc' = [pc EXCEPT ![t] = "recv"]
        /\ UNCHANGED <<surl_queue, ourl_queue, heap, hand>>
    BY <1>5 DEF Dispatch
  <2>2. pc[t] = "idle" /\ Started' = Started \cup {t}
    BY <1>0, <2>1 DEF Started, OwnerInv, NextOwner, OnePlace
  <2>3. InHand' = InHand
    BY <1>0, <2>1, <2>2 DEF InHand, Delivering
  <2>4. OnePlace'
    BY <2>1, <2>2, <2>3 DEF OwnerInv, NextOwner, OnePlace, InQueue
  <2>5. OneHand'
    BY <1>0, <2>1, <2>2 DEF OwnerInv, NextOwner, OneHand, Delivering
  <2>6. NextOwner'
    BY <2>1, <2>4, <2>5 DEF OwnerInv, NextOwner, Distinct
  <2>7. Allocated'
    BY <1>0, <2>1, <2>2, <2>3 DEF OwnerInv, Allocated, InQueue, Reading
  <2> QED
    BY <2>6, <2>7 DEF OwnerInv
<1> QED
  BY <1>1, <1>2, <1>3, <1>4, <1>5 DEF epoll_proc

LEMMA OwnerInit == Init => OwnerInv
<1> SUFFICES ASSUME Init PROVE OwnerInv
  OBVIOUS
<1>1. /\ ourl_queue = <<>> /\ epfd = {} /\ Started = {} /\ InHand = {}
      /\ \A a \in Attachers : pc[a] \notin Delivering
  BY DEF Init, Started, InHand, Delivering
<1>2. Distinct(surl_queue)
  BY DEF Init, Distinct
<1>3. NextOwner
  BY <1>1, <1>2 DEF NextOwner, Distinct, OnePlace, OneHand, InQueue
<1>4. Allocated
  BY <1>1 DEF Init, Allocated, InQueue, Reading
<1> QED
  BY <1>3, <1>4 DEF OwnerInv

LEMMA OwnerStep == TypeInv /\ OwnerInv /\ [Next]_vars => TypeInv' /\ OwnerInv'
<1> SUFFICES ASSUME TypeInv, OwnerInv, [Next]_vars
             PROVE  TypeInv' /\ OwnerInv'
  OBVIOUS
<1>1. CASE UNCHANGED vars
  <2>1. TypeInv'
    BY <1>1 DEF TypeInv, TypeOK, HandFull, TodoPositive, vars, conf, surlVars,
                ourlVars, jobVars, pollVars
  <2>2. Quiet
    BY <1>1 DEF Quiet, vars, surlVars, ourlVars, pollVars
  <2> QED
    BY <2>1, <2>2, OwnerQuiet
<1>2. CASE Next
  BY <1>1, <1>2, TypeParser, TypeRecv, TypeEnd, TypeMain,
     OwnerParser, OwnerRecv, OwnerEnd, OwnerMain
     DEF Next, Stopped, OwnerInv
<1> QED
  BY <1>1, <1>2

(* TypeOK, in every behaviour.                                             *)
THEOREM TypeCorrect == Spec => []TypeOK
<1>1. TypeInv => TypeOK
  BY DEF TypeInv
<1> QED
  BY TypeInit, OwnerInit, OwnerStep, <1>1, PTL DEF Spec

(* No task has two owners: no thread works on a Surl or Url another thread *)
(* or a queue also has, for any number of tasks and any faults.            *)
THEOREM Ownership == Spec => []OneOwner
<1>1. OwnerInv => OneOwner
  BY DEF OwnerInv, NextOwner, OnePlace, OneHand, OneOwner, Owners, InHand, Started,
         Distinct, Reading
<1> QED
  BY TypeInit, OwnerInit, OwnerStep, <1>1, PTL DEF Spec

(* Whoever has work to do on a task finds it allocated.                    *)
THEOREM NoneFreed == Spec => []NoUseAfterFree
<1>1. OwnerInv => NoUseAfterFree
  BY DEF OwnerInv, Allocated, NoUseAfterFree, Owners, InHand
<1> QED
  BY TypeInit, OwnerInit, OwnerStep, <1>1, PTL DEF Spec

(* gctn_lock is held by the one thread between its lock and its unlock.    *)
LockInv == \A t \in Urls : pc[t] \in Locked <=> gctn_lock = t

(* What the urlparser can do between end_thread's decrement and its use of *)
(* the result: finish the one call it was committed to, or commit to one   *)
(* when it reads 0.                                                        *)
LeftInv ==
  \A t \in Urls : pc[t] = "left" =>
    /\ reg[t] <= g_cur_thread_num
    /\ \/ g_cur_thread_num + todo[Parser] <= reg[t] + 1
       \/ g_cur_thread_num + todo[Parser] <= 1

JobInv == LockInv /\ (rmw = "atomic" => LeftInv) /\ JobsBounded

(* A step that leaves the counter, the lock and the calls alone.           *)
NoJobStep ==
  /\ UNCHANGED <<max_job_num, rmw, g_cur_thread_num, gctn_lock, reg, todo>>
  /\ \A t \in Urls : /\ pc'[t] \in Locked <=> pc[t] \in Locked
                     /\ pc'[t] = "left" => pc[t] = "left"

LEMMA JobQuiet ==
  ASSUME JobInv, NoJobStep
  PROVE  JobInv'
BY DEF JobInv, NoJobStep, LockInv, LeftInv, JobsBounded, Pending, JobCap

(* attach_epoll_task returns, having counted its job or not.               *)
LEMMA JobReturn ==
  ASSUME TypeInv, JobInv, NEW a \in Attachers, pc[a] \in AttachLabels, Return(a),
         UNCHANGED <<max_job_num, rmw, gctn_lock, reg>>,
         g_cur_thread_num' \in {g_cur_thread_num, g_cur_thread_num + 1}
  PROVE  JobInv'
<1>1. /\ pc \in [Actors -> MainLabels \cup ParserLabels \cup ThreadLabels]
      /\ g_cur_thread_num \in Int /\ reg \in [Attachers -> Int]
      /\ todo \in [Attachers -> 0..2] /\ max_job_num \in Nat \ {0}
      /\ gctn_lock \in Urls \cup {None}
  BY DEF TypeInv, TypeOK
<1>2. /\ todo' = [todo EXCEPT ![a] = todo[a] - 1] /\ todo[a] \in 1..2
      /\ pc' = [pc EXCEPT ![a] = AfterAttach(a)]
      /\ a # Parser => AfterAttach(a) \in {"empty", "unlock"}
  BY <1>1 DEF Return, Goto, AfterAttach, TypeInv, TodoPositive
<1>3. \A t \in Urls : pc'[t] \in Locked <=> pc[t] \in Locked
  BY <1>1, <1>2 DEF Locked, AttachLabels
<1>4. LockInv'
  BY <1>3 DEF JobInv, LockInv
<1>5. a = Parser \/ (a \in Urls /\ gctn_lock = a)
  BY DEF JobInv, LockInv, Locked
<1>6. g_cur_thread_num' + Pending' <= g_cur_thread_num + Pending
  BY <1>1, <1>2, <1>5 DEF Pending
<1>7. Pending \in Int /\ Pending' \in Int /\ JobCap \in Int /\ JobCap' = JobCap
  BY <1>1, <1>2 DEF Pending, JobCap
<1>8. JobsBounded'
  <2>1. rmw' = rmw /\ g_cur_thread_num' \in Int
    BY <1>1
  <2>2. rmw = "atomic" => g_cur_thread_num + Pending <= JobCap
    BY DEF JobInv, JobsBounded
  <2>3. rmw = "atomic" => g_cur_thread_num' + Pending' <= JobCap
    <3> DEFINE g == g_cur_thread_num
               h == g_cur_thread_num'
               p == Pending
               q == Pending'
    <3>1. g \in Int /\ h \in Int /\ p \in Int /\ q \in Int /\ JobCap \in Int
      BY <1>1, <1>7, <2>1
    <3>2. h + q <= g + p
      BY <1>6
    <3> HIDE DEF g, h, p, q
    <3>3. g + p <= JobCap => h + q <= JobCap
      BY <3>1, <3>2
    <3> QED
      BY <2>2, <3>3 DEF g, h, p, q
  <2> QED
    BY <1>7, <2>1, <2>3 DEF JobsBounded
<1>9. ASSUME rmw = "atomic", NEW t \in Urls, pc'[t] = "left"
      PROVE  /\ reg'[t] <= g_cur_thread_num'
             /\ \/ g_cur_thread_num' + todo'[Parser] <= reg'[t] + 1
                \/ g_cur_thread_num' + todo'[Parser] <= 1
  <2>1. a = Parser /\ pc[t] = "left"
    BY <1>1, <1>2, <1>5, <1>9 DEF JobInv, LockInv, Locked
  <2> QED
    BY <1>1, <1>2, <1>9, <2>1 DEF JobInv, LeftInv
<1> QED
  BY <1>4, <1>8, <1>9 DEF JobInv, LeftInv

LEMMA JobAttach ==
  ASSUME TypeInv, JobInv, NEW a \in Attachers, attach_epoll_task(a)
  PROVE  JobInv'
<1> USE DEF At, Running, Goto, conf, surlVars, ourlVars, jobVars, pollVars
<1>0. pc \in [Actors -> MainLabels \cup ParserLabels \cup ThreadLabels]
      /\ g_cur_thread_num \in Int
  BY DEF TypeInv, TypeOK
<1>1. CASE PopTest(a)
  <2>1. CASE Return(a)
    BY <1>0, <1>1, <2>1, JobReturn DEF PopTest, AttachLabels
  <2>2. CASE Goto(a, "pop") /\ UNCHANGED <<todo, hand>>
    <3>1. NoJobStep
      BY <1>0, <1>1, <2>2 DEF PopTest, NoJobStep, Locked, AttachLabels
    <3> QED
      BY <3>1, JobQuiet
  <2> QED
    BY <1>1, <2>1, <2>2 DEF PopTest
<1>2. CASE PopElement(a)
  <2>1. NoJobStep
    BY <1>0, <1>2 DEF PopElement, NoJobStep, Locked, AttachLabels
  <2> QED
    BY <2>1, JobQuiet
<1>4. CASE PopBroken(a)
  <2>1. NoJobStep
    BY <1>0, <1>4 DEF PopBroken, NoJobStep, Locked, AttachLabels
  <2> QED
    BY <2>1, JobQuiet
<1>5. CASE Register(a)
  <2>1. NoJobStep
    BY <1>0, <1>5 DEF Register, NoJobStep, Locked, AttachLabels
  <2> QED
    BY <2>1, JobQuiet
<1>8. CASE LogAttach(a)
  <2>1. NoJobStep
    BY <1>0, <1>8 DEF LogAttach, NoJobStep, Locked, AttachLabels
  <2> QED
    BY <2>1, JobQuiet
<1>3. CASE PopHead(a)
  BY <1>0, <1>3, JobReturn DEF PopHead, AttachLabels
<1>6. CASE ConnectFails(a)
  BY <1>0, <1>6, JobReturn DEF ConnectFails, AttachLabels
<1>7. CASE RegisterFails(a)
  BY <1>0, <1>7, JobReturn DEF RegisterFails, AttachLabels
<1>9. CASE IncAtomic(a)
  BY <1>0, <1>9, JobReturn DEF IncAtomic, AttachLabels
<1>10. CASE IncLoad(a) \/ IncStore(a)
  <2>1. rmw = "split" /\ rmw' = rmw /\ gctn_lock' = gctn_lock
    BY <1>10 DEF IncLoad, IncStore
  <2>2. \A t \in Urls : pc'[t] \in Locked <=> pc[t] \in Locked
    BY <1>0, <1>10 DEF IncLoad, IncStore, Return, AfterAttach, Locked, AttachLabels
  <2> QED
    BY <2>1, <2>2 DEF JobInv, LockInv, JobsBounded
<1> QED
  BY <1>1, <1>2, <1>3, <1>4, <1>5, <1>6, <1>7, <1>8, <1>9, <1>10
     DEF attach_epoll_task

LEMMA JobParser ==
  ASSUME TypeInv, JobInv, urlparser \/ SpuriousWakeup
  PROVE  JobInv'
<1> USE DEF At, Running, Goto, conf, surlVars, ourlVars, jobVars, pollVars
<1>0. pc \in [Actors -> MainLabels \cup ParserLabels \cup ThreadLabels]
  BY DEF TypeInv, TypeOK
<1>1. CASE TestSurlSize
  <2>1. NoJobStep
    BY <1>0, <1>1 DEF TestSurlSize, NoJobStep, Locked, AttachLabels
  <2> QED
    BY <2>1, JobQuiet
<1>2. CASE CondWait
  <2>1. NoJobStep
    BY <1>0, <1>2 DEF CondWait, NoJobStep, Locked, AttachLabels
  <2> QED
    BY <2>1, JobQuiet
<1>3. CASE SpuriousWakeup
  <2>1. NoJobStep
    BY <1>0, <1>3 DEF SpuriousWakeup, NoJobStep, Locked, AttachLabels
  <2> QED
    BY <2>1, JobQuiet
<1>4. CASE LockSurl
  <2>1. NoJobStep
    BY <1>0, <1>4 DEF LockSurl, NoJobStep, Locked, AttachLabels
  <2> QED
    BY <2>1, JobQuiet
<1>5. CASE TakeSurl
  <2>1. NoJobStep
    BY <1>0, <1>5 DEF TakeSurl, NoJobStep, Locked, AttachLabels
  <2> QED
    BY <2>1, JobQuiet
<1>6. CASE UnlockSurl
  <2>1. NoJobStep
    BY <1>0, <1>6 DEF UnlockSurl, NoJobStep, Locked, AttachLabels
  <2> QED
    BY <2>1, JobQuiet
<1>7. CASE Resolve
  <2>1. NoJobStep
    BY <1>0, <1>7 DEF Resolve, NoJobStep, Locked, AttachLabels
  <2> QED
    BY <2>1, JobQuiet
<1>8. CASE ResolveFails
  <2>1. NoJobStep
    BY <1>0, <1>8 DEF ResolveFails, NoJobStep, Locked, AttachLabels
  <2> QED
    BY <2>1, JobQuiet
<1>9. CASE PushOurl
  <2>1. NoJobStep
    BY <1>0, <1>9 DEF PushOurl, NoJobStep, Locked, AttachLabels
  <2> QED
    BY <2>1, JobQuiet
<1>10. CASE TestJobs
  <2>1. CASE g_cur_thread_num # 0
    <3>1. NoJobStep
      BY <1>0, <1>10, <2>1 DEF TestJobs, NoJobStep
    <3> QED
      BY <3>1, JobQuiet
  <2>2. CASE g_cur_thread_num = 0
    <3>1. /\ todo' = [todo EXCEPT ![Parser] = 1] /\ todo[Parser] = 0
          /\ UNCHANGED <<max_job_num, rmw, g_cur_thread_num, gctn_lock, reg>>
          /\ \A t \in Urls : pc'[t] = pc[t]
          /\ todo \in [Attachers -> 0..2] /\ gctn_lock \in Urls \cup {None}
          /\ max_job_num \in Nat \ {0}
      BY <1>0, <1>10, <2>2
         DEF TestJobs, TypeInv, TypeOK, TodoPositive, AttachLabels
    <3>2. Pending' <= 3
      BY <3>1 DEF Pending
    <3>3. JobsBounded'
      BY <2>2, <3>1, <3>2 DEF JobsBounded, JobCap, Pending
    <3>4. rmw = "atomic" => LeftInv'
      BY <2>2, <3>1 DEF JobInv, LeftInv
    <3> QED
      BY <3>1, <3>3, <3>4 DEF JobInv, LockInv
  <2> QED
    BY <2>1, <2>2
<1>11. CASE attach_epoll_task(Parser)
  BY <1>11, JobAttach
<1> QED
  BY <1>1, <1>2, <1>3, <1>4, <1>5, <1>6, <1>7, <1>8, <1>9, <1>10, <1>11
     DEF urlparser

LEMMA JobRecv ==
  ASSUME TypeInv, JobInv, NEW t \in Urls, recv_response(t)
  PROVE  JobInv'
<1> USE DEF At, Running, Goto, conf, surlVars, ourlVars, jobVars, pollVars
<1>0. pc \in [Actors -> MainLabels \cup ParserLabels \cup ThreadLabels]
  BY DEF TypeInv, TypeOK
<1>1. CASE RecvPage(t)
  <2>1. NoJobStep
    BY <1>0, <1>1 DEF RecvPage, NoJobStep, Locked, AttachLabels
  <2> QED
    BY <2>1, JobQuiet
<1>2. CASE RecvRejected(t)
  <2>1. NoJobStep
    BY <1>0, <1>2 DEF RecvRejected, NoJobStep, Locked, AttachLabels
  <2> QED
    BY <2>1, JobQuiet
<1>3. CASE RecvNoHeader(t)
  <2>1. NoJobStep
    BY <1>0, <1>3 DEF RecvNoHeader, NoJobStep, Locked, AttachLabels
  <2> QED
    BY <2>1, JobQuiet
<1>4. CASE ExtractLink(t)
  <2>1. NoJobStep
    BY <1>0, <1>4 DEF ExtractLink, NoJobStep, Locked, AttachLabels
  <2> QED
    BY <2>1, JobQuiet
<1>5. CASE TestSignal(t)
  <2>1. NoJobStep
    BY <1>0, <1>5 DEF TestSignal, NoJobStep, Locked, AttachLabels
  <2> QED
    BY <2>1, JobQuiet
<1>6. CASE Signal(t)
  <2>1. NoJobStep
    BY <1>0, <1>6 DEF Signal, NoJobStep, Locked, AttachLabels
  <2> QED
    BY <2>1, JobQuiet
<1>7. CASE ExtractDone(t)
  <2>1. NoJobStep
    BY <1>0, <1>7 DEF ExtractDone, NoJobStep, Locked, AttachLabels
  <2> QED
    BY <2>1, JobQuiet
<1>8. CASE FreeUrl(t)
  <2>1. NoJobStep
    BY <1>0, <1>8 DEF FreeUrl, NoJobStep, Locked, AttachLabels
  <2> QED
    BY <2>1, JobQuiet
<1> QED
  BY <1>1, <1>2, <1>3, <1>4, <1>5, <1>6, <1>7, <1>8 DEF recv_response

LEMMA JobEnd ==
  ASSUME TypeInv, JobInv, NEW t \in Urls, end_thread(t)
  PROVE  JobInv'
<1> USE DEF At, Running, Goto, conf, surlVars, ourlVars, jobVars, pollVars
<1>0. /\ pc \in [Actors -> MainLabels \cup ParserLabels \cup ThreadLabels]
      /\ g_cur_thread_num \in Int /\ reg \in [Attachers -> Int]
      /\ todo \in [Attachers -> 0..2] /\ max_job_num \in Nat \ {0}
      /\ gctn_lock \in Urls \cup {None} /\ todo[Parser] \in 0..1
      /\ \A u \in Urls : pc[u] \notin AttachLabels => todo[u] = 0
  <2>1. todo \in [Attachers -> 0..2]
    BY DEF TypeInv, TypeOK
  <2>2. todo[Parser] \in 0..1
    BY <2>1 DEF TypeInv, TodoPositive
  <2>3. \A u \in Urls : pc[u] \notin AttachLabels => todo[u] = 0
    BY <2>1 DEF TypeInv, TodoPositive
  <2> QED
    BY <2>1, <2>2, <2>3 DEF TypeInv, TypeOK
<1>1. CASE LockJobs(t)
  <2>1. /\ pc[t] = "lockjobs" /\ gctn_lock = None /\ gctn_lock' = t
        /\ pc' = [pc EXCEPT ![t] = "dec"]
        /\ UNCHANGED <<max_job_num, rmw, g_cur_thread_num, reg, todo>>
    BY <1>1 DEF LockJobs
  <2>2. LockInv'
    BY <1>0, <2>1 DEF JobInv, LockInv, Locked
  <2>3. Pending' = Pending
    BY <1>0, <2>1 DEF Pending, AttachLabels
  <2>4. rmw = "atomic" => LeftInv'
    BY <1>0, <2>1 DEF JobInv, LeftInv
  <2> QED
    BY <2>1, <2>2, <2>3, <2>4 DEF JobInv, JobsBounded, JobCap
<1>2. CASE DecAtomic(t)
  <2>1. /\ pc[t] = "dec" /\ g_cur_thread_num' = g_cur_thread_num - 1
        /\ reg' = [reg EXCEPT ![t] = g_cur_thread_num - 1]
        /\ pc' = [pc EXCEPT ![t] = "left"]
        /\ UNCHANGED <<max_job_num, rmw, gctn_lock, todo>>
    BY <1>2 DEF DecAtomic
  <2>2. LockInv' /\ gctn_lock = t
    BY <1>0, <2>1 DEF JobInv, LockInv, Locked
  <2>3. Pending' = Pending /\ Pending \in Int /\ JobCap' = JobCap /\ JobCap \in Int
    BY <1>0, <2>1 DEF Pending, JobCap
  <2>4. JobsBounded'
    BY <1>0, <2>1, <2>3 DEF JobInv, JobsBounded
  <2>5. \A u \in Urls : pc'[u] = "left" => u = t
    BY <1>0, <2>1, <2>2 DEF LockInv, Locked
  <2>6. LeftInv'
    BY <1>0, <2>1, <2>5 DEF LeftInv
  <2> QED
    BY <2>2, <2>4, <2>6 DEF JobInv
<1>3. CASE DecLoad(t) \/ DecStore(t)
  <2>1. rmw = "split" /\ rmw' = rmw /\ gctn_lock' = gctn_lock
    BY <1>3 DEF DecLoad, DecStore
  <2>2. \A u \in Urls : pc'[u] \in Locked <=> pc[u] \in Locked
    BY <1>0, <1>3 DEF DecLoad, DecStore, Locked
  <2> QED
    BY <2>1, <2>2 DEF JobInv, LockInv, JobsBounded
<1>5. CASE Left(t)
  <2>1. PICK n \in {reg[t], g_cur_thread_num} :
          /\ todo' = [todo EXCEPT ![t] = Starts(max_job_num - n)]
          /\ Goto(t, IF Starts(max_job_num - n) = 0 THEN "unlock" ELSE "empty")
    BY <1>5 DEF Left
  <2>2. /\ pc[t] = "left" /\ reg' = [reg EXCEPT ![t] = 0]
        /\ UNCHANGED <<max_job_num, rmw, g_cur_thread_num, gctn_lock>>
    BY <1>5 DEF Left
  <2>3. pc'[t] \in {"unlock", "empty"} /\ \A u \in Urls \ {t} : pc'[u] = pc[u]
    BY <1>0, <2>1
  <2>4. LockInv' /\ gctn_lock = t
    BY <1>0, <2>2, <2>3 DEF JobInv, LockInv, Locked, AttachLabels
  <2>5. rmw = "atomic" => LeftInv'
    BY <1>0, <2>2, <2>3, <2>4 DEF LeftInv, LockInv, Locked
  <2>6. Pending' = todo[Parser] + Starts(max_job_num - n) /\ JobCap' = JobCap
    BY <1>0, <2>1, <2>2, <2>4 DEF Pending, JobCap, Starts
  <2>7. ASSUME rmw = "atomic"
        PROVE  g_cur_thread_num + todo[Parser] + Starts(max_job_num - n) <= JobCap
    <3>1. /\ reg[t] <= g_cur_thread_num
          /\ \/ g_cur_thread_num + todo[Parser] <= reg[t] + 1
             \/ g_cur_thread_num + todo[Parser] <= 1
      BY <2>2, <2>7 DEF JobInv, LeftInv
    <3>2. todo[t] = 0 /\ g_cur_thread_num + todo[Parser] <= JobCap
      BY <1>0, <2>2, <2>4, <2>7 DEF JobInv, JobsBounded, Pending, AttachLabels
    <3>3. n \in Int /\ reg[t] <= n
      BY <1>0, <3>1
    <3> QED
      BY <1>0, <3>1, <3>2, <3>3 DEF Starts, JobCap
  <2>8. JobsBounded'
    BY <1>0, <2>2, <2>6, <2>7 DEF JobsBounded, Starts
  <2> QED
    BY <2>2, <2>4, <2>5, <2>8 DEF JobInv
<1>6. CASE UnlockJobs(t)
  <2>1. /\ pc[t] = "unlock" /\ gctn_lock' = None
        /\ pc' = [pc EXCEPT ![t] = "exit"]
        /\ UNCHANGED <<max_job_num, rmw, g_cur_thread_num, reg, todo>>
    BY <1>6 DEF UnlockJobs
  <2>2. LockInv' /\ gctn_lock = t
    BY <1>0, <2>1 DEF JobInv, LockInv, Locked, AttachLabels
  <2>3. Pending' = Pending
    BY <1>0, <2>1, <2>2 DEF Pending, AttachLabels
  <2>4. rmw = "atomic" => LeftInv'
    BY <1>0, <2>1 DEF JobInv, LeftInv
  <2> QED
    BY <2>1, <2>2, <2>3, <2>4 DEF JobInv, JobsBounded, JobCap
<1>7. CASE attach_epoll_task(t)
  BY <1>7, JobAttach
<1> QED
  BY <1>1, <1>2, <1>3, <1>5, <1>6, <1>7 DEF end_thread

LEMMA JobMain ==
  ASSUME TypeInv, OwnerInv, JobInv, epoll_proc
  PROVE  JobInv'
<1> USE DEF At, Running, Goto, conf, surlVars, ourlVars, jobVars, pollVars
<1>0. pc \in [Actors -> MainLabels \cup ParserLabels \cup ThreadLabels] /\ epfd \subseteq Urls
  BY DEF TypeInv, TypeOK
<1>1. CASE SeedWait
  <2>1. NoJobStep
    BY <1>0, <1>1 DEF SeedWait, NoJobStep, Locked, AttachLabels
  <2> QED
    BY <2>1, JobQuiet
<1>2. CASE Timeout
  <2>1. NoJobStep
    BY <1>0, <1>2 DEF Timeout, NoJobStep, Locked, AttachLabels
  <2> QED
    BY <2>1, JobQuiet
<1>3. CASE QuietTest
  <2>1. NoJobStep
    BY <1>0, <1>3 DEF QuietTest, NoJobs, OurlEmpty, SurlEmpty, Check, Sleep, NoJobStep, Locked, AttachLabels
  <2> QED
    BY <2>1, JobQuiet
<1>4. CASE \E t \in Urls : DropTask(t)
  <2>1. NoJobStep
    BY <1>0, <1>4 DEF DropTask, NoJobStep
  <2> QED
    BY <2>1, JobQuiet
<1>5. ASSUME NEW t \in Urls, Dispatch(t)
      PROVE  JobInv'
  <2>1. pc[t] = "idle"
    BY <1>5 DEF Dispatch, OwnerInv, NextOwner, OnePlace, Started
  <2>2. NoJobStep
    BY <1>0, <1>5, <2>1 DEF Dispatch, NoJobStep, Locked, AttachLabels
  <2> QED
    BY <2>2, JobQuiet
<1> QED
  BY <1>1, <1>2, <1>3, <1>4, <1>5 DEF epoll_proc

LEMMA JobInit == Init => JobInv
  BY DEF Init, JobInv, LockInv, LeftInv, JobsBounded, Pending, JobCap, Locked,
         AttachLabels

LEMMA JobStep == TypeInv /\ OwnerInv /\ JobInv /\ [Next]_vars => JobInv'
<1> SUFFICES ASSUME TypeInv, OwnerInv, JobInv, [Next]_vars
             PROVE  JobInv'
  OBVIOUS
<1>1. CASE UNCHANGED vars
  <2>1. NoJobStep
    BY <1>1 DEF NoJobStep, vars, conf, jobVars
  <2> QED
    BY <2>1, JobQuiet
<1>2. CASE Next
  BY <1>1, <1>2, JobParser, JobRecv, JobEnd, JobMain DEF Next, Stopped
<1> QED
  BY <1>1, <1>2

(* For every max_job_num, every crawl and every fault: as long as ++ and   *)
(* -- do not overlap, the counter with the calls under way stays within    *)
(* JobCap.                                                                 *)
THEOREM Bounded == Spec => []JobsBounded
<1>1. JobInv => JobsBounded
  BY DEF JobInv
<1> QED
  BY TypeInit, OwnerInit, OwnerStep, JobInit, JobStep, <1>1, PTL DEF Spec

-----------------------------------------------------------------------------
(* Theorems about Crawler that count: the jobs, and those that g_cur_thread_num *)
(* stands for.  Most steps leave everything counted alone (Calm); the rest *)
(* (Restless) are dealt with one by one, for each invariant.               *)
Counting == {"log", "inc", "incstore"}
Starting == {"jobs", "empty", "pop", "connect"}

(* A task that main gave up is nowhere any more, and cannot come back: main *)
(* never gives it up twice.                                                *)
Gone ==
  \A u \in dropped :
    /\ u \notin InQueue(surl_queue) /\ u \notin InQueue(ourl_queue)
    /\ u \notin InHand /\ u \notin epfd /\ u \notin Started
    /\ heap[u] # "none"

CountInv ==
  rmw = "atomic" =>
    /\ IsFiniteSet(Tasks) /\ IsFiniteSet(dropped) /\ IsFiniteSet(Uncounted)
    /\ CounterKept

Calm ==
  /\ Quiet
  /\ UNCHANGED <<rmw, g_cur_thread_num, epfd, dropped, list_ok>>
  /\ \A t \in Urls : /\ pc'[t] \in Receiving <=> pc[t] \in Receiving
                     /\ pc'[t] = "left" <=> pc[t] = "left"
                     /\ reg'[t] = reg[t] /\ todo'[t] = todo[t]
  /\ \A a \in Attachers : /\ pc'[a] \in Counting <=> pc[a] \in Counting
                          /\ pc[a] \in Counting => hand'[a] = hand[a]
  /\ pc[Parser] \in Starting => pc'[Parser] \in Starting

RestlessAttach(a) ==
  \/ PopTest(a) \/ PopElement(a) \/ PopHead(a)
  \/ Register(a) \/ ConnectFails(a) \/ RegisterFails(a)
  \/ IncAtomic(a) \/ IncLoad(a) \/ IncStore(a)

RestlessThread(t) ==
  \/ ExtractLink(t) \/ FreeUrl(t)
  \/ DecAtomic(t) \/ DecLoad(t) \/ DecStore(t) \/ Left(t)
  \/ Dispatch(t) \/ DropTask(t)

Restless ==
  \/ \E a \in Attachers : RestlessAttach(a)
  \/ TakeSurl \/ PushOurl \/ TestJobs
  \/ \E t \in Urls : RestlessThread(t)

USE CrawlerAssumption DEF Attachers, Actors

LEMMA CalmOrNot ==
  ASSUME TypeInv, Next
  PROVE  Calm \/ Restless
<1> USE DEF Calm, Quiet, Delivering, Reading, Receiving, Counting, Starting,
      At, Running, Goto, conf, surlVars, ourlVars, jobVars, pollVars
<1>0. /\ pc \in [Actors -> MainLabels \cup ParserLabels \cup ThreadLabels]
      /\ hand \in [Attachers -> Urls \cup {None}]
  BY DEF TypeInv, TypeOK
<1>1. ASSUME NEW a \in Attachers, attach_epoll_task(a)
      PROVE  Calm \/ Restless
  <2>1. CASE PopBroken(a)
    BY <1>0, <2>1 DEF PopBroken
  <2>2. CASE LogAttach(a)
    BY <1>0, <2>2 DEF LogAttach
  <2> QED
    BY <1>1, <2>1, <2>2 DEF attach_epoll_task, Restless, RestlessAttach
<1>2. ASSUME urlparser \/ SpuriousWakeup
      PROVE  Calm \/ Restless
  <2>1. CASE TestSurlSize
    BY <1>0, <2>1 DEF TestSurlSize
  <2>2. CASE CondWait
    BY <1>0, <2>2 DEF CondWait
  <2>3. CASE SpuriousWakeup
    BY <1>0, <2>3 DEF SpuriousWakeup
  <2>4. CASE LockSurl
    BY <1>0, <2>4 DEF LockSurl
  <2>5. CASE UnlockSurl
    BY <1>0, <2>5 DEF UnlockSurl
  <2>6. CASE Resolve
    BY <1>0, <2>6 DEF Resolve
  <2>7. CASE ResolveFails
    BY <1>0, <2>7 DEF ResolveFails
  <2> QED
    BY <1>1, <1>2, <2>1, <2>2, <2>3, <2>4, <2>5, <2>6, <2>7 DEF urlparser, Restless
<1>3. ASSUME NEW t \in Urls, recv_response(t)
      PROVE  Calm \/ Restless
  <2>1. CASE RecvPage(t)
    BY <1>0, <2>1 DEF RecvPage
  <2>2. CASE RecvRejected(t)
    BY <1>0, <2>2 DEF RecvRejected
  <2>3. CASE RecvNoHeader(t)
    BY <1>0, <2>3 DEF RecvNoHeader
  <2>4. CASE TestSignal(t)
    BY <1>0, <2>4 DEF TestSignal
  <2>5. CASE Signal(t)
    BY <1>0, <2>5 DEF Signal
  <2>6. CASE ExtractDone(t)
    BY <1>0, <2>6 DEF ExtractDone
  <2> QED
    BY <1>3, <2>1, <2>2, <2>3, <2>4, <2>5, <2>6
       DEF recv_response, Restless, RestlessThread
<1>4. ASSUME NEW t \in Urls, end_thread(t)
      PROVE  Calm \/ Restless
  <2>1. CASE LockJobs(t)
    BY <1>0, <2>1 DEF LockJobs
  <2>2. CASE UnlockJobs(t)
    BY <1>0, <2>2 DEF UnlockJobs
  <2> QED
    BY <1>1, <1>4, <2>1, <2>2 DEF end_thread, Restless, RestlessThread
<1>5. ASSUME epoll_proc
      PROVE  Calm \/ Restless
  <2>1. CASE SeedWait
    BY <1>0, <2>1 DEF SeedWait
  <2>2. CASE Timeout
    BY <1>0, <2>2 DEF Timeout
  <2>3. CASE QuietTest
    BY <1>0, <2>3 DEF QuietTest, NoJobs, OurlEmpty, SurlEmpty, Check, Sleep
  <2> QED
    BY <1>5, <2>1, <2>2, <2>3 DEF epoll_proc, Restless, RestlessThread
<1>6. CASE Stopped
  BY <1>6 DEF Stopped, vars
<1> QED
  BY <1>2, <1>3, <1>4, <1>5, <1>6 DEF Next

-----------------------------------------------------------------------------
(* Nothing comes back: what is somewhere after a step was somewhere before *)
(* it, or had not been allocated.                                          *)

Somewhere ==
  InQueue(surl_queue) \cup InQueue(ourl_queue) \cup InHand \cup epfd \cup Started

Onward ==
  /\ \A u \in Somewhere' : u \in Somewhere \/ (u \in Urls /\ heap[u] = "none")
  /\ \A u \in Urls : heap[u] # "none" => heap'[u] # "none"

LEMMA OnwardQuiet ==
  ASSUME Quiet
  PROVE  Onward
<1>1. InHand' \subseteq InHand /\ Started' = Started /\ epfd' \subseteq epfd
  BY DEF Quiet, InHand, Started
<1> QED
  BY <1>1 DEF Quiet, Onward, Somewhere, InQueue

LEMMA OnwardAttach ==
  ASSUME TypeInv, OwnerInv, NEW a \in Attachers, RestlessAttach(a)
  PROVE  Onward
<1> USE DEF At, Running, Goto, Return, AfterAttach, conf, surlVars, ourlVars,
      jobVars, pollVars
<1>0. /\ pc \in [Actors -> MainLabels \cup ParserLabels \cup ThreadLabels]
      /\ hand \in [Attachers -> Urls \cup {None}]
      /\ ourl_queue \in Seq(Urls)
      /\ heap \in [Urls -> {"none", "live", "freed"}]
  BY DEF TypeInv, TypeOK
<1>1. CASE PopTest(a)
  <2>1. Quiet
    BY <1>0, <1>1 DEF PopTest, Quiet, Delivering, Reading
  <2> QED
    BY <2>1, OnwardQuiet
<1>2. CASE PopHead(a)
  <2>1. Quiet
    BY <1>0, <1>2 DEF PopHead, Quiet, Delivering, Reading
  <2> QED
    BY <2>1, OnwardQuiet
<1>3. CASE ConnectFails(a)
  <2>1. Quiet
    BY <1>0, <1>3 DEF ConnectFails, Quiet, Delivering, Reading
  <2> QED
    BY <2>1, OnwardQuiet
<1>4. CASE IncAtomic(a) \/ IncLoad(a) \/ IncStore(a)
  <2>1. Quiet
    BY <1>0, <1>4 DEF IncAtomic, IncLoad, IncStore, Quiet, Delivering, Reading
  <2> QED
    BY <2>1, OnwardQuiet
<1>5. CASE PopElement(a)
  <2>1. /\ ourl_queue # <<>> /\ hand' = [hand EXCEPT ![a] = Head(ourl_queue)]
        /\ ourl_queue' = Tail(ourl_queue) /\ pc[a] = "pop"
        /\ pc' = [pc EXCEPT ![a] = "connect"]
        /\ UNCHANGED <<surl_queue, epfd, heap>>
    BY <1>5 DEF PopElement
  <2>2. /\ Head(ourl_queue) \in InQueue(ourl_queue)
        /\ InQueue(ourl_queue') = InQueue(ourl_queue) \ {Head(ourl_queue)}
    BY <1>0, <2>1, TailQueue DEF OwnerInv, NextOwner
  <2>3. InHand' = InHand \cup {Head(ourl_queue)} /\ Started' = Started
    BY <1>0, <2>1 DEF InHand, Started, Delivering
  <2> QED
    BY <2>1, <2>2, <2>3 DEF Onward, Somewhere, InQueue
<1>6. CASE Register(a)
  <2>1. /\ epfd' = epfd \cup {hand[a]} /\ hand[a] \in InHand
        /\ pc' \in { [pc EXCEPT ![a] = "log"], [pc EXCEPT ![a] = "inc"] }
        /\ pc[a] = "connect"
        /\ UNCHANGED <<surl_queue, ourl_queue, heap, hand>>
    BY <1>6 DEF Register, InHand, Delivering
  <2>2. InHand' \subseteq InHand /\ Started' = Started
    BY <1>0, <2>1 DEF InHand, Started, Delivering
  <2> QED
    BY <2>1, <2>2 DEF Onward, Somewhere, InQueue
<1>7. CASE RegisterFails(a)
  <2>1. /\ heap' = [heap EXCEPT ![hand[a]] = "freed"]
        /\ pc' = [pc EXCEPT ![a] = AfterAttach(a)] /\ pc[a] = "connect"
        /\ hand' = [hand EXCEPT ![a] = None]
        /\ UNCHANGED <<surl_queue, ourl_queue, epfd>>
    BY <1>7 DEF RegisterFails
  <2>2. InHand' \subseteq InHand /\ Started' = Started
    BY <1>0, <2>1 DEF InHand, Started, Delivering
  <2> QED
    BY <1>0, <2>1, <2>2 DEF Onward, Somewhere, InQueue
<1> QED
  BY <1>1, <1>2, <1>3, <1>4, <1>5, <1>6, <1>7 DEF RestlessAttach

LEMMA OnwardParser ==
  ASSUME TypeInv, OwnerInv, TakeSurl \/ PushOurl \/ TestJobs
  PROVE  Onward
<1> USE DEF At, Running, Goto, conf, surlVars, ourlVars, jobVars, pollVars
<1>0. /\ pc \in [Actors -> MainLabels \cup ParserLabels \cup ThreadLabels]
      /\ hand \in [Attachers -> Urls \cup {None}]
      /\ ourl_queue \in Seq(Urls) /\ surl_queue \in Seq(Urls)
  BY DEF TypeInv, TypeOK
<1>1. CASE TakeSurl
  <2>1. /\ surl_queue # <<>> /\ hand' = [hand EXCEPT ![Parser] = Head(surl_queue)]
        /\ surl_queue' = Tail(surl_queue) /\ pc[Parser] = "scan"
        /\ pc' = [pc EXCEPT ![Parser] = "resolve"]
        /\ UNCHANGED <<ourl_queue, epfd, heap>>
    BY <1>1 DEF TakeSurl
  <2>2. /\ Head(surl_queue) \in InQueue(surl_queue)
        /\ InQueue(surl_queue') = InQueue(surl_queue) \ {Head(surl_queue)}
    BY <1>0, <2>1, TailQueue DEF OwnerInv, NextOwner
  <2>3. InHand' = InHand \cup {Head(surl_queue)} /\ Started' = Started
    BY <1>0, <2>1 DEF InHand, Started, Delivering
  <2> QED
    BY <2>1, <2>2, <2>3 DEF Onward, Somewhere, InQueue
<1>2. CASE PushOurl /\ list_ok
  <2>1. /\ pc[Parser] = "push" /\ hand[Parser] \in InHand /\ hand[Parser] \in Urls
        /\ ourl_queue' = Append(ourl_queue, hand[Parser])
        /\ hand' = [hand EXCEPT ![Parser] = None]
        /\ pc' = [pc EXCEPT ![Parser] = "jobs"]
        /\ UNCHANGED <<surl_queue, epfd, heap>>
    BY <1>2 DEF PushOurl, InHand, Delivering, TypeInv, HandFull, Holding
  <2>2. InQueue(ourl_queue') = InQueue(ourl_queue) \cup {hand[Parser]}
    BY <1>0, <2>1, AppendQueue
  <2>3. InHand' \subseteq InHand /\ Started' = Started
    BY <1>0, <2>1 DEF InHand, Started, Delivering
  <2> QED
    BY <2>1, <2>2, <2>3 DEF Onward, Somewhere, InQueue
<1>3. CASE PushOurl /\ ~list_ok
  <2>1. Quiet
    BY <1>0, <1>3 DEF PushOurl, Quiet
  <2> QED
    BY <2>1, OnwardQuiet
<1>4. CASE TestJobs
  <2>1. Quiet
    BY <1>0, <1>4 DEF TestJobs, Quiet, Delivering, Reading
  <2> QED
    BY <2>1, OnwardQuiet
<1> QED
  BY <1>1, <1>2, <1>3, <1>4

LEMMA OnwardThread ==
  ASSUME TypeInv, OwnerInv, NEW t \in Urls, RestlessThread(t)
  PROVE  Onward
<1> USE DEF At, Running, Goto, conf, surlVars, ourlVars, jobVars, pollVars
<1>0. /\ pc \in [Actors -> MainLabels \cup ParserLabels \cup ThreadLabels]
      /\ hand \in [Attachers -> Urls \cup {None}]
      /\ surl_queue \in Seq(Urls)
      /\ heap \in [Urls -> {"none", "live", "freed"}]
  BY DEF TypeInv, TypeOK
<1>1. CASE ExtractLink(t)
  <2>1. PICK u \in Urls : /\ heap[u] = "none"
                          /\ heap' = [heap EXCEPT ![u] = "live"]
                          /\ surl_queue' = Append(surl_queue, u)
    BY <1>1 DEF ExtractLink
  <2>2. /\ pc[t] = "extract" /\ pc' = [pc EXCEPT ![t] = "test"]
        /\ UNCHANGED <<ourl_queue, epfd, hand>>
    BY <1>1 DEF ExtractLink
  <2>3. InQueue(surl_queue') = InQueue(surl_queue) \cup {u}
    BY <1>0, <2>1, AppendQueue
  <2>4. InHand' = InHand /\ Started' = Started
    BY <1>0, <2>2 DEF InHand, Started, Delivering
  <2> QED
    BY <1>0, <2>1, <2>2, <2>3, <2>4 DEF Onward, Somewhere, InQueue
<1>2. CASE FreeUrl(t)
  <2>1. /\ pc[t] = "free" /\ pc' = [pc EXCEPT ![t] = "lockjobs"]
        /\ heap' = [heap EXCEPT ![t] = "freed"]
        /\ UNCHANGED <<surl_queue, ourl_queue, epfd, hand>>
    BY <1>2 DEF FreeUrl
  <2>2. InHand' = InHand /\ Started' = Started
    BY <1>0, <2>1 DEF InHand, Started, Delivering
  <2> QED
    BY <1>0, <2>1, <2>2 DEF Onward, Somewhere, InQueue
<1>3. CASE DecAtomic(t) \/ DecLoad(t) \/ DecStore(t)
  <2>1. Quiet
    BY <1>0, <1>3 DEF DecAtomic, DecLoad, DecStore, Quiet, Delivering, Reading
  <2> QED
    BY <2>1, OnwardQuiet
<1>4. CASE Left(t)
  <2>1. Quiet
    BY <1>0, <1>4 DEF Left, Quiet, Delivering, Reading
  <2> QED
    BY <2>1, OnwardQuiet
<1>5. CASE Dispatch(t)
  <2>1. /\ t \in epfd /\ epfd' \subseteq epfd /\ pc' = [pc EXCEPT ![t] = "recv"]
        /\ UNCHANGED <<surl_queue, ourl_queue, heap, hand>>
    BY <1>5 DEF Dispatch
  <2>2. pc[t] = "idle" /\ Started' = Started \cup {t}
    BY <1>0, <2>1 DEF Started, OwnerInv, NextOwner, OnePlace
  <2>3. InHand' = InHand
    BY <1>0, <2>1, <2>2 DEF InHand, Delivering
  <2> QED
    BY <2>1, <2>2, <2>3 DEF Onward, Somewhere, InQueue
<1>6. CASE DropTask(t)
  <2>1. Quiet
    BY <1>6 DEF DropTask, Quiet
  <2> QED
    BY <2>1, OnwardQuiet
<1> QED
  BY <1>1, <1>2, <1>3, <1>4, <1>5, <1>6 DEF RestlessThread

LEMMA GoneStep ==
  ASSUME TypeInv, OwnerInv, Gone, Next
  PROVE  Gone'
<1>0. dropped \subseteq Urls /\ epfd \subseteq Urls
  BY DEF TypeInv, TypeOK
<1>1. Onward
  <2>1. CASE Calm
    BY <2>1, OnwardQuiet DEF Calm
  <2> QED
    BY <2>1, CalmOrNot, OnwardAttach, OnwardParser, OnwardThread DEF Restless
<1>2. \A u \in dropped : u \notin Somewhere' /\ heap'[u] # "none"
  BY <1>0, <1>1 DEF Onward, Gone, Somewhere
<1>3. CASE dropped' \subseteq dropped
  BY <1>2, <1>3 DEF Gone, Somewhere
<1>4. ASSUME NEW t \in Urls, DropTask(t)
      PROVE  Gone'
  <2>1. /\ t \in epfd /\ epfd' = epfd \ {t} /\ dropped' = dropped \cup {t}
        /\ UNCHANGED <<pc, hand, heap, surl_queue, ourl_queue>>
    BY <1>4 DEF DropTask, surlVars, ourlVars
  <2>2. Started' = Started /\ InHand' = InHand
    BY <2>1 DEF Started, InHand
  <2>3. t \notin Somewhere' /\ heap'[t] # "none"
    BY <2>1, <2>2 DEF OwnerInv, NextOwner, OnePlace, Allocated, Somewhere, InQueue
  <2> QED
    BY <1>2, <2>1, <2>3 DEF Gone, Somewhere
<1>5. ASSUME Restless, ~ \E t \in Urls : DropTask(t)
      PROVE  dropped' = dropped
  BY <1>5 DEF Restless, RestlessAttach, RestlessThread, PopTest, PopElement, PopHead,
     Register, ConnectFails, RegisterFails, IncAtomic, IncLoad, IncStore,
     TakeSurl, PushOurl, TestJobs, ExtractLink, FreeUrl, DecAtomic, DecLoad, DecStore,
     Left, Dispatch, pollVars
<1> QED
  BY <1>3, <1>4, <1>5, CalmOrNot DEF Calm

-----------------------------------------------------------------------------
(* The counter. *)

LEMMA CountSame ==
  ASSUME CountInv, UNCHANGED <<rmw, g_cur_thread_num, dropped>>,
         Tasks' = Tasks, Uncounted' = Uncounted
  PROVE  CountInv'
BY DEF CountInv, CounterKept

LEMMA CountAttach ==
  ASSUME TypeInv, OwnerInv, CountInv, NEW a \in Attachers, RestlessAttach(a)
  PROVE  CountInv'
<1> USE DEF At, Running, Goto, Return, AfterAttach, conf, surlVars, ourlVars,
      jobVars, pollVars
<1>0. /\ pc \in [Actors -> MainLabels \cup ParserLabels \cup ThreadLabels]
      /\ hand \in [Attachers -> Urls \cup {None}]
      /\ g_cur_thread_num \in Int /\ todo \in [Attachers -> 0..2]
  BY DEF TypeInv, TypeOK
<1>1. CASE PopTest(a) \/ PopElement(a) \/ PopHead(a) \/ ConnectFails(a) \/ RegisterFails(a)
  <2>1. UNCHANGED <<rmw, g_cur_thread_num, dropped, epfd>>
    BY <1>1 DEF PopTest, PopElement, PopHead, ConnectFails, RegisterFails
  <2>2. \E l \in {"scan", "empty", "unlock", "pop", "connect"} : pc' = [pc EXCEPT ![a] = l]
    BY <1>1 DEF PopTest, PopElement, PopHead, ConnectFails, RegisterFails
  <2>3. pc[a] \in {"empty", "pop", "connect"}
    BY <1>1 DEF PopTest, PopElement, PopHead, ConnectFails, RegisterFails
  <2>4. Tasks' = Tasks
    BY <1>0, <2>1, <2>2, <2>3 DEF Tasks, Receiving
  <2>5. Uncounted' = Uncounted
    BY <1>0, <2>2, <2>3 DEF Uncounted
  <2> QED
    BY <2>1, <2>4, <2>5, CountSame
<1>2. CASE Register(a)
  <2>1. /\ pc[a] = "connect" /\ epfd' = epfd \cup {hand[a]}
        /\ \E l \in {"log", "inc"} : pc' = [pc EXCEPT ![a] = l]
        /\ UNCHANGED <<rmw, g_cur_thread_num, dropped>>
    BY <1>2 DEF Register
  <2>2. hand[a] \notin epfd \cup Started
    BY <2>1 DEF OwnerInv, NextOwner, OnePlace, InHand, Delivering
  <2>3. Tasks' = Tasks \cup {hand[a]} /\ hand[a] \notin Tasks
    BY <1>0, <2>1, <2>2 DEF Tasks, Receiving, Started
  <2>4. Uncounted' = Uncounted \cup {a} /\ a \notin Uncounted
    BY <1>0, <2>1 DEF Uncounted
  <2>5. ASSUME rmw = "atomic"
        PROVE  /\ IsFiniteSet(Tasks') /\ Cardinality(Tasks') = Cardinality(Tasks) + 1
               /\ IsFiniteSet(Uncounted')
               /\ Cardinality(Uncounted') = Cardinality(Uncounted) + 1
    BY <2>3, <2>4, <2>5, FS_AddElement DEF CountInv
  <2>6. rmw = "atomic" =>
          Cardinality(Tasks) \in Nat /\ Cardinality(dropped) \in Nat /\ Cardinality(Uncounted) \in Nat
    BY FS_CardinalityType DEF CountInv
  <2> QED
    BY <2>1, <2>5, <2>6 DEF CountInv, CounterKept
<1>3. CASE IncAtomic(a)
  <2>1. /\ pc[a] = "inc" /\ g_cur_thread_num' = g_cur_thread_num + 1
        /\ \E l \in {"scan", "empty", "unlock"} : pc' = [pc EXCEPT ![a] = l]
        /\ UNCHANGED <<rmw, dropped, epfd>>
    BY <1>3 DEF IncAtomic
  <2>2. Tasks' = Tasks
    BY <1>0, <2>1 DEF Tasks, Receiving
  <2>3. Uncounted' = Uncounted \ {a} /\ a \in Uncounted
    BY <1>0, <2>1 DEF Uncounted
  <2>4. ASSUME rmw = "atomic"
        PROVE  /\ IsFiniteSet(Uncounted')
               /\ Cardinality(Uncounted') = Cardinality(Uncounted) - 1
    BY <2>3, <2>4, FS_RemoveElement DEF CountInv
  <2>5. rmw = "atomic" =>
          Cardinality(Tasks) \in Nat /\ Cardinality(dropped) \in Nat /\ Cardinality(Uncounted) \in Nat
    BY FS_CardinalityType DEF CountInv
  <2> QED
    BY <1>0, <2>1, <2>2, <2>4, <2>5 DEF CountInv, CounterKept
<1>4. CASE IncLoad(a) \/ IncStore(a)
  BY <1>4 DEF IncLoad, IncStore, CountInv
<1> QED
  BY <1>1, <1>2, <1>3, <1>4 DEF RestlessAttach

LEMMA CountThread ==
  ASSUME TypeInv, OwnerInv, Gone, CountInv, NEW t \in Urls, RestlessThread(t)
  PROVE  CountInv'
<1> USE DEF At, Running, Goto, conf, surlVars, ourlVars, jobVars, pollVars
<1>0. /\ pc \in [Actors -> MainLabels \cup ParserLabels \cup ThreadLabels]
      /\ g_cur_thread_num \in Int
  BY DEF TypeInv, TypeOK
<1>9. rmw = "atomic" =>
        /\ Cardinality(Tasks) \in Nat /\ Cardinality(dropped) \in Nat
        /\ Cardinality(Uncounted) \in Nat
  BY FS_CardinalityType DEF CountInv
<1>1. CASE ExtractLink(t) \/ FreeUrl(t) \/ Left(t)
  <2>1. UNCHANGED <<rmw, g_cur_thread_num, dropped, epfd>>
    BY <1>1 DEF ExtractLink, FreeUrl, Left
  <2>2. \/ /\ pc[t] \in {"extract", "free"}
           /\ \E l \in {"test", "lockjobs"} : pc' = [pc EXCEPT ![t] = l]
        \/ /\ pc[t] = "left"
           /\ \E l \in {"unlock", "empty"} : pc' = [pc EXCEPT ![t] = l]
    BY <1>1 DEF ExtractLink, FreeUrl, Left
  <2>3. Tasks' = Tasks
    BY <1>0, <2>1, <2>2 DEF Tasks, Receiving
  <2>4. Uncounted' = Uncounted
    BY <1>0, <2>2 DEF Uncounted
  <2> QED
    BY <2>1, <2>3, <2>4, CountSame
<1>2. CASE DecAtomic(t)
  <2>1. /\ pc[t] = "dec" /\ pc' = [pc EXCEPT ![t] = "left"]
        /\ g_cur_thread_num' = g_cur_thread_num - 1
        /\ UNCHANGED <<rmw, dropped, epfd>>
    BY <1>2 DEF DecAtomic
  <2>2. t \notin epfd
    BY <2>1 DEF OwnerInv, NextOwner, OnePlace, Started
  <2>3. Tasks' = Tasks \ {t} /\ t \in Tasks
    BY <1>0, <2>1, <2>2 DEF Tasks, Receiving
  <2>4. Uncounted' = Uncounted
    BY <1>0, <2>1 DEF Uncounted
  <2>5. ASSUME rmw = "atomic"
        PROVE  IsFiniteSet(Tasks') /\ Cardinality(Tasks') = Cardinality(Tasks) - 1
    BY <2>3, <2>5, FS_RemoveElement DEF CountInv
  <2> QED
    BY <1>0, <1>9, <2>1, <2>4, <2>5 DEF CountInv, CounterKept
<1>3. CASE DecLoad(t) \/ DecStore(t)
  BY <1>3 DEF DecLoad, DecStore, CountInv
<1>4. CASE Dispatch(t)
  <2>1. /\ t \in epfd /\ epfd' = epfd \ {t} /\ pc' = [pc EXCEPT ![t] = "recv"]
        /\ UNCHANGED <<rmw, g_cur_thread_num, dropped>>
    BY <1>4 DEF Dispatch
  <2>2. pc[t] = "idle"
    BY <2>1 DEF OwnerInv, NextOwner, OnePlace, Started
  <2>3. Tasks' = Tasks
    BY <1>0, <2>1 DEF Tasks, Receiving
  <2>4. Uncounted' = Uncounted
    BY <1>0, <2>1, <2>2 DEF Uncounted
  <2> QED
    BY <2>1, <2>3, <2>4, CountSame
<1>5. CASE DropTask(t)
  <2>1. /\ t \in epfd /\ epfd' = epfd \ {t} /\ dropped' = dropped \cup {t}
        /\ UNCHANGED <<rmw, g_cur_thread_num, pc>>
    BY <1>5 DEF DropTask
  <2>2. t \notin dropped /\ t \notin Started
    BY <2>1 DEF Gone, OwnerInv, NextOwner, OnePlace
  <2>3. Tasks' = Tasks \ {t} /\ t \in Tasks /\ Uncounted' = Uncounted
    BY <2>1, <2>2 DEF Tasks, Receiving, Started, Uncounted
  <2>4. ASSUME rmw = "atomic"
        PROVE  IsFiniteSet(Tasks') /\ Cardinality(Tasks') = Cardinality(Tasks) - 1
    BY <2>3, <2>4, FS_RemoveElement DEF CountInv
  <2>5. ASSUME rmw = "atomic"
        PROVE  IsFiniteSet(dropped') /\ Cardinality(dropped') = Cardinality(dropped) + 1
    BY <2>1, <2>2, <2>5, FS_AddElement DEF CountInv
  <2> QED
    BY <1>0, <1>9, <2>1, <2>3, <2>4, <2>5 DEF CountInv, CounterKept
<1> QED
  BY <1>1, <1>2, <1>3, <1>4, <1>5 DEF RestlessThread

LEMMA CountStep ==
  ASSUME TypeInv, OwnerInv, Gone, CountInv, Next
  PROVE  CountInv'
<1>0. pc \in [Actors -> MainLabels \cup ParserLabels \cup ThreadLabels]
  BY DEF TypeInv, TypeOK
<1>1. CASE Calm
  <2>1. Tasks' = Tasks /\ Uncounted' = Uncounted
    BY <1>1 DEF Calm, Counting, Tasks, Uncounted
  <2> QED
    BY <1>1, <2>1, CountSame DEF Calm
<1>2. CASE TakeSurl \/ PushOurl \/ TestJobs
  <2>1. UNCHANGED <<rmw, g_cur_thread_num, dropped, epfd>>
    BY <1>2 DEF TakeSurl, PushOurl, TestJobs, conf, jobVars, pollVars
  <2>2. /\ pc[Parser] \in {"scan", "push", "jobs"}
        /\ \E l \in {"resolve", "jobs", "push", "empty", "scan"} : pc' = [pc EXCEPT ![Parser] = l]
    <3>1. pc[Parser] \in {"scan", "push", "jobs"}
      BY <1>2 DEF TakeSurl, PushOurl, TestJobs, At
    <3>2. pc = [pc EXCEPT ![Parser] = pc[Parser]]
      BY <1>0
    <3> QED
      BY <1>2, <3>1, <3>2 DEF TakeSurl, PushOurl, TestJobs, Goto
  <2>3. Tasks' = Tasks
    BY <1>0, <2>1, <2>2 DEF Tasks, Receiving
  <2>4. Uncounted' = Uncounted
    BY <1>0, <2>2 DEF Uncounted
  <2> QED
    BY <2>1, <2>3, <2>4, CountSame
<1> QED
  BY <1>1, <1>2, CalmOrNot, CountAttach, CountThread DEF Restless

LEMMA CountInit == Init => Gone /\ CountInv
<1> SUFFICES ASSUME Init PROVE Gone /\ CountInv
  OBVIOUS
<1>1. dropped = {} /\ Tasks = {} /\ Uncounted = {} /\ g_cur_thread_num = 0
  BY DEF Init, Tasks, Receiving, Uncounted
<1> QED
  BY <1>1, FS_EmptySet DEF Gone, CountInv, CounterKept

CountsInv == TypeInv /\ OwnerInv /\ JobInv /\ Gone /\ CountInv

LEMMA CountsInit == Init => CountsInv
  BY TypeInit, OwnerInit, JobInit, CountInit DEF CountsInv

LEMMA CountsStep == CountsInv /\ [Next]_vars => CountsInv'
<1> SUFFICES ASSUME CountsInv, [Next]_vars
             PROVE  CountsInv'
  OBVIOUS
<1>1. TypeInv' /\ OwnerInv' /\ JobInv'
  BY OwnerStep, JobStep DEF CountsInv
<1>2. CASE Next
  BY <1>1, <1>2, GoneStep, CountStep DEF CountsInv
<1>3. CASE UNCHANGED vars
  <2>1. UNCHANGED <<rmw, g_cur_thread_num, dropped, epfd, pc, hand, heap, surl_queue, ourl_queue>>
    BY <1>3 DEF vars, conf, surlVars, ourlVars, jobVars, pollVars
  <2>2. Gone'
    BY <2>1 DEF CountsInv, Gone, InHand, Started, InQueue
  <2>3. Tasks' = Tasks /\ Uncounted' = Uncounted
    BY <2>1 DEF Tasks, Uncounted
  <2> QED
    BY <1>1, <2>1, <2>2, <2>3, CountSame DEF CountsInv
<1> QED
  BY <1>2, <1>3

(* While ++ and -- do not overlap, g_cur_thread_num is the number of jobs  *)
(* in flight, with those main's error path closed and without those that   *)
(* attach_epoll_task has still to count: for any tasks, limits and faults. *)
THEOREM Counter == Spec => []CounterExact
<1>1. CountsInv => CounterExact
  BY DEF CountsInv, CountInv, CounterExact
<1> QED
  BY CountsInit, CountsStep, <1>1, PTL DEF Spec

(* Each call that registered its job and has not counted it is among those *)
(* JobsBounded counts: the urlparser's one and that of gctn_lock's holder. *)
LEMMA UncountedPending ==
  ASSUME TypeInv, LockInv
  PROVE  IsFiniteSet(Uncounted) /\ Cardinality(Uncounted) <= Pending
<1>1. /\ todo \in [Attachers -> 0..2] /\ gctn_lock \in Urls \cup {None}
      /\ \A a \in Uncounted : todo[a] > 0
  BY DEF TypeInv, TypeOK, TodoPositive, Uncounted, AttachLabels
<1>2. \A a \in Uncounted : a = Parser \/ a = gctn_lock
  BY DEF LockInv, Locked, AttachLabels, Uncounted
<1>3. Uncounted \subseteq {Parser} \cup {gctn_lock} /\ Uncounted \subseteq Attachers
  BY <1>2 DEF Uncounted
<1>4. /\ IsFiniteSet({}) /\ Cardinality({}) = 0
      /\ \A a : IsFiniteSet({a}) /\ Cardinality({a}) = 1
  BY FS_EmptySet, FS_Singleton
<1>5. IsFiniteSet({Parser} \cup {gctn_lock}) /\ Cardinality({Parser} \cup {gctn_lock}) <= 2
  <2>1. /\ IsFiniteSet({Parser} \cup {gctn_lock})
        /\ Cardinality({Parser} \cup {gctn_lock}) =
             IF gctn_lock \in {Parser} THEN Cardinality({Parser}) ELSE Cardinality({Parser}) + 1
    <3> DEFINE S == {Parser}
    <3>1. IsFiniteSet(S)
      BY <1>4
    <3> HIDE DEF S
    <3>2. /\ IsFiniteSet(S \cup {gctn_lock})
          /\ Cardinality(S \cup {gctn_lock}) =
               IF gctn_lock \in S THEN Cardinality(S) ELSE Cardinality(S) + 1
      BY <3>1, FS_AddElement
    <3> QED
      BY <3>2 DEF S
  <2>2. Cardinality({Parser}) = 1
    BY <1>4
  <2> QED
    BY <2>1, <2>2
<1>6. IsFiniteSet(Uncounted) /\ Cardinality(Uncounted) \in Nat
      /\ Cardinality(Uncounted) <= 2
  BY <1>3, <1>5, FS_Subset, FS_CardinalityType
<1>7. CASE Parser \in Uncounted /\ gctn_lock \in Uncounted
  <2>1. todo[Parser] \in 1..2 /\ todo[gctn_lock] \in 1..2 /\ gctn_lock # None
    BY <1>1, <1>3, <1>7
  <2> QED
    BY <1>6, <2>1 DEF Pending
<1>8. ASSUME NEW a \in {Parser, gctn_lock}, Uncounted = {a}
      PROVE  Cardinality(Uncounted) <= Pending
  <2>1. Cardinality(Uncounted) = 1
    BY <1>4, <1>8
  <2>2. a \in Uncounted /\ a \in Attachers
    BY <1>3, <1>8
  <2>3. todo[a] \in 0..2 /\ todo[a] > 0
    BY <1>1, <2>2
  <2>4. CASE a = Parser
    BY <1>1, <2>1, <2>3, <2>4 DEF Pending
  <2>5. CASE a = gctn_lock /\ a # None
    BY <1>1, <2>1, <2>3, <2>5 DEF Pending
  <2> QED
    BY <2>2, <2>4, <2>5
<1>9. CASE Uncounted = {}
  BY <1>1, <1>4, <1>9 DEF Pending
<1> QED
  BY <1>3, <1>6, <1>7, <1>8, <1>9

(* The number of jobs in flight stays within JobCap, for every max_job_num *)
(* and every crawl: the counter is exact, and JobsBounded allows for those *)
(* that are not counted yet.                                               *)
THEOREM TasksCapped == Spec => []TasksBounded
<1>1. ASSUME CountsInv
      PROVE  TasksBounded
  <2> SUFFICES ASSUME rmw = "atomic"
               PROVE  Cardinality(Tasks) <= JobCap
    BY DEF TasksBounded
  <2>1. /\ g_cur_thread_num = Cardinality(Tasks) + Cardinality(dropped) - Cardinality(Uncounted)
        /\ Cardinality(Tasks) \in Nat /\ Cardinality(dropped) \in Nat
        /\ Cardinality(Uncounted) \in Nat
    BY <1>1, FS_CardinalityType DEF CountsInv, CountInv, CounterKept
  <2>2. Cardinality(Uncounted) <= Pending
    BY <1>1, UncountedPending DEF CountsInv, JobInv
  <2>3. g_cur_thread_num + Pending <= JobCap
    BY <1>1 DEF CountsInv, JobInv, JobsBounded
  <2>4. Pending \in Int /\ JobCap \in Int
    <3>1. /\ todo \in [Attachers -> 0..2] /\ gctn_lock \in Urls \cup {None}
          /\ max_job_num \in Nat
      BY <1>1 DEF CountsInv, TypeInv, TypeOK
    <3> QED
      BY <3>1 DEF Pending, JobCap
  <2> QED
    BY <2>1, <2>2, <2>3, <2>4
<1> QED
  BY CountsInit, CountsStep, <1>1, PTL DEF Spec

-----------------------------------------------------------------------------
(* No queued Url is forgotten, when no fault loses a job. *)

Lossless == Faults \cap {"connect", "register", "hangup", "thread"} = {}

(* While end_thread connects, it keeps gctn_lock, so the job it registered *)
(* cannot end before it is counted; the urlparser's job can.               *)
HandKept == \A t \in Urls : pc[t] \in Counting => hand[t] \in Tasks

(* Who will start a job, without the calls of the urlparser whose job is   *)
(* registered: that job may have ended already.                            *)
Taker ==
  list_ok /\ ourl_queue # <<>> =>
    \/ Tasks # {}
    \/ \E t \in Urls : todo[t] > 0 \/ pc[t] = "left"
    \/ pc[Parser] \in Starting

(* A thread that counted itself out starts at least one more when nobody   *)
(* is left.                                                                *)
LeftLow == \A t \in Urls : pc[t] = "left" => reg[t] <= Cardinality(Tasks)

TakerInv == rmw = "atomic" => dropped = {} /\ HandKept /\ LeftLow /\ Taker

LEMMA TakerSame ==
  ASSUME TakerInv, Tasks' = Tasks,
         UNCHANGED <<rmw, dropped, ourl_queue, list_ok>>,
         \A t \in Urls : /\ pc'[t] = "left" <=> pc[t] = "left"
                         /\ reg'[t] = reg[t] /\ todo'[t] = todo[t]
                         /\ pc'[t] \in Counting => pc[t] \in Counting /\ hand'[t] = hand[t],
         pc[Parser] \in Starting => pc'[Parser] \in Starting
  PROVE  TakerInv'
BY DEF TakerInv, HandKept, LeftLow, Taker

(* What CountsInv says of the counter when nothing was dropped. *)
LEMMA CountsNow ==
  ASSUME CountsInv, rmw = "atomic", dropped = {}
  PROVE  /\ g_cur_thread_num = Cardinality(Tasks) - Cardinality(Uncounted)
         /\ Cardinality(Tasks) \in Nat /\ Cardinality(Uncounted) \in Nat
         /\ Cardinality(Tasks) = 0 <=> Tasks = {}
         /\ Cardinality(Uncounted) = 0 <=> Uncounted = {}
<1>1. /\ IsFiniteSet(Tasks) /\ IsFiniteSet(Uncounted) /\ CounterKept
  BY DEF CountsInv, CountInv
<1>2. Cardinality(Tasks) \in Nat /\ Cardinality(Uncounted) \in Nat
  BY <1>1, FS_CardinalityType
<1>3. /\ Cardinality(Tasks) = 0 <=> Tasks = {}
      /\ Cardinality(Uncounted) = 0 <=> Uncounted = {}
  BY <1>1, FS_EmptySet
<1>4. g_cur_thread_num = Cardinality(Tasks) - Cardinality(Uncounted)
  <2>1. Cardinality(dropped) = 0
    BY FS_EmptySet
  <2> QED
    BY <1>1, <1>2, <2>1 DEF CounterKept
<1> QED
  BY <1>2, <1>3, <1>4

LEMMA TakerAttach ==
  ASSUME Lossless, CountsInv, TakerInv, NEW a \in Attachers, RestlessAttach(a)
  PROVE  TakerInv'
<1> USE DEF At, Running, Goto, Return, conf, surlVars, ourlVars, jobVars, pollVars
<1>0. /\ pc \in [Actors -> MainLabels \cup ParserLabels \cup ThreadLabels]
      /\ hand \in [Attachers -> Urls \cup {None}]
      /\ reg \in [Attachers -> Int] /\ todo \in [Attachers -> 0..2]
      /\ \A b \in Attachers : todo[b] > 0 <=> pc[b] \in AttachLabels
  BY DEF CountsInv, TypeInv, TypeOK, TodoPositive
<1> SUFFICES ASSUME rmw = "atomic", rmw' = rmw
             PROVE  dropped' = {} /\ HandKept' /\ LeftLow' /\ Taker'
  <2>1. rmw' = rmw
    BY DEF RestlessAttach, PopTest, PopElement, PopHead, Register, ConnectFails,
       RegisterFails, IncAtomic, IncLoad, IncStore
  <2> QED
    BY <2>1 DEF TakerInv
<1>a. dropped = {} /\ HandKept /\ LeftLow /\ Taker
  BY DEF TakerInv
<1>1. CASE PopTest(a) \/ PopElement(a) \/ PopHead(a)
  <2>1. /\ pc[a] \in {"empty", "pop"}
        /\ UNCHANGED <<dropped, epfd, reg>>
        /\ \A b \in Attachers \ {a} : hand'[b] = hand[b] /\ todo'[b] = todo[b]
    BY <1>0, <1>1 DEF PopTest, PopElement, PopHead
  <2>2. \E l \in {"scan", "empty", "unlock", "pop", "connect"} : pc' = [pc EXCEPT ![a] = l]
    BY <1>1 DEF PopTest, PopElement, PopHead, AfterAttach
  <2>3. Tasks' = Tasks
    BY <1>0, <2>1, <2>2 DEF Tasks, Receiving
  <2>4. HandKept' /\ LeftLow'
    BY <1>0, <1>a, <2>1, <2>2, <2>3 DEF HandKept, LeftLow, Counting
  <2>5. CASE PopTest(a) /\ ourl_queue' = <<>>
    BY <1>a, <2>1, <2>4, <2>5 DEF Taker
  <2>6. CASE PopHead(a)
    BY <1>a, <2>1, <2>4, <2>6 DEF Taker, PopHead
  <2>7. CASE PopElement(a) \/ (PopTest(a) /\ ourl_queue' # <<>>)
    <3>1. /\ pc'[a] \in {"pop", "connect"}
          /\ todo' = todo
      <4>1. CASE PopElement(a)
        BY <1>0, <4>1 DEF PopElement
      <4>2. CASE PopTest(a) /\ ourl_queue' # <<>>
        BY <1>0, <4>2 DEF PopTest
      <4> QED
        BY <2>7, <4>1, <4>2
    <3>2. a = Parser \/ todo'[a] > 0
      BY <1>0, <2>1, <3>1 DEF AttachLabels
    <3>3. Taker'
      BY <3>1, <3>2 DEF Taker, Starting
    <3> QED
      BY <1>a, <2>1, <2>4, <3>3
  <2> QED
    BY <1>1, <2>5, <2>6, <2>7
<1>2. CASE Register(a)
  <2>1. /\ pc[a] = "connect" /\ epfd' = epfd \cup {hand[a]}
        /\ \E l \in {"log", "inc"} : pc' = [pc EXCEPT ![a] = l]
        /\ UNCHANGED <<dropped, reg, todo, hand>>
    BY <1>2 DEF Register
  <2>2. Tasks' = Tasks \cup {hand[a]}
    BY <1>0, <2>1 DEF Tasks, Receiving
  <2>3. Cardinality(Tasks) \in Nat /\ Cardinality(Tasks') >= Cardinality(Tasks)
    <3>1. IsFiniteSet(Tasks)
      BY DEF CountsInv, CountInv
    <3>2. Cardinality(Tasks) \in Nat
      BY <3>1, FS_CardinalityType
    <3>3. \/ Cardinality(Tasks') = Cardinality(Tasks)
          \/ Cardinality(Tasks') = Cardinality(Tasks) + 1
      BY <2>2, <3>1, FS_AddElement, Zenon
    <3> QED
      BY <3>2, <3>3
  <2>4. HandKept'
    BY <1>0, <1>a, <2>1, <2>2 DEF HandKept, Counting
  <2>5. LeftLow'
    <3> SUFFICES ASSUME NEW t \in Urls, pc'[t] = "left"
                 PROVE  reg'[t] <= Cardinality(Tasks')
      BY DEF LeftLow
    <3>1. pc[t] = "left" /\ reg'[t] = reg[t]
      BY <1>0, <2>1
    <3>2. reg[t] <= Cardinality(Tasks) /\ reg[t] \in Int /\ Cardinality(Tasks') \in Int
      <4>1. IsFiniteSet(Tasks')
        BY <2>2, FS_AddElement DEF CountsInv, CountInv
      <4> QED
        BY <1>0, <1>a, <3>1, <4>1, FS_CardinalityType DEF LeftLow
    <3> QED
      BY <2>3, <3>1, <3>2
  <2>6. Taker'
    BY <2>2 DEF Taker
  <2> QED
    BY <1>a, <2>1, <2>4, <2>5, <2>6
<1>3. CASE ConnectFails(a) \/ RegisterFails(a)
  BY <1>3 DEF ConnectFails, RegisterFails, Lossless
<1>4. CASE IncAtomic(a)
  <2>1. /\ pc[a] = "inc"
        /\ \E l \in {"scan", "empty", "unlock"} : pc' = [pc EXCEPT ![a] = l]
        /\ \A b \in Attachers \ {a} : hand'[b] = hand[b] /\ todo'[b] = todo[b]
        /\ UNCHANGED <<dropped, epfd, reg, ourl_queue, list_ok>>
    BY <1>0, <1>4 DEF IncAtomic, AfterAttach
  <2>2. Tasks' = Tasks
    BY <1>0, <2>1 DEF Tasks, Receiving
  <2>3. HandKept' /\ LeftLow'
    BY <1>0, <1>a, <2>1, <2>2 DEF HandKept, LeftLow, Counting
  <2>4. CASE a \in Urls
    <3>1. Tasks' # {}
      BY <1>a, <2>1, <2>2, <2>4 DEF HandKept, Counting
    <3> QED
      BY <1>a, <2>1, <2>3, <3>1 DEF Taker
  <2>5. CASE a = Parser
    <3>1. \A t \in Urls : pc'[t] = pc[t] /\ todo'[t] = todo[t]
      BY <1>0, <2>1, <2>5
    <3> QED
      BY <1>a, <2>1, <2>2, <2>3, <2>5, <3>1 DEF Taker, Starting
  <2> QED
    BY <2>4, <2>5
<1>5. CASE IncLoad(a) \/ IncStore(a)
  BY <1>5 DEF IncLoad, IncStore
<1> QED
  BY <1>1, <1>2, <1>3, <1>4, <1>5 DEF RestlessAttach

LEMMA TakerParser ==
  ASSUME CountsInv, TakerInv, TakeSurl \/ PushOurl \/ TestJobs
  PROVE  TakerInv'
<1> USE DEF At, Running, Goto, conf, surlVars, ourlVars, jobVars, pollVars
<1>0. /\ pc \in [Actors -> MainLabels \cup ParserLabels \cup ThreadLabels]
      /\ hand \in [Attachers -> Urls \cup {None}]
      /\ reg \in [Attachers -> Int] /\ todo \in [Attachers -> 0..2]
      /\ \A b \in Attachers : todo[b] > 0 <=> pc[b] \in AttachLabels
  BY DEF CountsInv, TypeInv, TypeOK, TodoPositive
<1>1. /\ UNCHANGED <<rmw, dropped, epfd, reg, list_ok>>
      /\ \A t \in Urls : pc'[t] = pc[t] /\ hand'[t] = hand[t] /\ todo'[t] = todo[t]
  BY <1>0 DEF TakeSurl, PushOurl, TestJobs
<1>2. Tasks' = Tasks
  BY <1>1 DEF Tasks
<1>3. CASE TakeSurl
  BY <1>0, <1>1, <1>2, <1>3, TakerSame DEF TakeSurl, Starting
<1>4. CASE PushOurl
  <2>1. ~list_ok' \/ pc'[Parser] = "jobs"
    BY <1>0, <1>4 DEF PushOurl
  <2> QED
    BY <1>1, <1>2, <2>1 DEF TakerInv, HandKept, LeftLow, Taker, Starting
<1>5. CASE TestJobs
  <2>1. CASE g_cur_thread_num = 0
    BY <1>0, <1>1, <1>2, <1>5, <2>1, TakerSame DEF TestJobs, Starting
  <2>2. ASSUME rmw = "atomic", g_cur_thread_num # 0
        PROVE  Tasks # {} \/ \E t \in Urls : todo[t] > 0
    <3>1. Tasks # {} \/ Uncounted # {}
      BY <2>2, CountsNow DEF TakerInv
    <3>2. \A a \in Uncounted : a \in Urls /\ todo[a] > 0
      BY <1>0, <1>5 DEF TestJobs, Uncounted, AttachLabels
    <3> QED
      BY <3>1, <3>2
  <2> QED
    BY <1>1, <1>2, <2>1, <2>2 DEF TakerInv, HandKept, LeftLow, Taker
<1> QED
  BY <1>3, <1>4, <1>5

LEMMA TakerThread ==
  ASSUME Lossless, CountsInv, TakerInv, NEW t \in Urls, RestlessThread(t)
  PROVE  TakerInv'
<1> USE DEF At, Running, Goto, conf, surlVars, ourlVars, jobVars, pollVars
<1>0. /\ pc \in [Actors -> MainLabels \cup ParserLabels \cup ThreadLabels]
      /\ g_cur_thread_num \in Int /\ max_job_num \in Nat \ {0}
      /\ reg \in [Attachers -> Int] /\ todo \in [Attachers -> 0..2]
  BY DEF CountsInv, TypeInv, TypeOK
<1>1. CASE ExtractLink(t) \/ FreeUrl(t)
  <2>1. /\ UNCHANGED <<rmw, dropped, epfd, reg, todo, hand, ourl_queue, list_ok>>
        /\ pc[t] \in {"extract", "free"}
        /\ \E l \in {"test", "lockjobs"} : pc' = [pc EXCEPT ![t] = l]
    BY <1>1 DEF ExtractLink, FreeUrl
  <2>2. Tasks' = Tasks
    BY <1>0, <2>1 DEF Tasks, Receiving
  <2> QED
    BY <1>0, <2>1, <2>2, TakerSame DEF Counting
<1>2. CASE DecAtomic(t)
  <2>1. /\ pc[t] = "dec" /\ pc' = [pc EXCEPT ![t] = "left"]
        /\ reg' = [reg EXCEPT ![t] = g_cur_thread_num - 1]
        /\ UNCHANGED <<rmw, dropped, epfd, hand>>
    BY <1>2 DEF DecAtomic
  <2> SUFFICES ASSUME rmw = "atomic"
               PROVE  dropped' = {} /\ HandKept' /\ LeftLow' /\ Taker'
    BY <2>1 DEF TakerInv
  <2>2. \A u \in Urls : pc[u] \in Locked => u = t
    BY <2>1 DEF CountsInv, JobInv, LockInv, Locked
  <2>3. \A u \in Urls : pc'[u] \notin Counting
    BY <1>0, <2>1, <2>2 DEF Counting, Locked, AttachLabels
  <2>4. \A u \in Urls : pc'[u] = "left" => u = t
    BY <1>0, <2>1, <2>2 DEF Locked
  <2>5. Tasks' = Tasks \ {t} /\ t \in Tasks
    <3>1. t \notin epfd
      BY <2>1 DEF CountsInv, OwnerInv, NextOwner, OnePlace, Started
    <3> QED
      BY <1>0, <2>1, <3>1 DEF Tasks, Receiving
  <2>6. Cardinality(Tasks') = Cardinality(Tasks) - 1
    BY <2>5, FS_RemoveElement DEF CountsInv, CountInv
  <2>7. g_cur_thread_num - 1 <= Cardinality(Tasks')
    BY <2>6, CountsNow DEF TakerInv
  <2> QED
    BY <1>0, <2>1, <2>3, <2>4, <2>7 DEF TakerInv, HandKept, LeftLow, Taker
<1>3. CASE DecLoad(t) \/ DecStore(t)
  BY <1>3 DEF DecLoad, DecStore, TakerInv
<1>4. CASE Left(t)
  <2>1. PICK n \in {reg[t], g_cur_thread_num} :
          /\ todo' = [todo EXCEPT ![t] = Starts(max_job_num - n)]
          /\ Goto(t, IF Starts(max_job_num - n) = 0 THEN "unlock" ELSE "empty")
    BY <1>4 DEF Left
  <2>2. /\ pc[t] = "left" /\ reg' = [reg EXCEPT ![t] = 0]
        /\ UNCHANGED <<rmw, dropped, epfd, hand, ourl_queue, list_ok>>
    BY <1>4 DEF Left
  <2>3. pc'[t] \in {"unlock", "empty"} /\ \A a \in Actors \ {t} : pc'[a] = pc[a]
    BY <1>0, <2>1
  <2>4. Tasks' = Tasks
    BY <1>0, <2>2, <2>3 DEF Tasks, Receiving
  <2> SUFFICES ASSUME rmw = "atomic"
               PROVE  dropped' = {} /\ HandKept' /\ LeftLow' /\ Taker'
    BY <2>2 DEF TakerInv
  <2>5. HandKept' /\ LeftLow'
    BY <1>0, <2>2, <2>3, <2>4 DEF TakerInv, HandKept, LeftLow, Counting
  <2>6. Tasks = {} => n <= 0 /\ n \in Int
    BY <1>0, <2>2, CountsNow DEF TakerInv, LeftLow
  <2>7. Tasks = {} => todo'[t] > 0
    BY <1>0, <2>1, <2>6 DEF Starts
  <2>8. Taker'
    BY <2>4, <2>7 DEF Taker
  <2> QED
    BY <2>2, <2>5, <2>8 DEF TakerInv
<1>5. CASE Dispatch(t)
  <2>1. /\ t \in epfd /\ epfd' = epfd \ {t} /\ pc' = [pc EXCEPT ![t] = "recv"]
        /\ UNCHANGED <<rmw, dropped, reg, todo, hand, ourl_queue, list_ok>>
    BY <1>5 DEF Dispatch
  <2>2. pc[t] = "idle"
    BY <2>1 DEF CountsInv, OwnerInv, NextOwner, OnePlace, Started
  <2>3. Tasks' = Tasks
    BY <1>0, <2>1 DEF Tasks, Receiving
  <2> QED
    BY <1>0, <2>1, <2>2, <2>3, TakerSame DEF Counting
<1>6. CASE DropTask(t)
  BY <1>6 DEF DropTask, Lossless
<1> QED
  BY <1>1, <1>2, <1>3, <1>4, <1>5, <1>6 DEF RestlessThread

LEMMA TakerStep ==
  ASSUME Lossless, CountsInv, TakerInv, [Next]_vars
  PROVE  TakerInv'
<1>1. CASE UNCHANGED vars
  <2>1. UNCHANGED <<rmw, dropped, epfd, pc, reg, todo, hand, ourl_queue, list_ok>>
    BY <1>1 DEF vars, conf, ourlVars, jobVars, pollVars
  <2>2. Tasks' = Tasks
    BY <2>1 DEF Tasks
  <2> QED
    BY <2>1, <2>2, TakerSame
<1>2. CASE Calm
  <2>1. Tasks' = Tasks
    BY <1>2 DEF Calm, Tasks
  <2> QED
    BY <1>2, <2>1, TakerSame DEF Calm, Quiet
<1>3. CASE Next /\ Restless
  BY <1>3, TakerAttach, TakerParser, TakerThread DEF Restless
<1> QED
  BY <1>1, <1>2, <1>3, CalmOrNot DEF CountsInv

LEMMA TakerInit == Init => TakerInv
  BY DEF Init, TakerInv, HandKept, LeftLow, Taker, Counting

(* When no fault loses a job, a queued Url always has somebody who will    *)
(* start a job: any tasks, any limit, lost lookups and all.  That          *)
(* end_thread connects under gctn_lock is what makes it so.                *)
THEOREM TakerStays == Lossless => (Spec => []OurlHasTaker)
<1> SUFFICES ASSUME Lossless
             PROVE  Spec => []OurlHasTaker
  OBVIOUS
<1>1. ASSUME CountsInv, TakerInv
      PROVE  OurlHasTaker
  <2>1. todo \in [Attachers -> 0..2] /\ \A b \in Attachers : todo[b] > 0 <=> pc[b] \in AttachLabels
    BY <1>1 DEF CountsInv, TypeInv, TypeOK, TodoPositive
  <2> QED
    BY <1>1, <2>1 DEF TakerInv, Taker, OurlHasTaker, Starting, AttachLabels
<1>2. TakerInv /\ CountsInv /\ [Next]_vars => TakerInv'
  BY TakerStep
<1> QED
  BY CountsInit, CountsStep, TakerInit, <1>1, <1>2, PTL DEF Spec
=============================================================================
