------------------------------- MODULE Crawler -------------------------------
(***************************************************************************)
(* The three kinds of threads of the spider and everything they share.     *)
(*                                                                         *)
(*   main       epoll_proc: waits for readable sockets, hands each one to  *)
(*              a new recv_response thread, decides when the crawl is over *)
(*   urlparser  drains surl_queue, resolves hosts, fills ourl_queue and    *)
(*              starts a job when it reads g_cur_thread_num = 0            *)
(*   recv       one recv_response thread per job: reads the page, pushes   *)
(*              the links, frees the Url, end_thread starts more jobs      *)
(*                                                                         *)
(* A Url is one crawl task: the Surl that extract_url or addUrlSeed queues *)
(* and the Url that surl2Ourl makes of it.  The thread that receives a     *)
(* task carries the task's name.  A step is a critical section, or one     *)
(* access to a variable other threads use without its lock: the unlocked   *)
(* bufSize tests, list_empty in pop_queue and g_cur_thread_num.            *)
(* ourl_queue.bufs_mutex and bt_lock are held only within one step and     *)
(* need no variable; bufSize is the length of the list it counts.          *)
(***************************************************************************)
EXTENDS Integers, Sequences, FiniteSets

CONSTANTS
  Urls,       \* crawl tasks that may ever exist: the bound on the crawl
  MaxSeeds,   \* seeds in the configuration file, at most
  JobLimits,  \* values of max_job_num the configuration file may give: with
              \* 0 or less epoll_create fails and init_epoll exits
  RmwKinds,   \* how ++ and -- of g_cur_thread_num execute: "atomic" are the
              \* executions in which no two of them overlap
  Faults,     \* what the environment may do wrong, see FaultKinds
  LogLevels,  \* values of log_level; up to 0 SPIDER_LOG prints DEBUG lines
  Main, Parser, None

FaultKinds == {"dns", "connect", "register", "hangup", "thread", "header"}

ASSUME CrawlerAssumption ==
  /\ Main \notin Urls /\ Parser \notin Urls /\ None \notin Urls
  /\ Main # Parser /\ Main # None /\ Parser # None
  /\ MaxSeeds \in Nat
  /\ JobLimits \subseteq Nat \ {0}
  /\ RmwKinds \subseteq {"atomic", "split"}
  /\ Faults \subseteq FaultKinds
  /\ LogLevels \subseteq Int

VARIABLES
  max_job_num, log_level,   \* g_conf, written before any thread starts
  rmw,
  alive,                    \* FALSE after a fatal signal
  pc,
  surl_queue, bufs_mutex,   \* the list and the owner of its bufs_mutex
  ourl_queue, list_ok,      \* list_ok: FALSE once list_del unlinked the head
  g_cur_thread_num, gctn_lock,
  reg,                      \* register copy of g_cur_thread_num per thread
  todo,                     \* attach_epoll_task calls a thread has still to make
  hand,                     \* the task attach_epoll_task is working on
  epfd,                     \* tasks whose socket is registered with epoll
  dropped,                  \* history: tasks main's error path gave up
  heap                      \* "none" before malloc, "live", "freed"

conf     == <<max_job_num, log_level, rmw>>
surlVars == <<surl_queue, bufs_mutex>>
ourlVars == <<ourl_queue, list_ok>>
jobVars  == <<g_cur_thread_num, gctn_lock, reg, todo>>
pollVars == <<epfd, dropped>>
vars == <<conf, alive, pc, surlVars, ourlVars, jobVars, hand, pollVars, heap>>

Attachers == {Parser} \cup Urls
Actors    == {Main} \cup Attachers

(* Where attach_epoll_task is, for the urlparser and in end_thread alike.  *)
AttachLabels == {"empty", "pop", "connect", "log", "inc", "incstore"}
MainLabels   == {"boot", "wait", "jobs1", "ourl1", "surl1", "sleep",
                 "jobs2", "ourl2", "surl2", "done"}
ParserLabels == AttachLabels \cup
                {"check", "towait", "blocked", "lock", "scan", "resolve",
                 "push", "jobs"}
(* A thread that has not yet taken its job off g_cur_thread_num. *)
Receiving    == {"recv", "extract", "test", "signal", "free", "lockjobs",
                 "dec", "decstore"}
(* A thread that holds gctn_lock. *)
Locked       == AttachLabels \cup {"dec", "decstore", "left", "unlock"}
ThreadLabels == Receiving \cup Locked \cup {"idle", "exit"}

(* The process still runs: exit(0) and a fatal signal end every thread.    *)
Running  == alive /\ pc[Main] # "done"
At(a, l) == Running /\ pc[a] = l
Goto(a, l) == pc' = [pc EXCEPT ![a] = l]

-----------------------------------------------------------------------------
(* initApp: the seeds are pushed before any thread exists, so nobody waits *)
(* for the signal push_queue may send.                                     *)
Init ==
  /\ max_job_num \in JobLimits
  /\ log_level \in LogLevels
  /\ rmw \in RmwKinds
  /\ alive = TRUE
  /\ \E n \in 0..MaxSeeds :
       surl_queue \in {s \in [1..n -> Urls] :
                         \A i, j \in 1..n : i # j => s[i] # s[j]}
  /\ heap = [u \in Urls |->
               IF \E i \in DOMAIN surl_queue : surl_queue[i] = u
               THEN "live" ELSE "none"]
  /\ bufs_mutex = None
  /\ ourl_queue = <<>> /\ list_ok = TRUE
  /\ g_cur_thread_num = 0 /\ gctn_lock = None
  /\ pc = [a \in Actors |->
             IF a = Main THEN "boot" ELSE IF a = Parser THEN "check" ELSE "idle"]
  /\ reg = [a \in Attachers |-> 0]
  /\ todo = [a \in Attachers |-> 0]
  /\ hand = [a \in Attachers |-> None]
  /\ epfd = {} /\ dropped = {}

-----------------------------------------------------------------------------
(* attach_epoll_task, run by the urlparser and by end_thread.              *)

(* Its return: end_thread may have a second call to make; the urlparser    *)
(* goes back to its list.  calls is the todo the caller leaves behind.     *)
AfterAttach(a) ==
  IF a = Parser THEN "scan" ELSE IF todo[a] > 1 THEN "empty" ELSE "unlock"

Return(a) ==
  /\ todo' = [todo EXCEPT ![a] = @ - 1]
  /\ hand' = [hand EXCEPT ![a] = None]
  /\ Goto(a, AfterAttach(a))

(* pop_queue tests list_empty before it locks. *)
PopTest(a) ==
  /\ At(a, "empty")
  /\ IF list_ok /\ ourl_queue = <<>>
     THEN Return(a)
     ELSE Goto(a, "pop") /\ UNCHANGED <<todo, hand>>
  /\ UNCHANGED <<conf, alive, surlVars, ourlVars, g_cur_thread_num, gctn_lock,
                 reg, pollVars, heap>>

(* Mutant: list_del is forgotten. *)
PopElementKept(a) ==
  /\ At(a, "pop") /\ list_ok /\ ourl_queue # <<>>
  /\ hand' = [hand EXCEPT ![a] = Head(ourl_queue)]
  /\ Goto(a, "connect")
  /\ UNCHANGED <<conf, alive, surlVars, ourlVars, jobVars, pollVars, heap>>

(* pop_queue's critical section finds the element the test saw ...         *)
PopElement(a) ==
  /\ At(a, "pop") /\ list_ok /\ ourl_queue # <<>>
  /\ hand' = [hand EXCEPT ![a] = Head(ourl_queue)]
  /\ ourl_queue' = Tail(ourl_queue)
  /\ Goto(a, "connect")
  /\ UNCHANGED <<conf, alive, surlVars, list_ok, jobVars, pollVars, heap>>

(* ... or another thread took it: head.next is the head itself, list_del   *)
(* clears the head's links and list_entry makes a Url of the queue.  Its   *)
(* ip is whatever precedes the queue: inet_aton rejects it or faults.      *)
PopHead(a) ==
  /\ At(a, "pop") /\ list_ok /\ ourl_queue = <<>>
  /\ list_ok' = FALSE
  /\ alive' \in BOOLEAN
  /\ Return(a)
  /\ UNCHANGED <<conf, surlVars, ourl_queue, g_cur_thread_num, gctn_lock, reg,
                 pollVars, heap>>

(* With the head's links cleared, list_del dereferences a null pointer.    *)
PopBroken(a) ==
  /\ At(a, "pop") /\ ~list_ok
  /\ alive' = FALSE
  /\ UNCHANGED <<conf, pc, surlVars, ourlVars, jobVars, hand, pollVars, heap>>

(* build_connnet, send_request, calloc and epoll_ctl succeed.  From here   *)
(* on main may hand the task to a thread.                                  *)
Register(a) ==
  /\ At(a, "connect")
  /\ epfd' = epfd \cup {hand[a]}
  /\ Goto(a, IF log_level <= 0 THEN "log" ELSE "inc")
  /\ UNCHANGED <<conf, alive, surlVars, ourlVars, jobVars, hand, dropped, heap>>

(* build_connnet fails: the Url is neither queued again nor freed.         *)
ConnectFails(a) ==
  /\ At(a, "connect") /\ "connect" \in Faults
  /\ Return(a)
  /\ UNCHANGED <<conf, alive, surlVars, ourlVars, g_cur_thread_num, gctn_lock,
                 reg, pollVars, heap>>

(* send_request, calloc or epoll_ctl fails: free_url. *)
RegisterFails(a) ==
  /\ At(a, "connect") /\ "register" \in Faults
  /\ heap' = [heap EXCEPT ![hand[a]] = "freed"]
  /\ Return(a)
  /\ UNCHANGED <<conf, alive, surlVars, ourlVars, g_cur_thread_num, gctn_lock,
                 reg, pollVars>>

(* The DEBUG line prints ourl->domain after epoll_ctl published ourl: when *)
(* its thread has freed it already, the print reads freed memory.          *)
LogAttach(a) ==
  /\ At(a, "log")
  /\ alive' \in IF heap[hand[a]] = "freed" THEN BOOLEAN ELSE {TRUE}
  /\ Goto(a, "inc")
  /\ UNCHANGED <<conf, surlVars, ourlVars, jobVars, hand, pollVars, heap>>

(* g_cur_thread_num++ undisturbed, or a load and a store.                  *)
IncAtomic(a) ==
  /\ At(a, "inc") /\ rmw = "atomic"
  /\ g_cur_thread_num' = g_cur_thread_num + 1
  /\ Return(a)
  /\ UNCHANGED <<conf, alive, surlVars, ourlVars, gctn_lock, reg, pollVars, heap>>

IncLoad(a) ==
  /\ At(a, "inc") /\ rmw = "split"
  /\ reg' = [reg EXCEPT ![a] = g_cur_thread_num]
  /\ Goto(a, "incstore")
  /\ UNCHANGED <<conf, alive, surlVars, ourlVars, g_cur_thread_num, gctn_lock,
                 todo, hand, pollVars, heap>>

IncStore(a) ==
  /\ At(a, "incstore") /\ rmw = "split"
  /\ g_cur_thread_num' = reg[a] + 1
  /\ reg' = [reg EXCEPT ![a] = 0]
  /\ Return(a)
  /\ UNCHANGED <<conf, alive, surlVars, ourlVars, gctn_lock, pollVars, heap>>

attach_epoll_task(a) ==
  \/ PopTest(a) \/ PopElement(a) \/ PopHead(a) \/ PopBroken(a)
  \/ Register(a) \/ ConnectFails(a) \/ RegisterFails(a) \/ LogAttach(a)
  \/ IncAtomic(a) \/ IncLoad(a) \/ IncStore(a)

-----------------------------------------------------------------------------
(* urlparser *)

(* It tests bufSize holding cond_mutex, which nobody else ever takes.      *)
TestSurlSize ==
  /\ At(Parser, "check")
  /\ Goto(Parser, IF surl_queue = <<>> THEN "towait" ELSE "lock")
  /\ UNCHANGED <<conf, alive, surlVars, ourlVars, jobVars, hand, pollVars, heap>>

(* pthread_cond_wait; POSIX lets it return without a signal.               *)
CondWait ==
  /\ At(Parser, "towait")
  /\ Goto(Parser, "blocked")
  /\ UNCHANGED <<conf, alive, surlVars, ourlVars, jobVars, hand, pollVars, heap>>

SpuriousWakeup ==
  /\ At(Parser, "blocked")
  /\ Goto(Parser, "check")
  /\ UNCHANGED <<conf, alive, surlVars, ourlVars, jobVars, hand, pollVars, heap>>

LockSurl ==
  /\ At(Parser, "lock") /\ bufs_mutex = None
  /\ bufs_mutex' = Parser
  /\ Goto(Parser, "scan")
  /\ UNCHANGED <<conf, alive, surl_queue, ourlVars, jobVars, hand, pollVars, heap>>

(* list_for_each_entry_safe: the next entry is unlinked and converted ...  *)
TakeSurl ==
  /\ At(Parser, "scan") /\ surl_queue # <<>>
  /\ hand' = [hand EXCEPT ![Parser] = Head(surl_queue)]
  /\ surl_queue' = Tail(surl_queue)
  /\ Goto(Parser, "resolve")
  /\ UNCHANGED <<conf, alive, bufs_mutex, ourlVars, jobVars, pollVars, heap>>

(* ... until the list is empty. *)
UnlockSurl ==
  /\ At(Parser, "scan") /\ surl_queue = <<>>
  /\ bufs_mutex' = None
  /\ Goto(Parser, "check")
  /\ UNCHANGED <<conf, alive, surl_queue, ourlVars, jobVars, hand, pollVars, heap>>

(* The host is in host_ip_map or dns_callback gets an address.             *)
Resolve ==
  /\ At(Parser, "resolve")
  /\ Goto(Parser, "push")
  /\ UNCHANGED <<conf, alive, surlVars, ourlVars, jobVars, hand, pollVars, heap>>

(* dns_callback logs the failure and forgets the task. *)
ResolveFails ==
  /\ At(Parser, "resolve") /\ "dns" \in Faults
  /\ hand' = [hand EXCEPT ![Parser] = None]
  /\ Goto(Parser, "scan")
  /\ UNCHANGED <<conf, alive, surlVars, ourlVars, jobVars, pollVars, heap>>

(* push_queue(&ourl_queue): list_add_tail faults on a head without links.  *)
PushOurl ==
  /\ At(Parser, "push")
  /\ IF list_ok
     THEN /\ ourl_queue' = Append(ourl_queue, hand[Parser])
          /\ hand' = [hand EXCEPT ![Parser] = None]
          /\ Goto(Parser, "jobs")
          /\ UNCHANGED alive
     ELSE alive' = FALSE /\ UNCHANGED <<ourl_queue, hand, pc>>
  /\ UNCHANGED <<conf, surlVars, list_ok, jobVars, pollVars, heap>>

(* Mutant: the test of g_cur_thread_num is forgotten. *)
TestJobsAlways ==
  /\ At(Parser, "jobs")
  /\ todo' = [todo EXCEPT ![Parser] = 1]
  /\ Goto(Parser, "empty")
  /\ UNCHANGED <<conf, alive, surlVars, ourlVars, g_cur_thread_num, gctn_lock,
                 reg, hand, pollVars, heap>>

(* g_cur_thread_num == 0, read without gctn_lock: attach one job.          *)
TestJobs ==
  /\ At(Parser, "jobs")
  /\ IF g_cur_thread_num = 0
     THEN /\ todo' = [todo EXCEPT ![Parser] = 1]
          /\ Goto(Parser, "empty")
     ELSE Goto(Parser, "scan") /\ UNCHANGED todo
  /\ UNCHANGED <<conf, alive, surlVars, ourlVars, g_cur_thread_num, gctn_lock,
                 reg, hand, pollVars, heap>>

urlparser ==
  \/ TestSurlSize \/ CondWait \/ LockSurl \/ TakeSurl \/ UnlockSurl
  \/ Resolve \/ ResolveFails \/ PushOurl \/ TestJobs
  \/ attach_epoll_task(Parser)

-----------------------------------------------------------------------------
(* recv_response and end_thread, in the thread of task t.                  *)

(* Mutant: free_url before the links are extracted. *)
RecvPageFreed(t) ==
  /\ At(t, "recv")
  /\ heap' = [heap EXCEPT ![t] = "freed"]
  /\ Goto(t, "extract")
  /\ UNCHANGED <<conf, alive, surlVars, ourlVars, jobVars, hand, pollVars>>

(* The page is read to its end and header_postcheck let it pass. *)
RecvPage(t) ==
  /\ At(t, "recv")
  /\ Goto(t, "extract")
  /\ UNCHANGED <<conf, alive, surlVars, ourlVars, jobVars, hand, pollVars, heap>>

(* Mutant: return instead of goto leave. *)
RecvRejectedReturns(t) ==
  /\ At(t, "recv")
  /\ Goto(t, "exit")
  /\ UNCHANGED <<conf, alive, surlVars, ourlVars, jobVars, hand, pollVars, heap>>

(* A module rejects the header, or read fails: goto leave, break.          *)
RecvRejected(t) ==
  /\ At(t, "recv")
  /\ Goto(t, "free")
  /\ UNCHANGED <<conf, alive, surlVars, ourlVars, jobVars, hand, pollVars, heap>>

(* The connection ended before a whole header: what came was searched for  *)
(* links all the same, and resp->header is null when savehtml reads it or  *)
(* its content_type is freed.                                              *)
RecvNoHeader(t) ==
  /\ At(t, "free") /\ "header" \in Faults
  /\ alive' = FALSE
  /\ UNCHANGED <<conf, pc, surlVars, ourlVars, jobVars, hand, pollVars, heap>>

(* extract_url finds a link not crawled yet: push_queue(&surl_queue) waits *)
(* for bufs_mutex, which the urlparser keeps while it resolves and         *)
(* connects.                                                               *)
ExtractLink(t) ==
  /\ At(t, "extract") /\ bufs_mutex = None
  /\ \E u \in Urls :
       /\ heap[u] = "none"
       /\ heap' = [heap EXCEPT ![u] = "live"]
       /\ surl_queue' = Append(surl_queue, u)
  /\ Goto(t, "test")
  /\ UNCHANGED <<conf, alive, bufs_mutex, ourlVars, jobVars, hand, pollVars>>

(* push_queue tests bufSize after it unlocked ... *)
TestSignal(t) ==
  /\ At(t, "test")
  /\ Goto(t, IF Len(surl_queue) = 1 THEN "signal" ELSE "extract")
  /\ UNCHANGED <<conf, alive, surlVars, ourlVars, jobVars, hand, pollVars, heap>>

(* ... and signals: lost unless the urlparser is blocked already.          *)
Signal(t) ==
  /\ At(t, "signal")
  /\ pc' = [pc EXCEPT ![t] = "extract",
                      ![Parser] = IF @ = "blocked" THEN "check" ELSE @]
  /\ UNCHANGED <<conf, alive, surlVars, ourlVars, jobVars, hand, pollVars, heap>>

(* No more links; the post_html modules run. *)
ExtractDone(t) ==
  /\ At(t, "extract")
  /\ Goto(t, "free")
  /\ UNCHANGED <<conf, alive, surlVars, ourlVars, jobVars, hand, pollVars, heap>>

(* close and free_url *)
FreeUrl(t) ==
  /\ At(t, "free")
  /\ heap' = [heap EXCEPT ![t] = "freed"]
  /\ Goto(t, "lockjobs")
  /\ UNCHANGED <<conf, alive, surlVars, ourlVars, jobVars, hand, pollVars>>

recv_response(t) ==
  \/ RecvPage(t) \/ RecvRejected(t) \/ RecvNoHeader(t) \/ ExtractLink(t)
  \/ TestSignal(t) \/ Signal(t) \/ ExtractDone(t) \/ FreeUrl(t)

LockJobs(t) ==
  /\ At(t, "lockjobs") /\ gctn_lock = None
  /\ gctn_lock' = t
  /\ Goto(t, "dec")
  /\ UNCHANGED <<conf, alive, surlVars, ourlVars, g_cur_thread_num, reg, todo,
                 hand, pollVars, heap>>

(* --g_cur_thread_num *)
DecAtomic(t) ==
  /\ At(t, "dec") /\ rmw = "atomic"
  /\ g_cur_thread_num' = g_cur_thread_num - 1
  /\ reg' = [reg EXCEPT ![t] = g_cur_thread_num - 1]
  /\ Goto(t, "left")
  /\ UNCHANGED <<conf, alive, surlVars, ourlVars, gctn_lock, todo, hand,
                 pollVars, heap>>

DecLoad(t) ==
  /\ At(t, "dec") /\ rmw = "split"
  /\ reg' = [reg EXCEPT ![t] = g_cur_thread_num]
  /\ Goto(t, "decstore")
  /\ UNCHANGED <<conf, alive, surlVars, ourlVars, g_cur_thread_num, gctn_lock,
                 todo, hand, pollVars, heap>>

DecStore(t) ==
  /\ At(t, "decstore") /\ rmw = "split"
  /\ g_cur_thread_num' = reg[t] - 1
  /\ reg' = [reg EXCEPT ![t] = reg[t] - 1]
  /\ Goto(t, "left")
  /\ UNCHANGED <<conf, alive, surlVars, ourlVars, gctn_lock, todo, hand,
                 pollVars, heap>>

(* Mutants: fill every slot; count one slot too many; forget the last one. *)
StartsAll(left) == IF left > 0 THEN left ELSE 0
StartsOneMore(left) == IF left = 0 THEN 1 ELSE IF left > 0 THEN 2 ELSE 0
StartsNotLast(left) == IF left > 1 THEN 2 ELSE 0

(* Jobs end_thread starts when `left' are free. *)
Starts(left) == IF left = 1 THEN 1 ELSE IF left > 1 THEN 2 ELSE 0

(* left uses the value just stored; an unoptimised build reads it back     *)
(* from g_cur_thread_num, which the urlparser may have changed.            *)
Left(t) ==
  /\ At(t, "left")
  /\ \E n \in {reg[t], g_cur_thread_num} :
       LET starts == Starts(max_job_num - n)
       IN  /\ todo' = [todo EXCEPT ![t] = starts]
           /\ Goto(t, IF starts = 0 THEN "unlock" ELSE "empty")
  /\ reg' = [reg EXCEPT ![t] = 0]
  /\ UNCHANGED <<conf, alive, surlVars, ourlVars, g_cur_thread_num, gctn_lock,
                 hand, pollVars, heap>>

(* Mutant: gctn_lock is not released. *)
UnlockJobsForgotten(t) ==
  /\ At(t, "unlock")
  /\ Goto(t, "exit")
  /\ UNCHANGED <<conf, alive, surlVars, ourlVars, jobVars, hand, pollVars, heap>>

UnlockJobs(t) ==
  /\ At(t, "unlock")
  /\ gctn_lock' = None
  /\ Goto(t, "exit")
  /\ UNCHANGED <<conf, alive, surlVars, ourlVars, g_cur_thread_num, reg, todo,
                 hand, pollVars, heap>>

end_thread(t) ==
  \/ LockJobs(t) \/ DecAtomic(t) \/ DecLoad(t) \/ DecStore(t)
  \/ Left(t) \/ attach_epoll_task(t) \/ UnlockJobs(t)

-----------------------------------------------------------------------------
(* epoll_proc *)

(* The wait for the first ourl gives up after seven naps: it only delays.  *)
SeedWait ==
  /\ At(Main, "boot")
  /\ Goto(Main, "wait")
  /\ UNCHANGED <<conf, alive, surlVars, ourlVars, jobVars, hand, pollVars, heap>>

(* epoll_wait reports a readable socket: EPOLL_CTL_DEL, create_thread.  A  *)
(* batch of n events is n such steps.                                      *)
Dispatch(t) ==
  /\ At(Main, "wait") /\ t \in epfd
  /\ epfd' = epfd \ {t}
  /\ Goto(t, "recv")
  /\ UNCHANGED <<conf, alive, surlVars, ourlVars, jobVars, hand, dropped, heap>>

(* EPOLLERR or EPOLLHUP: close and continue; or pthread_create fails and   *)
(* its result is ignored.  Nobody takes the job off g_cur_thread_num.      *)
DropTask(t) ==
  /\ At(Main, "wait") /\ t \in epfd
  /\ {"hangup", "thread"} \cap Faults # {}
  /\ epfd' = epfd \ {t}
  /\ dropped' = dropped \cup {t}
  /\ UNCHANGED <<conf, alive, pc, surlVars, ourlVars, jobVars, hand, heap>>

(* epoll_wait times out or is interrupted *)
Timeout ==
  /\ At(Main, "wait")
  /\ Goto(Main, "jobs1")
  /\ UNCHANGED <<conf, alive, surlVars, ourlVars, jobVars, hand, pollVars, heap>>

(* One operand of the && that ends the crawl; a false one ends the test.   *)
Check(from, holds, to) ==
  /\ At(Main, from)
  /\ Goto(Main, IF holds THEN to ELSE "wait")
  /\ UNCHANGED <<conf, alive, surlVars, ourlVars, jobVars, hand, pollVars, heap>>

NoJobs(from, to) == Check(from, g_cur_thread_num <= 0, to)

(* is_queue_empty reads bufSize, which is -1 once the head was unlinked.   *)
OurlEmpty(from, to) == Check(from, list_ok /\ ourl_queue = <<>>, to)

SurlEmpty(from, to) == bufs_mutex = None /\ Check(from, surl_queue = <<>>, to)

Sleep ==
  /\ At(Main, "sleep")
  /\ Goto(Main, "jobs2")
  /\ UNCHANGED <<conf, alive, surlVars, ourlVars, jobVars, hand, pollVars, heap>>

(* The second test leads to "Task done!" and exit(0). *)
QuietTest ==
  \/ NoJobs("jobs1", "ourl1") \/ OurlEmpty("ourl1", "surl1")
  \/ SurlEmpty("surl1", "sleep") \/ Sleep
  \/ NoJobs("jobs2", "ourl2") \/ OurlEmpty("ourl2", "surl2")
  \/ SurlEmpty("surl2", "done")

epoll_proc ==
  \/ SeedWait \/ Timeout \/ QuietTest
  \/ \E t \in Urls : Dispatch(t) \/ DropTask(t)

-----------------------------------------------------------------------------
(* The process has exited or died. *)
Stopped == ~Running /\ UNCHANGED vars

Next ==
  \/ epoll_proc
  \/ urlparser \/ SpuriousWakeup
  \/ \E t \in Urls : recv_response(t) \/ end_thread(t)
  \/ Stopped

Spec == Init /\ [][Next]_vars

(* Every thread that can run eventually runs: the scheduler is fair and a  *)
(* mutex that stays free is taken by a thread that asks for it.            *)
(* A readable socket keeps epoll_wait from timing out, and a server that   *)
(* accepted a request answers or closes: strong fairness, because main is  *)
(* away from epoll_wait after every timeout.  Nothing is assumed of        *)
(* spurious wakeups.                                                       *)
Handover == \E t \in Urls : Dispatch(t) \/ DropTask(t)

Fairness ==
  /\ WF_vars(SeedWait \/ Timeout \/ QuietTest)
  /\ SF_vars(Handover)
  /\ WF_vars(urlparser)
  /\ \A t \in Urls : WF_vars(recv_response(t) \/ end_thread(t))

FairSpec == Spec /\ Fairness

-----------------------------------------------------------------------------
(* Properties *)

InQueue(q) == {q[i] : i \in DOMAIN q}

(* Jobs that g_cur_thread_num is meant to count: registered with epoll, or *)
(* received by a thread that has not yet counted itself out.               *)
Tasks == epfd \cup {t \in Urls : pc[t] \in Receiving}

(* Calls of attach_epoll_task that registered their job and have not       *)
(* counted it in.                                                          *)
Uncounted == {a \in Attachers : pc[a] \in {"log", "inc", "incstore"}}

(* Calls of attach_epoll_task decided on and not yet finished.             *)
Pending == todo[Parser] + IF gctn_lock = None THEN 0 ELSE todo[gctn_lock]

(* Where the task in a thread's hand is still to be handed on, and where   *)
(* its own thread still works on it.                                       *)
Delivering == {"resolve", "push", "connect"}
Reading    == {"recv", "extract", "test", "signal", "free"}

(* Who may still touch a task: a queue, a thread about to convert, push or *)
(* connect it, epoll, the thread that receives it.  The debug line of      *)
(* attach_epoll_task is not among them: it may indeed come too late.       *)
Owners(u) ==
  {a \in Attachers : hand[a] = u /\ pc[a] \in Delivering}
  \cup {x \in {"surl", "ourl", "epoll", "recv"} :
          \/ x = "surl" /\ u \in InQueue(surl_queue)
          \/ x = "ourl" /\ u \in InQueue(ourl_queue)
          \/ x = "epoll" /\ u \in epfd
          \/ x = "recv" /\ pc[u] \in Reading}

(* The variables have their types.  The counter has no lower bound: a job  *)
(* that ends before the urlparser counts it in makes it negative, and a    *)
(* lost update is never made up for.                                       *)
TypeOK ==
  /\ max_job_num \in JobLimits /\ log_level \in LogLevels /\ rmw \in RmwKinds
  /\ alive \in BOOLEAN
  /\ pc \in [Actors -> MainLabels \cup ParserLabels \cup ThreadLabels]
  /\ pc[Main] \in MainLabels /\ pc[Parser] \in ParserLabels
  /\ \A t \in Urls : pc[t] \in ThreadLabels
  /\ surl_queue \in Seq(Urls) /\ ourl_queue \in Seq(Urls)
  /\ bufs_mutex \in {None, Parser} /\ gctn_lock \in Urls \cup {None}
  /\ list_ok \in BOOLEAN
  /\ g_cur_thread_num \in Int /\ reg \in [Attachers -> Int]
  /\ todo \in [Attachers -> 0..2]
  /\ hand \in [Attachers -> Urls \cup {None}]
  /\ epfd \subseteq Urls /\ dropped \subseteq Urls
  /\ heap \in [Urls -> {"none", "live", "freed"}]

(* Queues, urlparser, end_thread, main and recv_response pass a task from  *)
(* one to the next through six handovers, half of them without a common    *)
(* lock: no interleaving gives one Surl or Url to two of them, or queues   *)
(* it twice.                                                               *)
OneOwner ==
  /\ \A u \in Urls : \A x, y \in Owners(u) : x = y
  /\ \A q \in {surl_queue, ourl_queue} :
       \A i, j \in DOMAIN q : q[i] = q[j] => i = j

(* free_url runs in recv_response and on attach_epoll_task's error paths:  *)
(* whoever still has work to do on a task finds it allocated.              *)
NoUseAfterFree == \A u \in Urls : heap[u] # "live" => Owners(u) = {}

(* g_cur_thread_num counts the jobs in flight, and for ever those that     *)
(* main's error path closed ...                                            *)
CounterKept ==
  g_cur_thread_num =
    Cardinality(Tasks) + Cardinality(dropped) - Cardinality(Uncounted)

(* ... as long as ++ in attach_epoll_task and -- in end_thread, under      *)
(* different locks, do not overlap.                                        *)
CounterExact == rmw = "atomic" => CounterKept

(* How far the jobs really go: an end_thread that sees one free slot and a *)
(* urlparser that saw no job at all start one each; and two and one when   *)
(* max_job_num is 1 and the counter was transiently negative.              *)
JobCap == IF max_job_num >= 2 THEN max_job_num + 1 ELSE 3

(* The counter, with every attach_epoll_task under way or decided on,      *)
(* stays within JobCap although urlparser decides without gctn_lock and    *)
(* end_thread decides on a value urlparser may be about to change.         *)
JobsBounded == rmw = "atomic" => g_cur_thread_num + Pending <= JobCap

(* Hence so do the connections open at once.                               *)
TasksBounded == rmw = "atomic" => Cardinality(Tasks) <= JobCap

(* Only a finished job or the push of the next Url starts a job, so a      *)
(* queue without either would be forgotten: when no fault loses a job, a   *)
(* non-empty ourl_queue has a job in flight, a thread in attach_epoll_task *)
(* or at the point of deciding how many to start, or the urlparser about   *)
(* to test the counter.                                                    *)
OurlHasTaker ==
  rmw = "atomic" /\ list_ok /\ ourl_queue # <<>> =>
    \/ Tasks # {}
    \/ \E a \in Attachers : todo[a] > 0 \/ pc[a] = "left"
    \/ pc[Parser] = "jobs"

(* The urlparser sleeps in pthread_cond_wait with Surls queued: its signal *)
(* came between its test of bufSize and its wait, or was never sent since  *)
(* two pushes were made before either tested bufSize == 1.                 *)
Stranded == pc[Parser] = "blocked" /\ surl_queue # <<>>

(* Without faults every job ends, every lock is released, and the process  *)
(* leaves the main loop, with three exceptions: the urlparser is stranded, *)
(* two threads in pop_queue unlinked the head of the list, or overlapping  *)
(* ++ and -- lost an update of g_cur_thread_num and it stays wrong.        *)
CrawlEnds == <>[](~Running \/ ~list_ok \/ Stranded \/ ~CounterKept)

(* config.h calls max_job_num the largest number of jobs.                  *)
TasksLimited == Cardinality(Tasks) <= max_job_num

(* epoll_proc prints "Task done!" when both queues are empty and no job is *)
(* in flight or being started.                                             *)
ExitMeansDone ==
  pc[Main] = "done" =>
    /\ surl_queue = <<>> /\ ourl_queue = <<>> /\ Tasks = {}
    /\ \A a \in Attachers : hand[a] = None
=============================================================================
