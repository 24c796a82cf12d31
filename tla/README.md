# c-spider: a verification project

TLA+ models of c-spider, a multi-threaded web crawler in C, the TLC runs that
check them on small instances, and theorems about them that TLAPS proves for
every value of the constants. Source paths below are those of the repository
(`src/url/url.c` is the file of that name below its top directory; PROJECT.json
has one more `src/` in front of each).

1. [The system](#1-the-system)
2. [Modules](#2-modules)
3. [Runs and bounds](#3-runs-and-bounds)
4. [Disagreements found](#4-disagreements-found)
5. [Proofs](#5-proofs)
6. [What is not modelled](#6-what-is-not-modelled)
7. [Plan](#7-plan)

## 1. The system

`main` reads spider.conf, loads the modules it names, queues the seeds and
starts one thread, `urlparser`. From then on there are three kinds of threads:

    extract_url                urlparser                attach_epoll_task
    addUrlSeed   --Surl-->     resolves host  --Url-->  connects, registers
                 surl_queue    (host_ip_map)  ourl_queue        |
        ^                                                     epoll
        |                                                       |
    recv_response  <-------------- one thread per page ------  main
        |
        end_thread: one job less, start up to two more (attach_epoll_task)

`attach_epoll_task` is called by whoever finds that a job should start: by
`end_thread`, under `gctn_lock`, and by `urlparser` when it reads that there is
no job at all, without it. Nothing else ever starts a job.

| component | state | operations | what makes it correct |
|---|---|---|---|
| crawler core: `epoll.c`, `threads.c`, the queues and `urlparser` of `url.c`, the control of `recv_response` | `surl_queue`, `ourl_queue` (list, bufSize, a mutex each, a condition), `g_cur_thread_num`, `gctn_lock`, the epoll set, the heap | `push_queue`, `pop_queue`, `is_queue_empty`, `attach_epoll_task`, `epoll_proc`, `urlparser`, `recv_response`, `end_thread` | a task has one owner and is freed once and last; the counter counts the jobs; the limit on jobs; no queued task is forgotten; the crawl ends, and only when it is done |
| seen urls: `bloomfilter.c` | `bloom_table`, `bt_lock` | `search` | no link is called new twice; false "seen" answers only from urls called new |
| string hashes: `hashs.c`, `crc32.c` | crc table, built at first use | eight hash functions | functions of the bytes alone |
| host_ip_map: `hashmap.c` | size, listSize, list of chained buckets | put, get, exists, remove, clear, iterator | a dictionary, through growing and shrinking |
| frontier: `extract_url`, `addUrlSeed`, `maxdepth.c` | level of each Surl, `modules_pre_surl` | find links, filter, queue | every page once, no deeper than max_depth |
| url text: `urlNormalized`, `attach_domain`, `is_bin_url`, `surl2Ourl`, `url2fn` | none | string functions | normal form; domain, port and path come apart as they went together |
| response: read loop, `parse_header`, `header_postcheck` | body buffer, length, header | read, split, parse | body within its buffer and complete, header before modules |
| modules: `dso.c`, `headerfilter.c`, `savehtml.c` | three module queues | load, run | the right module sees the right data; a file holds the whole body |
| configuration: `config.c` | `g_conf` | parse lines | each directive once, bad lines refused |
| cstring: `cstring.c` | len, free, allocated bytes | append, split, trim | len + free is what is allocated |
| start and daemon: `spider.c` | none | options, fork, seeds | order of initialisation |
| list.h, log.h | links; none | insert, delete; print, exit on ERROR | the list is a sequence |

Components interact by direct calls, the two queues, the epoll set, the
unprotected counter `g_cur_thread_num` and the module queues. Hard behaviours:

* *Concurrency without a common lock.* `push_queue` reads `bufSize` after it
  unlocked and signals without `cond_mutex`; `pop_queue` tests `list_empty`
  before it locks; `++` and `--` of the counter are under different locks;
  `epoll_ctl` publishes a job before it is counted.
* *Locks held long.* `urlparser` keeps `surl_queue.bufs_mutex` while it resolves
  and connects, `end_thread` keeps `gctn_lock` while it connects.
* *Partial failure.* A failed DNS lookup, connect, request or registration and a
  hangup each leave the system at a different point, some with a job counted,
  some with a Url leaked, none with a retry.
* *Termination.* Nobody is told that the crawl is over; main infers it from two
  looks at a counter and two queues.

There is no persistence, so no recovery, and no timer except epoll's.

## 2. Modules

| module | what it is |
|---|---|
| `Crawler` | the crawler core: main, urlparser, one recv_response thread per task |
| `MCCrawler` | model values, symmetry and the initial states of the liveness run |
| `CrawlerProofs` | theorems about `Crawler`: types, ownership, the bound on jobs; the counter is exact, no queued Url is forgotten |
| `SeenSet` | abstract: a set of urls called new |
| `BloomFilter` | `search`, step by step; implements `SeenSet` |
| `MCBloomFilter` | all families of hash functions into a small table |
| `BloomFilterProofs` | theorems about `BloomFilter`, with the refinement |
| `Dictionary` | abstract: a map from hosts to addresses |
| `HashMap` | the chained table; a `Dictionary` if no two keys begin alike |
| `MCHashMap` | hash values and prefixes for five keys |
| `HashMapProofs` | theorems about `HashMap`, with the refinement of `Dictionary` |
| `Text` | the functions of the C library that the spider applies to strings |
| `UrlText` | what `url.c` does to the text of a url |
| `Frontier` | which pages are visited, at which level; composes `UrlText` with `SeenSet` |
| `MCFrontier` | five small webs |
| `FrontierProofs` | theorems about `Frontier` |
| `Response` | one page from the first read to the file of savehtml |
| `MCResponse` | the answers of servers |
| `ResponseProofs` | theorems about `Response` |
| `CString` | loadConfig's string: appended to, split into lines, trimmed |
| `Config` | loadConfig as a whole: `CString` step by step, with the directives |
| `ConfigProofs` | theorems about `CString`; about `Config`, the refinement of `CString` and what the options are |
| `List` | the operations of `list.h` on a memory of pointers |
| `Start` | initApp: `Config`, then the modules in their queues (`List`), the seeds, the crawl |
| `MCStart` | small configuration files, and libraries of modules |
| `StartProofs` | theorems about `Start`, with the refinement of `Config` |
| `Foundations` | lemmas the proofs share: induction, recursive functions, the characters of a string |

How they fit together: `BloomFilter` implements `SeenSet`, which `Frontier` uses
for `iscrawled`; `HashMap` implements `Dictionary`; `Config` extends `CString`
and implements it, and `Start` extends and implements `Config`. `Crawler`,
`Frontier` and `Response` are three views of the same threads, kept apart
because their product has no further interactions: `Crawler` has every access to
shared memory and reduces a page to the links it adds; `Frontier` has the links
and takes a fetch as one step that succeeds or fails; `Response` is what one
thread does between the two.

### Crawler

`pc[a]` is the position of a thread, named for what it does next. A step is a
critical section, or one access to a variable that other threads use without
its lock; local computation and calls that touch nothing shared are absorbed.

| actions | code |
|---|---|
| `PopTest`, `PopElement`, `PopHead`, `PopBroken` | `pop_queue`: the unlocked test; the critical section; the critical section when the element is gone, and after that |
| `Register`, `ConnectFails`, `RegisterFails`, `LogAttach`, `IncAtomic`, `IncLoad`, `IncStore` | the rest of `attach_epoll_task` |
| `TestSurlSize`, `CondWait`, `LockSurl`, `TakeSurl`, `UnlockSurl`, `Resolve`, `ResolveFails`, `PushOurl`, `TestJobs` | `urlparser` and `dns_callback` |
| `RecvPage`, `RecvRejected`, `RecvNoHeader`, `ExtractLink`, `TestSignal`, `Signal`, `ExtractDone`, `FreeUrl` | `recv_response`, `extract_url`, `push_queue(&surl_queue)`, `free_url` |
| `LockJobs`, `DecAtomic`, `DecLoad`, `DecStore`, `Left`, `UnlockJobs` | `end_thread` |
| `SeedWait`, `Dispatch`, `DropTask`, `Timeout`, `QuietTest` | `epoll_proc`; `QuietTest` is one action per operand of the two `&&` tests |

Abstractions: a page is the set of fresh links it adds; a Surl and the Url made
from it are one task, named like the thread that will receive it; a socket is
membership in `epfd`. `bufSize` is the length of the list it counts, because
both change in one critical section; `ourl_queue.bufs_mutex` and `bt_lock` need
no variable, since nobody does anything else while holding them.
`surl_queue.bufs_mutex` has one, since urlparser keeps it for long.

Undefined behaviour is a choice. A second pop of the last element unlinks the
head of the list (`PopHead`): the process may survive with `list_ok = FALSE` or
die, and dies at the next use. The DEBUG line of `attach_epoll_task` may read a
freed Url. `rmw = "split"` makes `++` and `--` a load and a store;
`rmw = "atomic"` stands for the executions in which no two overlap. `Left` may
use the value `--` produced or a value read again, as compiled without
optimisation. `Faults` lists what the environment may do wrong, one by one.

### BloomFilter

`search` in four steps: enter, lock, one step per round, unlock and answer. The
hash functions are any member of `HashFunctions`; `BitOf` computes word and
position as the code does. `accepted` is a history variable: the urls called
new. `Refines` maps a thread outside "idle" to one that asks `SeenSet`.

### HashMap

A map is a record of size, listSize and buckets; `defaultPut`, `defaultGet`,
`defaultExists`, `defaultRemove` and `resetHashMap` are functions on it. Buckets
keep the order of the chain (a new entry goes behind the first), because it is
what resetting iterates over. The hash of a key and its first four bytes are
arbitrary. Only urlparser uses host_ip_map, so one call is one step. The spider
calls exists, get and put; remove is modelled as the library offers it. The
values that `resetHashMap` reads from freed nodes are a choice between going on
and dying (`Survives`).

### Text and UrlText

Here characters matter, so strings are TLA+ strings. `UrlText` has an operator
per function of `url.c`, with what the code makes of odd input: every link that
begins with "http" counts as absolute, `SchemeLen` takes 7 or 8 characters off
whatever begins so and is long enough, a suffix is binary when it occurs
anywhere in the list of suffixes. `urlNormalized` of a bare "https://" reads
`url[-1]`, a byte of malloc's header: no slash.

### Frontier

| actions | code |
|---|---|
| `AddSeed` | the loop of `initApp` with `addUrlSeed`: the last seed first, none shown to `iscrawled` |
| `Take`, `FetchFails`, `Receive` | a Surl's way to its receiver and the page, or no page, that comes |
| `SkipLink`, `AskLink`, `ToldNew`, `ToldSeen`, `Push`, `Finish` | the loop of `extract_url` |

The question to `iscrawled` and its answer are two steps, taken from `SeenSet`,
so other threads ask in between; `AnswerSeen` may be wrong, as the bloom filter
may. The regular expression is abstracted to the sequence of links it finds, a
server to the pages it has. `taken`, `received` and `misjudged` are history
variables. The Surls freed with a failed lookup are in `FetchFails`.

### Response

| actions | code |
|---|---|
| `ReadMore`, `ReadHeader`, `ReadRejected`, `ReadOverruns` | a `read` of any size in `recv_response`: nothing special; the empty line found, header parsed and accepted; the same and rejected by `header_postcheck`; more than the buffer holds |
| `ReadFails`, `Eof` | a read error; the end of the connection, `extract_url` |
| `SaveCrashes`, `NotSaved`, `Open...`, `Write...`, `Close` | `savehtml`: no header or type to look at; another type or no file; the write loop, with short and failing writes |
| `Leave` | the end of `recv_response` |

What arrives is a sequence of pieces: CR, LF and NUL, which the code looks for
one by one, and strings of anything else. `CText` is the text of a buffer as C
sees it, up to the first NUL. `parse_header`, `headerfilter` and
`header_postcheck` are operators. "undefined" (the buffer is overrun) and
"crashed" are states in which nothing more is said of the process.

### CString and Config

A string is its header, `len` and `free`, and the size of its allocation; the
characters are kept once, in `text`, and a token is the range of `text` it
copied. `Read` is one fgets and cscat. `cssplitlen` is one step per round of its
loop, `csstrim` one per character removed; a separator has one character, as in
every call. A file with NUL characters is not modelled. In `CString` alone the
file and the chunks are arbitrary.

`Config` gives `Read` the file and the chunks that fgets makes of it (`Fgets`,
`Eof`), holds the next `BeginTrim` back until the line before it is dealt with,
and adds what happens to a trimmed line: `SkipComment`, `SplitArgs`
(`cssplitargs`), `Hang` (the same with a quote, which it never leaves),
`SkipBlank`, `SetOption` and `BadLine` (an ERROR, which exits). `g_conf` is a
function of the directives.

### List and Start

In `List` a node is a `next` and a `prev` in a memory, and an operation makes
the assignments of `list.h` in their order; `Walk` follows `next` as
`list_for_each_entry_safe` does. Nothing there knows that lists are sequences.

| actions | code |
|---|---|
| `OpenConfig`, `LoadConfig` | `initApp` finds and opens its file; any step of `Config` |
| `module_init` | the three queues become empty lists, once the configuration is read |
| `dso_load`, `LoadFails` | the next module of `load_module`: found, its `init` called, which appends it to its queue; or not found, an ERROR, which exits |
| `Seeds`, `Run` | seeds are required; the rest of `initApp` |
| `SystemFails` | no file, no `fork`, no working directory: exit |

`dlopen` gives the same memory for the same file, so a module is one node
however often it is loaded. `Libraries` says which files can be loaded and which
queue their `init` chooses. `order` is a history variable: what was appended
where. `state` stays that of `Config`; `stage` is where `initApp` is.

## 3. Runs and bounds

Sizes are distinct states.

| run | shows | bounds |
|---|---|---|
| `crawler_safety` | `TypeOK`, `OneOwner`, `NoUseAfterFree`, `CounterExact` with every fault, both kinds of `++`, both log settings | 3 tasks, up to 2 seeds, limits 1 and 2; about 850,000 |
| `crawler_live` | `JobsBounded`, `TasksBounded`, `OurlHasTaker`, and `CrawlEnds` under fairness, with both kinds of `++`, without faults | 4 tasks that come to exist in one order, 3 with split updates, limits 1 and 2; about 507,000 |
| `crawler_limit`, `crawler_exit`, `crawler_counter` | violations, see below | 3 tasks, no faults |
| `bloom` | `TypeOK`, `AnswerExact`, `TableExact`, `Refines` | 2 threads, 2 urls, 2 hash values, a table of 2 words of 2 bits, all 625 families of hash functions; about 730,000 |
| `hashmap` | `WellFormed`, `IsDictionary` | 5 keys, 2 values, smallest list 2; about 36,000 |
| `hashmap_hosts` | a violation, see below | the same |
| `frontier` | `TypeOK`, `LinkQueuedOnce`, `LevelsChain`, `Complete`, `TargetMeansLink`, `FilesApart` | 2 jobs, five webs of up to four pages, `MAX_LINK_LEN` 20; about 138,000 |
| `frontier_depth` | a violation, see below | the same |
| `response` | `TypeOK`, `ChunksAgree`, `DeathCauses`, `FilterHolds`, `FileWhole` | 92 answers, cut off anywhere, reads of up to 7 pieces, a buffer of 13, four sets of modules; about 30,000 |
| `start` | `TypeOK`, `RoomKept`, `SlotFree`, `LinesKept`, `ConfExact`, `WalkExact`, `Linked`, `Starts` | 1551 files, reads of 5, 2 places for tokens at first, preallocation up to 6, five modules; about 57,000 |

Why they are enough. The races of the crawler need two threads in
`attach_epoll_task` or one there and one in `end_thread`, with one element in a
queue: three tasks give that, with a third to be published meanwhile. Limits 1
and 2 are the two cases of `Starts`; with limit 1 the number of jobs reaches 3
(a transiently negative counter makes two slots look free), so the run about the
bound has a fourth task that could break it; `JobsBounded` is proved for every
limit anyway. Tasks are interchangeable, so the liveness run, where symmetry
would be unsound, lets them come to exist in the order of their names instead.
It has three tasks where `++` and `--` may overlap (`FewerIfSplit`): one job is
enough to lose an update, two to lose it either way.
One hash value beyond `LIMIT` exercises the `%`; two hash values
may coincide or not; a url may be covered by itself or by another. The smallest
list is 8 in the code and 2 here: five keys then grow it twice, shrink it, fill
a chain with more than two nodes (where `resetHashMap` reads freed memory) and
let a shrink merge two keys that begin alike.

The webs of `frontier` hold one situation each: a ring of pages whose links
differ in scheme, slash and spaces; two pages with the same new links in
different orders, read at once; ports, hosts that begin with "http" and paths
that share a file; a chain of pages; two hosts, one with an underscore in its
name, whose pages share a file, and a link that is a bare "https://". So each
reason for which `TargetMeansLink` calls a link misread (a port, "//", a host
that begins with "http") occurs, as do links read rightly. The longest url that passes
`MAX_LINK_LEN` and one that does not both occur. The answers of `response`
combine three status lines, six kinds of header, five bodies; a read of seven
pieces takes the empty line whole, in part, or with the header and the body
around it, and thirteen is just less than the longest answer needs. The files of
`start` are all those of four characters of five kinds and all pairs of 24
lines: with reads of 5 lines arrive in several chunks, `CS_MAX_PREALLOC` is
passed in both ways, the array of tokens is doubled; every kind of directive,
repeated, spelled differently, malformed, in a comment or with a quote occurs.
Some 60 more load up to five modules in any order: one twice in a row, at the
end or not, one again after one or two others, into one queue or two, one that
does not exist, and without a `module_path`.

Bounds that cap something: `Urls` (tasks that ever exist), `MaxSeeds`, `Keys`,
`MinSize`, `MaxFile`, `Sites`, `Streams`, `Files`; `READ_MAX`, `HTML_MAXLEN`,
`MAX_LINK_LEN` and `CONFIGLINE_MAX` are constants of the code made small.
`JobLimits` excludes 0 and less because `epoll_create` then fails and
`init_epoll` exits. `CHECK_DEADLOCK` is on for the crawler, the bloom filter and
the hash map: `Stopped` and `Dead` are the only ways for them to stop.
`Frontier`, `Response` and `Start` end when the web, the answer or the file
does; that `Start` ends where it should is a property (`Starts`), that
`Frontier` has finished when it stops is `Complete`, and what `Response` has
when it ends is in `ChunksAgree`, `DeathCauses` and `FileWhole`.

The invariants that speak about `rmw = "atomic"` do so because overlapping `++`
and `--` makes them false (`crawler_counter`): they say what is right about the
rest of the protocol. Both runs of the crawler have both kinds of `++`, so every
other property, `CrawlEnds` too, is checked with lost updates.

### Fairness

`Fairness` is used by `crawler_live`:

* weak fairness of urlparser, of each receiver thread, and of main's own
  polling: a thread that stays able to run is scheduled. A thread waiting for
  `bufs_mutex` gets it in the checked instances because urlparser's critical
  section ends when its list is empty and then waits;
* strong fairness of `Handover`, main taking a readable socket: main is away
  from `epoll_wait` after each timeout, but a readable socket makes
  `epoll_wait` return it rather than time out. It contains the assumption that a
  server which accepted a request answers or closes. The code has no timeout for
  one that does not: then main polls for ever;
* nothing of spurious wakeups, which would hide the lost signal.

`CrawlEnds` says that the process leaves its main loop or dies, with three
exceptions, and that there is no fourth. All three are real:

* the urlparser is stranded in `pthread_cond_wait` with Surls queued: its signal
  was lost or never sent (`url.c:64`, `url.c:153`);
* `pop_queue` unlinked a list head (`url.c:75`);
* an update of `g_cur_thread_num` was lost and the counter stays wrong. One job
  is enough: urlparser loads 0, the job it registered is received and its
  `end_thread` stores -1, urlparser stores 1. Nothing is queued, nothing runs,
  and main waits for the counter to fall. A counter left below 0 is no better:
  urlparser's test of `== 0` then starts nothing.

TLC refutes the property without any one of the three. What it still excludes is
a lock that is not released, a queued Url nobody starts, and a job that is
neither received nor counted out.

`StartSpec` has weak fairness of its next step: initApp is one thread that
nothing blocks. `Starts` says that it reaches the crawl or exits unless a quote
hangs it.

## 4. Disagreements found

| run | what the code does | what the repository says |
|---|---|---|
| `crawler_limit` | urlparser and `end_thread` each start a job for the same free slot: two jobs with `max_job_num = 1`, no fault needed | `config.h:30`: largest number of jobs |
| `crawler_exit` | main exits while a thread is connecting the next task: that task is in no queue and not counted | `epoll.c:153`: "Task done!" |
| `crawler_counter` | `g_cur_thread_num++` in urlparser is not under `gctn_lock`: an update is lost, the counter is wrong for ever | `threads.c:10`: the lock protects the counter |
| `hashmap_hosts` | keys that share four bytes and a bucket are one key: a host is given another's address | `hashmap.h:61`: whether keys are equal |
| `frontier_depth` | links are queued at every level: maxdepth registers in `modules_pre_surl`, which nothing iterates (`url.c:317` queues without it) | `maxdepth.c:10`: a Surl deeper than `max_depth` is rejected; the shipped `spider.conf:9` and `:15` set it and load the module |

Seen while modelling, without a statement of the repository against them:

* a link from the root ("/x") goes to the page's domain at port 80, whatever
  port the page came from, and "//cdn.com/x" goes to path "/cdn.com/x" of the
  same host (`url.c:365`). `TargetMeansLink` says exactly which links are misread
  (`Misread`), and that all other links it speaks of are read rightly;
* "remove http(s)://" (`url.c:239`) is not what the code below it does: seven or
  eight characters are cut off whatever begins with "http" and is longer than
  seven, so also off a host such as "httpd.io" in front of a link from the root.
  It is the third reason of `Misread`: the property says that such a link is
  always asked as another url than it means. It says nothing of a bare "http://",
  which is left as it is, and of "//" on such a host, where cutting can undo the
  joining by chance;
* the error that `config.c:104` has for unbalanced quotes is never printed,
  because `cssplitargs` does not come back from a quote;
* seeds are not shown to `iscrawled`, so a page that links back to one has it
  fetched again, once;
* two pages whose paths differ in "/" against "_", or whose ports differ, are
  saved to one file; so are pages of different hosts if one has an underscore in
  its name ("a_i/p" and "a/i/p"), which DNS does not allow in host names:
  `FilesApart` leaves those hosts out (`ProperHost`);
* a value in spider.conf cannot contain "="; an option without a value, such as
  "seeds=", makes the spider exit; any quote makes it hang;
* a module loaded twice is appended to an intrusive list twice. If it was the
  last in its queue it becomes its own successor, and the first page hangs its
  receiver in the loop over the queue, unless another module is loaded behind
  it; otherwise the modules loaded in between are never called (`WalkExact`);
* a NUL in a page ends it for `extract_url`; one that arrives with the header
  moves less of the body than follows it.

PROJECT.json lists the hazards, each at its line, with the property that covers
it or a note on why none does.

## 5. Proofs

All are checked by tlapm with Z3, Zenon and LS4; nothing is assumed but the
named assumptions on the constants (`CrawlerAssumption`, `BloomAssumption`,
`HashMapAssumption`, `CStringAssumption`, `ConfigAssumption`,
`FilesAssumption`, `DirectivesAssumption`, `StartAssumption`,
`FrontierAssumption`, `ResponseAssumption`, `HeaderAssumption` and
`LiteralsAssumption`), which TLC evaluates in the runs, and, in the statements of
the eight theorems that need it, `StringsAreSequences`.

**Foundations.** The library's induction theorems take a predicate as a
parameter, which the installed provers cannot instantiate. So `Least` says that
a set of numbers that is not empty has a least element, and `Upward` and
`Downward` are induction over a *set* of numbers. `Recursion` and
`LeapingRecursion` say that a function defined by recursion (to the number
before, or to any number further on) exists and satisfies its equation: without
them `f[n \in S] == ...` is a `CHOOSE` of which nothing is known.

In TLA+ a string is a sequence of characters; tlapm's provers take it for an
atom. `StringsAreSequences` says what TLA+ says (`\E C : STRING = Seq(C)`), and is
a hypothesis of the theorems about text; what the handful of literals consist of
is `LiteralsAssumption` of `UrlText` and `DirectivesAssumption` of `Config`, which
TLC computes. The lemmas on parts, places, joining and comparing of strings
follow from it (`PartIs`, `PartOfPart` and others).

**CrawlerProofs.** Any finite or infinite set of tasks, any limits, any faults.

* `TypeCorrect`: `Spec => []TypeOK`. Not inductive alone: registering adds the
  task in hand to `epfd` (so `HandFull`: there is one) and a return takes one
  off `todo` (so `TodoPositive`: exactly while in `attach_epoll_task`).
* `Ownership` and `NoneFreed`: `OneOwner` and `NoUseAfterFree`. The
  strengthening is `OwnerInv`: queues, hands, epoll set and started threads are
  pairwise disjoint, no hand and no queue has a task twice (`NextOwner`), and
  what they hold is allocated (`Allocated`). Started threads, not just reading
  ones, are needed: otherwise a task could come back after its thread freed it.
  Steps that move nothing are dealt with by one lemma, `OwnerQuiet`.
* `Bounded`: `JobsBounded`, the counter plus the calls decided on stay within
  `max_job_num + 1` (3 when the limit is 1). The invariant is `JobInv`: one
  holder of `gctn_lock` (`LockInv`), and `LeftInv`, which says how far urlparser
  can get between the decrement in `end_thread` and the use of its result: it
  finishes the one call it was committed to, or commits to one when it reads 0.

That jobs are counted right:

* `Counter` and `TasksCapped`: `CounterExact` and `TasksBounded`. Steps are
  divided into those that change neither jobs nor counter (`Calm`) and the few
  that do (`Restless`); for each of these the sets in `CounterKept` change by
  known elements, and the invariant `CountInv` keeps them finite. That a dropped
  task is not counted again needs `Gone`: it is in no queue, no hand and not in
  epoll, and nothing brings it back.
* `TakerStays`: `OurlHasTaker` under `Lossless`, which its statement shows: no
  fault of connecting, registering, hanging up or creating a thread (lookups
  and headers may fail). The invariant `TakerInv` adds that what
  `end_thread` has registered is still registered while it holds `gctn_lock`
  (`HandKept`), and that between `--` and the decision the value it read is at
  most the number of jobs (`LeftLow`): if it starts none, one exists.

**BloomFilterProofs.** Any threads, urls, hash functions and table size.

* `BloomTypes`, `Exact`, `TableKept`: `TypeOK`, `AnswerExact`, `TableExact`,
  from `BloomInv`: one thread between lock and unlock, the table is the bits of
  the accepted urls and those the search has passed, and `res = i` exactly while
  all passed bits belong to accepted urls. That is why setting while testing
  does not falsify the count when hash values of one url coincide.
* `Implements`: `Refines`. Unlocking maps to `AnswerNew` or `AnswerSeen`,
  entering to `Ask`, all else stutters.

**HashMapProofs.** Any keys and values, any hash function, any prefixes, any
`MinSize`.

* `StaysWellFormed`: `WellFormed`. The invariant `HInv` is `Kept(hashMap)`: a
  map on `0 .. listSize - 1` of chains, each entry in the bucket of its hash, no
  two entries of a chain equal (`Chain`), and `size` the number of entries
  (`IsMap`). Below it are lemmas on one chain (`ReplaceChain`, `InsertSecond`,
  `LongerChain`, `ShorterChain`), above them lemmas on the map (`InsertMap`,
  `WithoutMap`, `EmptyMap`). Resetting puts the entries of all buckets one
  after the other into an empty map, a fold: `FlatIs` and `JoinedIs` say what
  the entries of all buckets in a row are, and `PutsAre` is proved for every
  beginning of that row with `Upward`: what is in the map is what was put
  (`After`), because no two of them are equal (`Consistent`).
* `BehavesAsDictionary`: `IsDictionary`, the refinement. `DictOf` is the
  abstract map; `PutDict`, `RemoveDict` and `GetDict` say what an operation does
  to it, and `ResetMap` that resetting changes nothing of it.

**ConfigProofs**, about `CString`. Any file, chunk size, number of places and
preallocation.

* `StringTypes`, `Rooms`, `Slots`: `TypeOK`, `RoomKept`, `SlotFree`. `Sizes`,
  the conjunction of the three, is inductive with the pointers of `Shape`: that
  `free` stays a natural number needs `RoomKept`, and that a trimmed length is
  at most the old one needs where csstrim's pointers are.
* `Lines`: `LinesKept`. `Shape` says at each point what has been seen: tokens
  lie in the file without a newline (`InFile`) and with one between two of them
  (`Neighbours`), no newline since `start` (`Splitting`), only blanks passed by
  the pointers (`Trimming`).

About `Config`: any files, and again any chunks and sizes.

* `ConfigReads`: `ConfigSpec` implements the specification of `CString`: every
  step of `StringStep` is one of its steps, every other stutters.
* `ConfigLines`, `ConfigRooms`: `LinesKept` and `RoomKept` of `ConfigSpec`,
  which follow.
* `ConfigExact`: `ConfExact`, from `StringsAreSequences`. The code finds a line by
  growing, splitting and trimming a string in place and reads it with a loop;
  the reference looks at the file. Three things bring them together. About one
  line: `ArgsIs` unfolds `cssplitargs`, `ArgsPair` says which lines it makes two
  arguments of and `ValuesPair` that the reference gives a directive the second
  just then; both are the same of a line and of its trimmed form (`Trims`,
  `SaysIs`, `ValuesTrim`). About the file: the tokens are its lines in their
  order, each the line of the file without the blanks around it (`FileLined`,
  `LinesNumbered`), because `Shape` and `Tight` say so of the ranges (`Tight`: no
  trimmed token begins with a blank). About the options: `Answers` is
  `ConfExact` of the lines dealt with so far, kept by a line that says nothing
  (`AnswersSame`) and by one that sets an option (`AnswersMore`), since no two
  directives are equal to `strcasecmp` (`OneDirective`). `Underway` says what is
  at hand between two lines: the text is a beginning of the file (`SoFar`), at
  most one trimmed line is not dealt with (`Pacing`), and `argv` or the reason
  to stop is of that line (`Handling`). `Exact`, all of these together with
  `Sizes`, is inductive. The first attempt failed on a form feed before a "#":
  `csstrim` leaves it, so the line is no comment, and the reference now says so.

**StartProofs.** Any libraries, any files.

* `StartReads`, `StartLines`, `StartConf`: initApp implements the reading of
  `Config`, hence of `CString`, and what was proved of them holds of it:
  `LinesKept` and, from `StringsAreSequences`, `ConfExact`.
* `Rings`: `Linked`. The lemma `AddTail` says what the four assignments do when
  the node is new, and what survives when it is not. The invariant `LinkInv`
  adds that the head's `prev` is always the module loaded last, even in a broken
  queue (`Tails`), and that each module is in the queue its library names, so
  that no two queues share a node (`OwnQueue`): a broken queue breaks no other.
* `Walks`: `WalkExact`, what a walk over a queue calls, broken or not. `Chains`,
  a part of `LinkInv`, says that the module at its last place in the order of
  loading points to the module behind that place, and the last to the head
  unless it was appended when it was already last (`Stuck`). `WalkFollows`
  unfolds the walk and `CalledIs` the reference; both go from place to place
  (`ChainLeaps`), so they agree (`WalkReaches`) or the walk never ends
  (`StuckWalks`). A walk that is not stuck ends within the bound because its
  places grow and there are no more last places than nodes; hence
  `StartAssumption` has that `Libraries` is finite.

**FrontierProofs.** Any web, any number of jobs, any lengths.

* `OnceQueued`, `LevelsCount`, `NothingLost`: `LinkQueuedOnce`, `LevelsChain`,
  `Complete`, all from one inductive invariant `IInv`. `OnceInv`: what was ever
  queued at a level above 0 was accepted by `iscrawled`, and each job about to
  push owns its url, which no other job and no queue has; that is what makes
  two jobs with one link safe. `ChainInv`: a working job's page was received
  and its remaining links are links of that page. `FollowInv`: each link of a
  received page is dropped, misjudged, queued, about to be pushed by some job,
  or still ahead of the job that reads the page. `Complete` alone is not
  inductive: it says nothing before the end. Of the text functions nothing is
  used but that they are functions.

About the text of urls, from `StringsAreSequences`:

* `TypeCorrect`: `TypeOK`. What goes from page to seed to url is a string again:
  for each text function of `url.c` a lemma says which cut or join it is
  (`NormalIs`, `AttachIs`, `TargetIs`, `OurlIs`, `FileNameIs`), and `TextInv`
  says of everything queued, fetched, received and asked about that it is made
  of strings.
* `LinksMeant`: `TargetMeansLink`, both ways. `AbsoluteMeans` is for links with a
  scheme, `RootMeans` for those from the root. That these are right where they
  are not misread needs that a page's host has no slash and no colon
  (`HostsPlain`, which `surl2Ourl` establishes: `OurlPlain`), so that
  `surl2Ourl` finds it again in front of the link (`HostFirst`). That misread
  links are always wrong is an argument about the port, or about lengths: where
  a scheme that was none is cut off, what is left is too short for a url of the
  host (`CutShort`, `OurlFits`), and where "//" names a server the url is too
  long for what follows it (`KeptForms`).
* `FilesDiffer`: `FilesApart`. `url2fn` keeps every character but the slash
  (`FileNameIs`, by `Recursion` and `Upward`), so the first underscore of a file
  name ends a host that has none (`HostNoLonger`), and what follows is the path
  (`NamesApart`). The proof failed until `ProperHost` was a premise: that is how
  the hosts with an underscore were met.

**ResponseProofs.** Any answers, any read and buffer size.

* `ChunkingIsInvisible`: `ChunksAgree`. The invariant `ReadInv` says what `body`
  and `header` are as functions of what has arrived; the step that finds the
  empty line needs `HeadStable`: the first empty line stays the first whatever
  arrives behind it.
* `FilesWhole`: `FileWhole`. `SaveInv`: while no write was short, the file is
  the body without its last `left` pieces.

About parsed headers, from `StringsAreSequences`, by which the lemma `HeadersParse`
shows that a complete header parses to a number and a text, never to `Null`
(its lines are joined by `StringOf`, their parts are `SubSeq`s, and `atoi` yields
an integer, `AtoiInt` of `Foundations`):

* `Deaths`: `DeathCauses`. A step that has found the end of the header parses it.
* `TypeCorrect` and `FilterPassed`: `TypeOK` and `FilterHolds`, from `TypeInv`
  and `FilterInv`. `headerfilter` is asked once, when the header is complete;
  by `HeadStable` nothing that arrives later changes what it was asked about.

**Model-checked only.** `CrawlEnds` and `Starts`: liveness under fairness is
beyond tlapm. The properties of the runs that expect a violation are false.

## 6. What is not modelled

* Hash functions: any function stands for them.
* Of `list.h` what nobody calls (replace, move, splice, reverse walks). The task
  queues and the options' lists are sequences, not pointers: their nodes are
  allocated for one list. `log.h`: an ERROR line exits; those on modelled paths
  of the crawler come before the first thread exists, except a failed `regcomp`
  of a constant pattern and `fcntl` on a fresh socket.
* The options of `main`, `chdir`, `dup2`, what `dlopen` does, the text of log
  lines and of requests. `cstolower`, which is `tolower` per character.
* The regular expression of `extract_url`: the links a page contains are its
  abstraction.
* `defaultClear`: nothing calls it, and it frees pointers into the middle of an
  allocation.
* Memory that runs out, other than where the code tests for it; leaks. The
  four-byte over-read of short hosts in `defaultEqual`.
* A server that never answers (section 3). The body of an answer whose header was
  rejected: nobody reads it any more.
* The bytes behind the end of `body`: an overrun is "undefined" at once.

## 7. Plan

Done, in this order: `Crawler`, `BloomFilter`, `HashMap`, `CString`, `Frontier`
with `UrlText`, `Config`, `Response`, `List` with `Start`. Left:

1. `ourl_queue` and `surl_queue` as pointers of `List`, with the unlocked test
   of `pop_queue` as the way to break them, implementing the sequences of
   `Crawler`;
2. `Response` composed with `Frontier` through the text it searches.
