------------------------------- MODULE Config -------------------------------
(***************************************************************************)
(* loadConfig and loadConfigFromString: CString reads the file and trims   *)
(* one line after the other, and each trimmed line is split into arguments *)
(* (cssplitargs) and becomes an option of g_conf before the next one is    *)
(* trimmed.  An error is logged at SPIDER_LEVEL_ERROR, which exits.        *)
(***************************************************************************)
EXTENDS CString, Text

CONSTANTS
  Files,   \* the configuration files, as strings
  Null

Chopped(s) == [k \in 1 .. Len(s) |-> Char(s, k)]

ASSUME ConfigAssumption ==
  \A f \in Files : Chopped(f) \in Seq(Chars) /\ Len(Chopped(f)) <= MaxFile

ASSUME FilesAssumption ==
  Files \subseteq STRING /\ Sep = "\n" /\ Blanks = {"\t", "\r", "\n"}

VARIABLES
  file,     \* never changed
  parsed,   \* lines dealt with
  argv,     \* the arguments of the next one, or Null
  g_conf,   \* by directive; modules and accept_types under theirs
  state     \* "on", "exit", or "hang" in cssplitargs

confVars == <<file, parsed, argv, g_conf, state>>

Numbers == {"max_job_num", "log_level", "max_depth", "stat_interval"}
Texts == {"logfile", "include_prefixes", "exclude_prefixes", "seeds", "module_path"}
Lists == {"load_module", "accept_types"}
Directives == Numbers \cup Texts \cup Lists \cup {"make_hostdir"}

INF == 2147483647

initConfig ==
  [d \in Directives |->
     CASE d = "max_job_num" -> 10
       [] d = "max_depth" -> INF
       [] d \in {"log_level", "stat_interval", "make_hostdir"} -> 0
       [] d \in Texts -> Null
       [] d \in Lists -> <<>>]

yesnotoi(s) ==
  CASE strcasecmp(s, "yes") -> 1 [] strcasecmp(s, "no") -> 0 [] OTHER -> 0 - 1

Value(d, v) ==
  CASE d \in Numbers -> atoi(v) [] d = "make_hostdir" -> yesnotoi(v) [] OTHER -> v

LineText(k) == StringOf(SubSeq(text, tokens[k].from + 1, tokens[k].to))

Stops == {"=", "\n", "\r", "\t"}
Quotes == {"\"", "'"}

(* No two directives are one to strcasecmp, and none holds a stop or a #.  *)
ASSUME DirectivesAssumption ==
  /\ Directives \cup Spaces \cup Stops \cup Quotes \cup {"", "#"} \subseteq STRING
  /\ \A c \in Spaces \cup Stops \cup Quotes \cup {"#"} : Len(c) = 1
  /\ Len("") = 0
  /\ \A d, e \in Directives : strcasecmp(d, e) => d = e
  /\ \A d \in Directives : Len(d) > 0 /\
       \A k \in 1 .. Len(d), c \in Stops \cup {"#"} : tolower(Char(d, k)) # tolower(c)

(* An argument begins behind the spaces and reaches to the next stop, so   *)
(* that it keeps the spaces at its end.                                    *)
cssplitargs(line) ==
  LET n == Len(line)
      begin(p) == Min({n + 1} \cup {k \in p .. n : Char(line, k) \notin Spaces})
      end(p) == Min({n + 1} \cup {k \in p .. n : Char(line, k) \in Stops})
      args[p \in 1 .. (n + 2)] ==
        LET b == begin(p)
            e == end(b)
        IN  IF b > n THEN <<>> ELSE <<SubSeq(line, b, e - 1)>> \o args[e + 1]
  IN  args[1]

-----------------------------------------------------------------------------
ConfigInit ==
  /\ Init
  /\ file \in Files
  /\ parsed = 0 /\ argv = Null
  /\ g_conf = initConfig
  /\ state = "on"

(* fgets: up to the newline or as much as the buffer holds.                *)
Fgets ==
  \E n \in 1 .. CONFIGLINE_MAX :
    LET from == Len(text) + 1
        to == Len(text) + n
        t == SubSeq(Chopped(file), from, to)
    IN  /\ to <= Len(Chopped(file))
        /\ \A k \in 1 .. (n - 1) : t[k] # Sep
        /\ n = CONFIGLINE_MAX \/ to = Len(Chopped(file)) \/ t[n] = Sep
        /\ Read(t)

Eof == Len(text) = Len(Chopped(file)) /\ BeginSplit

(* The steps of CString, a line being trimmed when the last one is parsed. *)
StringStep ==
  /\ state = "on"
  /\ \/ Fgets \/ Eof
     \/ SplitChar \/ SplitLast
     \/ parsed = i /\ BeginTrim
     \/ TrimLeft \/ TrimRight \/ TrimDone
     \/ parsed = i /\ Finish
  /\ UNCHANGED confVars

LineReady == state = "on" /\ pc = "lines" /\ parsed < i /\ argv = Null

Comment(line) == line = "" \/ IsPrefix("#", line)

Quoted(line) == \E q \in Quotes : Places(line, q) # {}

SkipComment ==
  /\ LineReady
  /\ Comment(LineText(i))
  /\ parsed' = i
  /\ UNCHANGED <<vars, file, argv, g_conf, state>>

(* Behind a quote cssplitargs stays in the argument for ever.              *)
Hang ==
  /\ LineReady
  /\ LET line == LineText(i) IN ~Comment(line) /\ Quoted(line)
  /\ state' = "hang"
  /\ UNCHANGED <<vars, file, parsed, argv, g_conf>>

SplitArgs ==
  /\ LineReady
  /\ LET line == LineText(i)
     IN  /\ ~Comment(line) /\ ~Quoted(line)
         /\ argv' = cssplitargs(line)
  /\ UNCHANGED <<vars, file, parsed, g_conf, state>>

LineSplit == state = "on" /\ argv # Null

SkipBlank ==
  /\ LineSplit
  /\ argv = <<>>
  /\ parsed' = i /\ argv' = Null
  /\ UNCHANGED <<vars, file, g_conf, state>>

(* Mutant: what follows the value is ignored. *)
SetsLoose(args) == Len(args) >= 2 /\ \E d \in Directives : strcasecmp(args[1], d)

(* The arguments that set an option. *)
Sets(args) == Len(args) = 2 /\ \E d \in Directives : strcasecmp(args[1], d)

SetOption ==
  /\ LineSplit
  /\ Sets(argv)
  /\ \E d \in Directives :
       /\ strcasecmp(argv[1], d)
       /\ g_conf' = [g_conf EXCEPT ![d] =
                       IF d \in Lists THEN Append(@, argv[2]) ELSE Value(d, argv[2])]
  /\ parsed' = i /\ argv' = Null
  /\ UNCHANGED <<vars, file, state>>

(* Another number of arguments than two, or an unknown directive.          *)
BadLine ==
  /\ LineSplit
  /\ argv # <<>> /\ ~Sets(argv)
  /\ state' = "exit"
  /\ UNCHANGED <<vars, file, parsed, argv, g_conf>>

ConfigNext ==
  StringStep \/ SkipComment \/ Hang \/ SplitArgs \/ SkipBlank \/ SetOption \/ BadLine

ConfigSpec ==
  ConfigInit /\ [][ConfigNext]_<<vars, confVars>> /\ WF_<<vars, confVars>>(ConfigNext)

-----------------------------------------------------------------------------
(* A reference for what a file says, read off the file itself.  A line     *)
(* begins at the start or behind a newline; an empty file has none.        *)
LineStarts ==
  IF file = "" THEN {} ELSE {0} \cup Places(file, Sep)

LineFrom(s) ==
  SubSeq(file, s + 1, Min({t - 1 : t \in {u \in LineStarts : u > s}} \cup {Len(file)}))

Number(s) == Cardinality({t \in LineStarts : t <= s})

AllSpaces(s) == \A k \in 1 .. Len(s) : Char(s, k) \in Spaces

Says(line) ==
  LET name == Min({Len(line) + 1} \cup {k \in 1 .. Len(line) : Char(line, k) \notin Spaces})
      blanks == \A k \in 1 .. (name - 1) : Char(line, k) \in Blanks
  IN  IF name > Len(line) \/ (Char(line, name) = "#" /\ blanks)
      THEN "nothing"
      ELSE IF Quoted(line) THEN "quote" ELSE "something"

(* The values a line gives a directive: at most one.  Spaces may surround  *)
(* the line and stand before the value; one stop may follow it.            *)
ValuesOf(line, d) ==
  LET n == Len(line)
      stop(k) == Char(line, k) \in Stops
      name == Min({n + 1} \cup {k \in 1 .. n : Char(line, k) \notin Spaces})
      sep == name + Len(d)
      value == Min({n + 1} \cup {k \in (sep + 1) .. n : Char(line, k) \notin Spaces})
  IN  IF value > n \/ ~strcasecmp(SubSeq(line, name, sep - 1), d) \/ ~stop(sep) THEN {}
      ELSE {SubSeq(line, value, e - 1) :
              e \in {k \in value .. (n + 1) :
                       /\ \A q \in value .. (k - 1) : ~stop(q)
                       /\ k <= n => stop(k) /\ AllSpaces(From(line, k))}}

(* The options are what the lines before the first bad one say, each the   *)
(* last value it is given and the modules and types in their order; the    *)
(* process exits at that line and no other, and hangs at a quote.          *)
ConfExact ==
  pc = "done" \/ state # "on" =>
    LET done == {s \in LineStarts : Number(s) <= parsed}
        sets(d) == {s \in done : ValuesOf(LineFrom(s), d) # {}}
        val(s, d) == CHOOSE v \in ValuesOf(LineFrom(s), d) : TRUE
        good(s) == \/ Says(LineFrom(s)) = "nothing"
                   \/ /\ Says(LineFrom(s)) = "something"
                      /\ \E d \in Directives : ValuesOf(LineFrom(s), d) # {}
    IN  /\ \A s \in done : good(s)
        /\ \A s \in LineStarts : Number(s) = parsed + 1 =>
             IF state = "hang" THEN Says(LineFrom(s)) = "quote"
             ELSE state = "exit" /\ Says(LineFrom(s)) = "something" /\ ~good(s)
        /\ \A d \in Directives \ Lists :
             g_conf[d] = IF sets(d) = {} THEN initConfig[d] ELSE Value(d, val(Max(sets(d)), d))
        /\ \A d \in Lists :
             /\ Len(g_conf[d]) = Cardinality(sets(d))
             /\ \A s \in sets(d) :
                  g_conf[d][Cardinality({t \in sets(d) : t <= s})] = val(s, d)
=============================================================================
