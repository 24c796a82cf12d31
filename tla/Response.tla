------------------------------ MODULE Response ------------------------------
(***************************************************************************)
(* recv_response, from the first read to the freed Response, with          *)
(* parse_header, the module headerfilter in header_postcheck and the       *)
(* module savehtml behind it.  What arrives is a sequence of pieces: CR,   *)
(* LF, NUL, and strings without any of them.  The server may stop          *)
(* anywhere, and read returns as much as it likes.  The end of the receiver*)
(* thread, end_thread, is in Crawler, what extract_url does in Frontier.   *)
(***************************************************************************)
EXTENDS Text

CONSTANTS
  Streams,       \* what servers answer
  Nul,
  Null,
  READ_MAX,      \* the most one read returns: 1024
  HTML_MAXLEN,
  Modules,       \* what spider.conf may load: sets of "headerfilter", "savehtml"
  accept_types

CR == "\r"
LF == "\n"

ASSUME ResponseAssumption ==
  /\ READ_MAX \in Nat \ {0} /\ HTML_MAXLEN \in Nat
  /\ \A s \in Streams : s \in Seq(STRING \cup {Nul})
  /\ Modules \subseteq SUBSET {"headerfilter", "savehtml"}

VARIABLES
  modules, stream,    \* never changed
  got,                \* how much of the stream has been read
  pc,
  body, trunc_head, header,
  searched,           \* the text extract_url was given, or Null
  fd, file, left,     \* savehtml: is the file open, what is in it, or Null
  short               \* history: a write was short

readVars == <<got, body, trunc_head, header>>
saveVars == <<fd, file, left, short>>
vars == <<modules, stream, pc, readVars, searched, saveVars>>

Arrived == SubSeq(stream, 1, got)

(* The text of a buffer ends at the first NUL. *)
CText(s) ==
  LET nuls == {k \in DOMAIN s : s[k] = Nul}
  IN  IF nuls = {} THEN s ELSE SubSeq(s, 1, Min(nuls) - 1)

LineEnds(s) == {k \in 1 .. (Len(s) - 1) : s[k] = CR /\ s[k + 1] = LF}

(* Where strstr finds "\r\n\r\n". *)
HeadEnds(s) == {k \in LineEnds(s) : k + 2 \in LineEnds(s)}

(* The header's last line ends where the empty line begins. *)
HeadOf(s) == SubSeq(s, 1, Min(HeadEnds(CText(s))) + 1)
AfterHead(s) == SubSeq(s, Min(HeadEnds(CText(s))) + 4, Len(s))

-----------------------------------------------------------------------------
(* parse_header. *)
Pieces(line, sep) == IF line = "" THEN 0 ELSE Cardinality(Places(line, sep)) + 1

Status(line) ==
  IF Pieces(line, " ") = 3
  THEN LET spaces == Places(line, " ")
       IN  atoi(SubSeq(line, Min(spaces) + 1, Max(spaces) - 1))
  ELSE 600

IsType(line) ==
  /\ Pieces(line, ":") = 2
  /\ strcasecmp(SubSeq(line, 1, Min(Places(line, ":")) - 1), "content-type")

(* The blanks around the type are kept: nobody tells them apart. *)
TypeIn(line) == From(line, Min(Places(line, ":")))

parse_header(text) ==
  LET ends == LineEnds(text)
      line(e) == StringOf(SubSeq(text, Max({d + 2 : d \in {c \in ends : c < e}} \cup {1}), e - 1))
      types == {e \in ends \ {Min(ends)} : IsType(line(e))}
  IN  [status_code |-> Status(line(Min(ends))),
       content_type |-> IF types = {} THEN Null ELSE TypeIn(line(Max(types)))]

Bytes == Seq(STRING \cup {Nul})
Headers == [status_code : Int, content_type : STRING \cup {Null}]

ASSUME HeaderAssumption == Null \notin Headers /\ "" \in STRING

(* Mutant: 300 passes. *)
headerfilter300(h) ==
  /\ h.status_code >= 200 /\ h.status_code <= 300
  /\ h.content_type # Null =>
       \E t \in accept_types \cup {"text/html"} : strstr(h.content_type, t)

headerfilter(h) ==
  /\ h.status_code >= 200 /\ h.status_code < 300
  /\ h.content_type # Null =>
       \E t \in accept_types \cup {"text/html"} : strstr(h.content_type, t)

header_postcheck(h) == "headerfilter" \in modules => headerfilter(h)

-----------------------------------------------------------------------------
Init ==
  /\ modules \in Modules /\ stream \in Streams
  /\ got = 0
  /\ pc = "read"
  /\ body = <<>> /\ trunc_head = FALSE /\ header = Null
  /\ searched = Null
  /\ fd = FALSE /\ file = Null /\ left = 0 /\ short = FALSE

(* A read of n pieces. *)
Read(n) ==
  /\ pc = "read" /\ got + n <= Len(stream)
  /\ got' = got + n
  /\ UNCHANGED <<modules, stream, searched, saveVars>>

With(n) == body \o SubSeq(stream, got + 1, got + n)

(* The bytes or their terminator go beyond resp->body: anything may happen.*)
ReadOverruns(n) ==
  /\ Read(n)
  /\ Len(With(n)) >= HTML_MAXLEN
  /\ pc' = "undefined"
  /\ UNCHANGED <<body, trunc_head, header>>

ReadMore(n) ==
  /\ Read(n)
  /\ Len(With(n)) < HTML_MAXLEN
  /\ trunc_head \/ HeadEnds(CText(With(n))) = {}
  /\ body' = With(n)
  /\ UNCHANGED <<pc, trunc_head, header>>

EndsHeader(n) ==
  /\ Read(n)
  /\ Len(With(n)) < HTML_MAXLEN
  /\ ~trunc_head /\ HeadEnds(CText(With(n))) # {}

(* Mutant: len keeps counting the header. *)
ReadHeaderKeepsLen(n) ==
  /\ EndsHeader(n)
  /\ header' = parse_header(HeadOf(With(n)))
  /\ header_postcheck(header')
  /\ trunc_head' = TRUE
  /\ LET text == CText(AfterHead(With(n)))
     IN  body' = text \o SubSeq(With(n), Len(text) + 1, Len(With(n)))
  /\ UNCHANGED pc

(* What is behind the header moves to the front, up to a NUL. *)
ReadHeader(n) ==
  /\ EndsHeader(n)
  /\ header' = parse_header(HeadOf(With(n)))
  /\ header_postcheck(header')
  /\ trunc_head' = TRUE
  /\ body' = CText(AfterHead(With(n)))
  /\ UNCHANGED pc

(* Mutant: the rejected header is not kept. *)
ReadRejectedForgets(n) ==
  /\ EndsHeader(n)
  /\ ~header_postcheck(parse_header(HeadOf(With(n))))
  /\ pc' = "leave"
  /\ UNCHANGED <<body, trunc_head, header>>

(* What this read put behind the header is not kept: nobody reads the body *)
(* of a rejected answer.                                                   *)
ReadRejected(n) ==
  /\ EndsHeader(n)
  /\ header' = parse_header(HeadOf(With(n)))
  /\ ~header_postcheck(header')
  /\ pc' = "leave"
  /\ UNCHANGED <<body, trunc_head>>

ReadFails ==
  /\ pc = "read"
  /\ pc' = "leave"
  /\ UNCHANGED <<modules, stream, readVars, searched, saveVars>>

(* read returns 0: links are looked for in what there is, be it a header   *)
(* without its end, and the modules of post_html get the page.             *)
Eof ==
  /\ pc = "read"
  /\ searched' = IF body = <<>> THEN Null ELSE CText(body)
  /\ pc' = IF "savehtml" \in modules THEN "save" ELSE "leave"
  /\ UNCHANGED <<modules, stream, readVars, saveVars>>

-----------------------------------------------------------------------------
(* savehtml reads the content type, which there may not be. *)
HasType == IF header = Null THEN FALSE ELSE header.content_type # Null

SaveCrashes ==
  /\ pc = "save" /\ ~HasType
  /\ pc' = "crashed"
  /\ UNCHANGED <<modules, stream, readVars, searched, saveVars>>

(* Another type, or the file cannot be opened. *)
NotSaved ==
  /\ pc = "save" /\ HasType
  /\ pc' = "leave"
  /\ UNCHANGED <<modules, stream, readVars, searched, saveVars>>

(* Mutant: the body is taken to be as long as all that was read. *)
OpenAllRead ==
  /\ pc = "save" /\ HasType
  /\ strstr(header.content_type, "text/html")
  /\ fd' = TRUE /\ file' = <<>> /\ left' = got
  /\ pc' = "write"
  /\ UNCHANGED <<modules, stream, readVars, searched, short>>

Open ==
  /\ pc = "save" /\ HasType
  /\ strstr(header.content_type, "text/html")
  /\ fd' = TRUE /\ file' = <<>> /\ left' = Len(body)
  /\ pc' = "write"
  /\ UNCHANGED <<modules, stream, readVars, searched, short>>

(* Each write begins at the start of the body. *)
Write(n) ==
  /\ pc = "write" /\ n <= left
  /\ file' = file \o SubSeq(body, 1, n)
  /\ left' = left - n
  /\ short' = (short \/ n < left)
  /\ UNCHANGED <<modules, stream, pc, readVars, searched, fd>>

WriteFails ==
  /\ pc = "write" /\ left > 0
  /\ fd' = FALSE /\ file' = Null
  /\ pc' = "leave"
  /\ UNCHANGED <<modules, stream, readVars, searched, left, short>>

(* Mutant: the last byte is left out. *)
CloseEarly ==
  /\ pc = "write" /\ left <= 1
  /\ fd' = FALSE
  /\ pc' = "leave"
  /\ UNCHANGED <<modules, stream, readVars, searched, file, left, short>>

Close ==
  /\ pc = "write" /\ left = 0
  /\ fd' = FALSE
  /\ pc' = "leave"
  /\ UNCHANGED <<modules, stream, readVars, searched, file, left, short>>

(* leave: the header's fields are freed, header or not. *)
Leave ==
  /\ pc = "leave"
  /\ pc' = IF header = Null THEN "crashed" ELSE "end"
  /\ UNCHANGED <<modules, stream, readVars, searched, saveVars>>

Next ==
  \/ \E n \in 1 .. READ_MAX :
       ReadOverruns(n) \/ ReadMore(n) \/ ReadHeader(n) \/ ReadRejected(n)
  \/ ReadFails \/ Eof
  \/ SaveCrashes \/ NotSaved \/ Open
  \/ \E n \in 1 .. HTML_MAXLEN : Write(n)
  \/ WriteFails \/ Close
  \/ Leave

Spec == Init /\ [][Next]_vars

-----------------------------------------------------------------------------
TypeOK ==
  /\ modules \in Modules /\ stream \in Streams
  /\ got \in 0 .. Len(stream)
  /\ pc \in {"read", "leave", "save", "write", "end", "crashed", "undefined"}
  /\ body \in Bytes /\ trunc_head \in BOOLEAN /\ header \in Headers \cup {Null}
  /\ searched \in Bytes \cup {Null}
  /\ fd \in BOOLEAN /\ file \in Bytes \cup {Null}
  /\ left \in 0 .. Len(body) /\ short \in BOOLEAN

(* However the answer is cut into reads, also within the empty line behind *)
(* the header: while no NUL has arrived, the header is found when its last *)
(* byte is there, it is the first one, and the buffer holds what the       *)
(* server sent behind it, to the byte.                                     *)
ChunksAgree ==
  pc \notin {"undefined", "crashed"} /\ Nul \notin Range(Arrived) =>
    IF HeadEnds(Arrived) = {}
    THEN header = Null /\ ~trunc_head /\ body = Arrived
    ELSE /\ header = parse_header(HeadOf(Arrived))
         /\ trunc_head => body = AfterHead(Arrived)
         /\ pc = "read" => trunc_head

(* The process dies of an answer only if its header is not complete in     *)
(* front of any NUL, or names no type and savehtml is loaded; and the      *)
(* buffer is overrun only by an answer longer than the buffer.             *)
DeathCauses ==
  /\ pc = "crashed" =>
       \/ HeadEnds(CText(Arrived)) = {}
       \/ "savehtml" \in modules /\ header.content_type = Null
  /\ pc = "undefined" => got >= HTML_MAXLEN

Wanted(h) ==
  /\ h.status_code \in 200 .. 299
  /\ h.content_type = Null \/ \E t \in accept_types \cup {"text/html"} : strstr(h.content_type, t)

(* With headerfilter loaded, nothing that belongs to an answer with a bad  *)
(* status or an unwanted type is searched for links or written to disk,    *)
(* unless the answer ended before its header.                              *)
FilterHolds ==
  "headerfilter" \in modules /\ (searched # Null \/ file # Null) =>
    HeadEnds(CText(Arrived)) = {} \/ Wanted(parse_header(HeadOf(Arrived)))

(* A file that was closed is as long as the body; it is the body the       *)
(* server sent when it contained no NUL and no write was short.  A failed  *)
(* write leaves no file.                                                   *)
FileWhole ==
  ~fd /\ file # Null =>
    /\ Len(file) = Len(body)
    /\ ~short /\ Nul \notin Range(Arrived) => file = AfterHead(Arrived)
=============================================================================
