------------------------------------ MODULE Cgi --------------------------------
(***************************************************************************)
(* One exchange with git http-backend (routes/git.rs, cgi).  The handler   *)
(* starts the child, leaves its stdin to one task (the pump) and its       *)
(* stderr and its end to another (the reaper), reads its stdout up to the  *)
(* end of the CGI header block, and streams the rest to the client.        *)
(*                                                                         *)
(* Four parties and three pipes: each pipe is bounded, and each party      *)
(* blocks on what it does next.  The child is external: it follows a       *)
(* script of reads and writes, whatever they are, and may crash.  Nothing  *)
(* kills it (no kill_on_drop), and nothing is kept after a restart.        *)
(*                                                                         *)
(* A byte of output is "r" (CR), "n" (LF), "x" (any other), or "bad": one  *)
(* that makes a line of the header block no legal HTTP header.  A byte of  *)
(* the request body is only counted.  Mut_X is X with a plausible bug.     *)
(***************************************************************************)
EXTENDS Naturals, Sequences

CONSTANTS Scripts,     \* what children do: sequences of Steps
          BodySize,    \* of the request, in chunks
          Scratch,     \* the most that one read returns: 4096
          StdinRoom, StdoutRoom, StderrRoom,  \* capacities of the pipes
          Window       \* of the connection, in each direction

Symbols == {"r", "n", "x", "bad"}
Steps == Symbols \cup {"in", "err"}

ASSUME ScriptsAssumption == Scripts \subseteq Seq(Steps)
ASSUME RoomAssumption ==
    /\ BodySize \in Nat
    /\ {Scratch, StdinRoom, StdoutRoom, StderrRoom, Window} \subseteq Nat \ {0}

VARIABLES
    client,    \* whether its connection is there
    uploaded,  \* chunks of the request body it has sent
    handler,   \* where the handler, then the response body, is
    status,    \* of the response; 0: none yet
    buffered,  \* stdout as far as the header loop has read it
    split,     \* where it found the end of the header block, or NoSplit
    outgoing, received,  \* the response body: on its way, and with the client
    pump, pulled,  \* where the pump is; chunks it has taken
    reaper,
    child, script, at,   \* what the child does and how far it is
    stdin, written, taken, stderr  \* the pipes; written and taken: all of stdout
                                   \* so far, and how much of it was read

connection == <<client, uploaded, outgoing, received>>
response == <<handler, status, buffered, split>>
pumpVars == <<pump, pulled>>
childVars == <<child, script, at>>
pipes == <<stdin, written, taken, stderr>>
vars == <<connection, response, pumpVars, reaper, childVars, pipes>>

Least(a, b) == IF a < b THEN a ELSE b

-------------------------------------------------------------------------------
(* find_header_end.  An end of the header block is where the headers stop  *)
(* and where the body begins.                                              *)

NoSplit == [head |-> 0, body |-> 0]

CrlfAt(b, i) ==
    i + 4 <= Len(b) /\ b[i + 1] = "r" /\ b[i + 2] = "n" /\ b[i + 3] = "r" /\ b[i + 4] = "n"
LfAt(b, i) == i + 2 <= Len(b) /\ b[i + 1] = "n" /\ b[i + 2] = "n"

HeaderEnds(b) ==
    {[head |-> i, body |-> i + 4] : i \in {j \in 0 .. Len(b) : CrlfAt(b, j)}}
        \cup {[head |-> i, body |-> i + 2] : i \in {j \in 0 .. Len(b) : LfAt(b, j)}}

\* Whichever comes first; the mutant prefers CRLF.
Mut_FirstEnds(b) ==
    {e \in HeaderEnds(b) : \A o \in HeaderEnds(b) :
        IF o.body = o.head + 4 /\ e.body = e.head + 2 THEN FALSE
        ELSE e.head <= o.head \/ (e.body = e.head + 4 /\ o.body = o.head + 2)}
FirstEnds(b) == {e \in HeaderEnds(b) : \A o \in HeaderEnds(b) : e.head <= o.head}

FindHeaderEnd(b) == IF FirstEnds(b) = {} THEN NoSplit ELSE CHOOSE e \in FirstEnds(b) : TRUE

-------------------------------------------------------------------------------
Init ==
    /\ client = "there" /\ uploaded = 0 /\ outgoing = <<>> /\ received = <<>>
    /\ handler = "spawn" /\ status = 0 /\ buffered = <<>> /\ split = NoSplit
    /\ pump = "none" /\ pulled = 0 /\ reaper = "none"
    /\ child = "none" /\ script \in Scripts /\ at = 0
    /\ stdin = 0 /\ written = <<>> /\ taken = 0 /\ stderr = 0

\* The handler and then the body own the read end of stdout.
StdoutOpen == handler \in {"spawn", "header", "body"}
Unread == Len(written) - taken
StdoutEnded == child \in {"exited", "reaped"} /\ Unread = 0

(* The handler.                                                            *)

Spawn ==
    /\ handler = "spawn"
    /\ handler' = "header" /\ child' = "running" /\ pump' = "pulling" /\ reaper' = "draining"
    /\ UNCHANGED <<connection, status, buffered, split, pulled, script, at, pipes>>

SpawnFails ==
    /\ handler = "spawn"
    /\ handler' = "ended" /\ status' = 500
    /\ UNCHANGED <<connection, buffered, split, pumpVars, reaper, childVars, pipes>>

\* The answer to the header block head, with rest as the first of the body.  A
\* line that is no header fails it, and the body is dropped.
Respond(head, rest) ==
    IF \E i \in DOMAIN head : head[i] = "bad"
      THEN handler' = "ended" /\ status' = 500 /\ UNCHANGED outgoing
      ELSE handler' = "body" /\ status' = 200 /\ outgoing' = rest

\* Only what this read brought is searched.
Mut_Found(b, n) ==
    LET s == FindHeaderEnd(SubSeq(b, Len(b) - n + 1, Len(b)))
    IN IF s = NoSplit THEN NoSplit
       ELSE [head |-> s.head + Len(b) - n, body |-> s.body + Len(b) - n]
Found(b, n) == FindHeaderEnd(b)

\* A read of n bytes, and the search that follows it.
ReadHead(n) ==
    /\ handler = "header" /\ n <= Unread
    /\ taken' = taken + n
    /\ buffered' = SubSeq(written, 1, taken + n)
    /\ split' = Found(buffered', n)
    /\ IF split' = NoSplit
         THEN UNCHANGED <<handler, status, outgoing>>
         ELSE Respond(SubSeq(buffered', 1, split'.head),
                      SubSeq(buffered', split'.body + 1, Len(buffered')))
    /\ UNCHANGED <<client, uploaded, received, pumpVars, reaper, childVars, stdin,
                   written, stderr>>

\* The child is done and has not ended a header block: all of it is headers.
HeadEnds ==
    /\ handler = "header" /\ StdoutEnded
    /\ Respond(buffered, <<>>)
    /\ UNCHANGED <<client, uploaded, received, buffered, split, pumpVars, reaper,
                   childVars, pipes>>

ReadFails ==
    /\ handler = "header"
    /\ handler' = "ended" /\ status' = 500
    /\ UNCHANGED <<connection, buffered, split, pumpVars, reaper, childVars, pipes>>

\* ReaderStream: the server asks for more when the connection has room.
StreamBody(n) ==
    /\ handler = "body" /\ n <= Unread /\ Len(outgoing) < Window
    /\ taken' = taken + n
    /\ outgoing' = outgoing \o SubSeq(written, taken + 1, taken + n)
    /\ UNCHANGED <<client, uploaded, received, response, pumpVars, reaper,
                   childVars, stdin, written, stderr>>

BodyEnds ==
    /\ handler = "body" /\ StdoutEnded
    /\ handler' = "ended"
    /\ UNCHANGED <<connection, status, buffered, split, pumpVars, reaper, childVars,
                   pipes>>

-------------------------------------------------------------------------------
(* The two tasks.                                                          *)

Pull ==
    /\ pump = "pulling" /\ pulled < uploaded
    /\ pump' = "holding" /\ pulled' = pulled + 1
    /\ UNCHANGED <<connection, response, reaper, childVars, pipes>>

\* The end of the body.
PullEnd ==
    /\ pump = "pulling" /\ pulled = BodySize
    /\ pump' = "done"
    /\ UNCHANGED <<connection, response, pulled, reaper, childVars, pipes>>

\* The mutant leaves the loop only at the end of the body.
Mut_PullBroken ==
    /\ pump = "pulling" /\ pulled = BodySize /\ client = "gone"
    /\ pump' = "done"
    /\ UNCHANGED <<connection, response, pulled, reaper, childVars, pipes>>

\* The body breaks off with the connection.  That the response is over does not
\* end it: the pump owns the body, and the server goes on reading it.
PullBroken ==
    /\ pump = "pulling" /\ client = "gone"
    /\ pump' = "done"
    /\ UNCHANGED <<connection, response, pulled, reaper, childVars, pipes>>

\* write_all, once there is room.
Push ==
    /\ pump = "holding" /\ child = "running" /\ stdin < StdinRoom
    /\ pump' = "pulling" /\ stdin' = stdin + 1
    /\ UNCHANGED <<connection, response, pulled, reaper, childVars, written, taken,
                   stderr>>

PushFails ==
    /\ pump = "holding" /\ child # "running"
    /\ pump' = "done"
    /\ UNCHANGED <<connection, response, pulled, reaper, childVars, pipes>>

\* The task waits for the child first.
Mut_Drain ==
    /\ reaper = "draining" /\ stderr > 0 /\ child # "running"
    /\ stderr' = 0
    /\ UNCHANGED <<connection, response, pumpVars, reaper, childVars, stdin,
                   written, taken>>

Drain ==
    /\ reaper = "draining" /\ stderr > 0
    /\ stderr' = 0
    /\ UNCHANGED <<connection, response, pumpVars, reaper, childVars, stdin,
                   written, taken>>

DrainEnds ==
    /\ reaper = "draining" /\ stderr = 0 /\ child = "exited"
    /\ reaper' = "waiting"
    /\ UNCHANGED <<connection, response, pumpVars, childVars, pipes>>

Reap ==
    /\ reaper = "waiting" /\ child = "exited"
    /\ reaper' = "done" /\ child' = "reaped"
    /\ UNCHANGED <<connection, response, pumpVars, script, at, pipes>>

-------------------------------------------------------------------------------
(* The child.                                                              *)

Running == child = "running"
Step == script[at + 1]
HasStep == Running /\ at < Len(script)

\* A read blocks until there is input or the pump has closed the pipe.
ReadInput ==
    /\ HasStep /\ Step = "in"
    /\ stdin > 0 \/ pump = "done"
    /\ stdin' = IF stdin > 0 THEN stdin - 1 ELSE 0
    /\ at' = at + 1
    /\ UNCHANGED <<connection, response, pumpVars, reaper, child, script, written,
                   taken, stderr>>

WriteOutput ==
    /\ HasStep /\ Step \in Symbols /\ StdoutOpen /\ Unread < StdoutRoom
    /\ written' = Append(written, Step)
    /\ at' = at + 1
    /\ UNCHANGED <<connection, response, pumpVars, reaper, child, script, stdin,
                   taken, stderr>>

WriteNoise ==
    /\ HasStep /\ Step = "err" /\ stderr < StderrRoom
    /\ stderr' = stderr + 1
    /\ at' = at + 1
    /\ UNCHANGED <<connection, response, pumpVars, reaper, child, script, stdin,
                   written, taken>>

\* At its end, or of a write that nobody will read.
Exit ==
    /\ Running
    /\ at = Len(script) \/ (HasStep /\ Step \in Symbols /\ ~ StdoutOpen)
    /\ child' = "exited"
    /\ UNCHANGED <<connection, response, pumpVars, reaper, script, at, pipes>>

Crash ==
    /\ Running
    /\ child' = "exited"
    /\ UNCHANGED <<connection, response, pumpVars, reaper, script, at, pipes>>

-------------------------------------------------------------------------------
(* The client.                                                             *)

Upload ==
    /\ client = "there" /\ uploaded < BodySize /\ uploaded - pulled < Window
    /\ uploaded' = uploaded + 1
    /\ UNCHANGED <<client, outgoing, received, response, pumpVars, reaper,
                   childVars, pipes>>

Receive ==
    /\ client = "there" /\ outgoing # <<>>
    /\ received' = received \o outgoing
    /\ outgoing' = <<>>
    /\ UNCHANGED <<client, uploaded, response, pumpVars, reaper, childVars, pipes>>

\* The connection ends.  The handler or the body, if it is still there, is dropped
\* and stdout with it; the tasks are not.
BreakOff ==
    /\ client' = "gone" /\ outgoing' = <<>>
    /\ handler' = IF handler = "ended" THEN "ended" ELSE "gone"
    /\ UNCHANGED <<uploaded, received, status, buffered, split, pumpVars, reaper,
                   childVars, pipes>>

\* During the exchange, or when the response is over.
HangUp == client = "there" /\ BreakOff

\* ReaderStream's read fails: the status is sent, and breaking the connection off
\* is all the server can do.
BodyFails == handler = "body" /\ BreakOff

Reads == 1 .. Scratch
Handler ==
    \/ Spawn \/ HeadEnds \/ BodyEnds
    \/ \E n \in Reads : ReadHead(n) \/ StreamBody(n)
Pump == Pull \/ PullEnd \/ PullBroken \/ Push \/ PushFails
Reaper == Drain \/ DrainEnds \/ Reap
Child == ReadInput \/ WriteOutput \/ WriteNoise \/ Exit

Next ==
    \/ Handler \/ SpawnFails \/ ReadFails \/ BodyFails
    \/ Pump \/ Reaper \/ Child \/ Crash
    \/ Upload \/ Receive \/ HangUp

\* Tasks are polled when they are woken, and git does not stop on its own.
\* No failure has to happen, and nothing is assumed of the client.
Spec ==
    /\ Init /\ [][Next]_vars
    /\ WF_vars(Handler) /\ WF_vars(Pump) /\ WF_vars(Reaper) /\ WF_vars(Child)

-------------------------------------------------------------------------------
TypeOK ==
    /\ client \in {"there", "gone"} /\ uploaded \in 0 .. BodySize
    /\ handler \in {"spawn", "header", "body", "ended", "gone"}
    /\ status \in {0, 200, 500}
    /\ buffered \in Seq(Symbols) /\ split \in [head : Nat, body : Nat]
    /\ outgoing \in Seq(Symbols) /\ received \in Seq(Symbols)
    /\ pump \in {"none", "pulling", "holding", "done"} /\ pulled \in 0 .. uploaded
    /\ reaper \in {"none", "draining", "waiting", "done"}
    /\ child \in {"none", "running", "exited", "reaped"}
    /\ script \in Scripts /\ at \in 0 .. Len(script)
    /\ stdin \in 0 .. StdinRoom /\ stderr \in 0 .. StderrRoom
    /\ written \in Seq(Symbols) /\ taken \in 0 .. Len(written)

\* Who is still there of the handler's helpers.
PartiesOK ==
    /\ handler = "spawn" => child = "none"
    /\ handler \in {"header", "body"} => child # "none"
    /\ child = "none" <=> pump = "none"
    /\ child = "none" <=> reaper = "none"
    /\ reaper = "waiting" => child = "exited"
    /\ child = "reaped" <=> reaper = "done"
    /\ child = "none" => written = <<>> /\ at = 0
    /\ Unread <= StdoutRoom
    /\ client = "gone" => handler \in {"ended", "gone"}
    /\ handler = "gone" => client = "gone"

\* What the header loop has, and what it has decided.
HeaderOK ==
    /\ handler \in {"spawn", "header"} =>
          /\ status = 0 /\ split = NoSplit /\ outgoing = <<>> /\ received = <<>>
          /\ buffered = SubSeq(written, 1, taken)
          /\ FindHeaderEnd(buffered) = NoSplit
    /\ handler = "body" => status = 200
    /\ status # 200 => outgoing = <<>> /\ received = <<>>
    /\ Len(buffered) <= taken /\ buffered = SubSeq(written, 1, Len(buffered))
    /\ split # NoSplit => split = FindHeaderEnd(buffered) /\ split.body <= Len(buffered)

\* The response is what the child has written, cut at the first end of a header
\* block in all that it will have written: it makes no difference into which
\* reads the output falls.  The body is what follows, in order, as far as
\* stdout was read, and a response that ends in good order has all of it.
Delivered == received \o outgoing
ResponseExact ==
    /\ split # NoSplit => split = FindHeaderEnd(written)
    /\ status = 200 /\ split = NoSplit =>
          /\ FindHeaderEnd(written) = NoSplit
          /\ Delivered = <<>>
    /\ status = 200 /\ split # NoSplit /\ client = "there" =>
          Delivered = SubSeq(written, split.body + 1, taken)
    /\ status = 200 /\ handler = "ended" => taken = Len(written)

\* Without a split the child was done when the handler answered.
NoSplitOK == status = 200 /\ split = NoSplit => child # "running" /\ taken = Len(written)

IInv == TypeOK /\ PartiesOK /\ HeaderOK /\ NoSplitOK /\ ResponseExact

\* git.rs:240-242: a request body goes in while the output comes out.  Whatever
\* the child reads and writes, and in whatever order, a client that goes on
\* sending and reading gets to the end of the response.
Over == handler \in {"ended", "gone"}
ExchangeEnds ==
    WF_vars(Upload) /\ WF_vars(Receive) => <>Over

\* Once the exchange is over no child is left behind, neither running nor unreaped:
\* not by a client that goes away at any point, nor by a handler that failed while
\* its client goes on sending or goes away.  A client that does neither keeps the
\* pump and, if it reads, the child; nothing is asked of one that has left, whose
\* Upload is never enabled.
NoChildLeft == WF_vars(Upload) => (Over ~> child \in {"none", "reaped"})
================================================================================
