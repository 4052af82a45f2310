---------------------------- MODULE RustToolPool ----------------------------
(***************************************************************************)
(* The processes of the Rust tools (tools/rust-pool.ts): a few, kept and   *)
(* reused, each a server that answers JSON lines in the order it was       *)
(* asked.  A listener of each request collects what the process writes in  *)
(* one buffer of the process.                                              *)
(***************************************************************************)
EXTENDS Naturals, Sequences, FiniteSets

CONSTANTS
  RustCalls,       \* calls of call()
  RustProcs,       \* processes that are ever started (bound), by the order they come in
  MaxSize

VARIABLES
  processes,       \* the pool's array, which keeps that order
  proc,            \* the processes
  rustCall,        \* where each call stands
  shuttingDown

rustVars == <<processes, proc, rustCall, shuttingDown>>

(* An answer is written at once or in two pieces; the last one ends a line. *)
Piece(id, part) == [id |-> id, part |-> part]

(* Mutant of Fits: whatever answer is complete is taken.                   *)
FitsAny(response, id) == TRUE

Fits(response, id) == response = id

-----------------------------------------------------------------------------
(* The ids of the answers a buffer holds whole, a line each: in one piece, *)
(* or in two that follow each other.                                       *)
Begins(stdout, i) == i = 1 \/ stdout[i - 1].part # "first"

EndsResponse(stdout, i) ==
  \/ stdout[i].part = "whole" /\ Begins(stdout, i)
  \/ /\ stdout[i].part = "last" /\ i > 1
     /\ stdout[i - 1] = Piece(stdout[i].id, "first") /\ Begins(stdout, i - 1)

Responses(stdout) ==
  { stdout[i].id : i \in { j \in DOMAIN stdout : EndsResponse(stdout, j) } }

(* onData() of a listener, in the order in which they came: by then the    *)
(* piece is in the buffer as often as listeners have been told.            *)
Turn(p, l) == Cardinality({ k \in proc[p].listeners : k.id <= l.id })
Copies(p, piece, n) == proc[p].stdout \o [i \in 1 .. n |-> piece]
IsAnswered(p, piece, l) ==
  \E r \in Responses(Copies(p, piece, Turn(p, l))) : Fits(r, l.id)

-----------------------------------------------------------------------------
NewProcess == [state |-> "unborn", busy |-> FALSE, idle |-> FALSE, requestId |-> 0,
               stdout |-> <<>>, listeners |-> {}, asked |-> <<>>, half |-> FALSE]
NewCall == [pc |-> "new", p |-> 0, id |-> 0, got |-> 0]

Init ==
  /\ processes = {}
  /\ proc = [p \in RustProcs |-> NewProcess]
  /\ rustCall = [c \in RustCalls |-> NewCall]
  /\ shuttingDown = FALSE

Calling(c, pc) == rustCall[c].pc = pc
Goes(c, pc) == rustCall' = [rustCall EXCEPT ![c].pc = pc]
Idle == { p \in processes : ~proc[p].busy }

(* sendRequest()                                                           *)
SendRequest(c, p) ==
  LET id == proc[p].requestId + 1
  IN  /\ proc' = [proc EXCEPT ![p] =
           [proc[p] EXCEPT !.busy = TRUE, !.idle = FALSE, !.stdout = <<>>, !.requestId = id,
                     !.listeners = @ \cup {[call |-> c, id |-> id]},
                     !.asked = IF proc[p].state = "alive" THEN Append(@, id) ELSE @]]
      /\ rustCall' = [rustCall EXCEPT ![c] = [pc |-> "sent", p |-> p, id |-> id, got |-> 0]]

(* call(): the first process that is not busy, at once or after waiting.   *)
TakeIdle(c) ==
  /\ Calling(c, "waiting") \/ (Calling(c, "new") /\ ~shuttingDown)
  /\ \E p \in Idle : (\A q \in Idle : p <= q) /\ SendRequest(c, p)
  /\ UNCHANGED <<processes, shuttingDown>>

UnderLimit == Cardinality(processes) < MaxSize

StartProcess(c) ==
  /\ Calling(c, "new") /\ ~shuttingDown
  /\ Idle = {} /\ UnderLimit
  /\ \E p \in RustProcs :
       /\ proc[p].state = "unborn" /\ \A q \in RustProcs : q < p => proc[q].state # "unborn"
       /\ processes' = processes \cup {p}
       /\ proc' = [proc EXCEPT ![p].state = "alive"]
       /\ rustCall' = [rustCall EXCEPT ![c] = [pc |-> "starting", p |-> p, id |-> 0, got |-> 0]]
  /\ UNCHANGED shuttingDown

(* After 100ms the process is used, whoever has taken it meanwhile.        *)
Started(c) ==
  /\ Calling(c, "starting")
  /\ SendRequest(c, rustCall[c].p)
  /\ UNCHANGED <<processes, shuttingDown>>

StartFails(c) ==
  /\ Calling(c, "starting")
  /\ processes' = processes \ {rustCall[c].p}
  /\ proc' = [proc EXCEPT ![rustCall[c].p].state = "dead"]
  /\ Goes(c, "rejected")
  /\ UNCHANGED shuttingDown

WaitForAvailable(c) ==
  /\ Calling(c, "new") /\ ~shuttingDown
  /\ Idle = {} /\ ~UnderLimit
  /\ Goes(c, "waiting")
  /\ UNCHANGED <<processes, proc, shuttingDown>>

Refused(c) ==
  /\ Calling(c, "new") /\ shuttingDown
  /\ Goes(c, "rejected")
  /\ UNCHANGED <<processes, proc, shuttingDown>>

-----------------------------------------------------------------------------
(* serve() of the process reads a line, handles it and writes its answer   *)
(* before it reads the next: one request at a time, the oldest.            *)
Serving(p) == proc[p].state = "alive" /\ proc[p].asked # <<>>
OldestAsked(p) == Head(proc[p].asked)

(* The process answers its oldest request.  Every listener gets the piece; *)
(* the answered ones leave, and their calls release the process.           *)
Answers(p, part) ==
  LET ls    == proc[p].listeners
      piece == Piece(OldestAsked(p), part)
      done  == { l \in ls : IsAnswered(p, piece, l) }
  IN  /\ Serving(p)
      /\ (part = "last") <=> proc[p].half
      /\ proc' = [proc EXCEPT ![p] =
           [proc[p] EXCEPT !.stdout = Copies(p, piece, Cardinality(ls)), !.listeners = @ \ done,
                     !.asked = IF part = "first" THEN @ ELSE Tail(@),
                     !.half = (part = "first"),
                     !.busy = @ /\ \A l \in done : ~Calling(l.call, "sent"),
                     !.idle = @ /\ done = {}]]
      /\ rustCall' = [c \in RustCalls |->
           IF Calling(c, "sent") /\ \E l \in done : l.call = c
             THEN [rustCall[c] EXCEPT !.pc = "resolved", !.got = piece.id] ELSE rustCall[c]]
  /\ UNCHANGED <<processes, shuttingDown>>

(* 60s without an answer: the process is released, the listener stays.     *)
RequestTimeout(c) ==
  /\ Calling(c, "sent")
  /\ Goes(c, "rejected")
  /\ proc' = [proc EXCEPT ![rustCall[c].p].busy = FALSE, ![rustCall[c].p].idle = FALSE]
  /\ UNCHANGED <<processes, shuttingDown>>

Kill(S) == proc' = [p \in RustProcs |->
  IF p \in S THEN [proc[p] EXCEPT !.state = "dead", !.asked = <<>>, !.half = FALSE] ELSE proc[p]]

ProcessDies(p) ==
  /\ proc[p].state = "alive"
  /\ Kill({p})
  /\ processes' = processes \ {p}
  /\ UNCHANGED <<rustCall, shuttingDown>>

(* 30s without a request or a release, then the 10s timer.                 *)
BecomesIdle(p) ==
  /\ p \in processes /\ ~proc[p].idle
  /\ proc' = [proc EXCEPT ![p].idle = TRUE]
  /\ UNCHANGED <<processes, rustCall, shuttingDown>>

CleansUpIdle ==
  LET toRemove == { p \in processes : ~proc[p].busy /\ proc[p].idle }
  IN  /\ toRemove # {} /\ ~shuttingDown
      /\ Kill(toRemove)
      /\ processes' = processes \ toRemove
      /\ UNCHANGED <<rustCall, shuttingDown>>

(* shutdown() leaves the calls that wait to themselves.                    *)
ShutdownPool ==
  /\ ~shuttingDown
  /\ shuttingDown' = TRUE
  /\ Kill(processes)
  /\ processes' = {}
  /\ UNCHANGED rustCall

Next ==
  \/ \E c \in RustCalls : TakeIdle(c) \/ StartProcess(c) \/ Started(c) \/ StartFails(c)
  \/ \E c \in RustCalls : WaitForAvailable(c) \/ Refused(c) \/ RequestTimeout(c)
  \/ \E p \in RustProcs, part \in {"whole", "first", "last"} : Answers(p, part)
  \/ \E p \in RustProcs : ProcessDies(p) \/ BecomesIdle(p)
  \/ CleansUpIdle \/ ShutdownPool

Spec == Init /\ [][Next]_rustVars

-----------------------------------------------------------------------------
RustTypeOK ==
  /\ processes \subseteq RustProcs /\ \A p \in processes : proc[p].state = "alive"
  /\ \A c \in RustCalls :
       rustCall[c].pc \in {"new", "starting", "waiting", "sent", "resolved", "rejected"}

(* However calls overlap, a call never gets the answer to the request of   *)
(* another one: though timed-out requests leave their listeners and are    *)
(* answered late, and two calls can come to share a process, one that      *)
(* takes it while its creator waits for it to start or after the release   *)
(* of the other.  And calls that find no process start one each, before    *)
(* any is ready, but never more than maxSize.                              *)
CallsKeptApart ==
  /\ \A c \in RustCalls : Calling(c, "resolved") => rustCall[c].got = rustCall[c].id
  /\ Cardinality(processes) <= MaxSize
=============================================================================
