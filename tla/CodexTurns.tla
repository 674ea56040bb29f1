----------------------------- MODULE CodexTurns -----------------------------
(***************************************************************************)
(* Prompts, steering and interruption of a Codex session                   *)
(* (apps/agent/src/codex-adapter.ts), the requests the adapter makes of    *)
(* App Server over a pipe (codex-app-server.ts), and the results of the    *)
(* commands that caused them (relay-client.ts).  One session: sessions     *)
(* share only the pipes and the table of requests.  One run of the agent,  *)
(* from the end of CodexAdapter.start: nothing of it outlives the process. *)
(*                                                                         *)
(* A command is the number of its arrival, which also stands for the text  *)
(* of a prompt.  What follows an await runs as a microtask: `tasks' are    *)
(* those that are due, in order.  All lines of one chunk of stdout are     *)
(* handled before the microtasks they make due, and these before anything  *)
(* else happens.  Status events go the way of EventPath and are left out.  *)
(***************************************************************************)
EXTENDS Naturals, Sequences, FiniteSets, SequencesExt

CONSTANTS
  MaxQueued,     \* prompts kept for later: 20
  MaxCommands    \* bound: commands that arrive

ASSUME QueueAssumption == MaxQueued \in Nat \ {0}
ASSUME BoundAssumption == MaxCommands \in Nat

VARIABLES
  phase,         \* of the agent process: "running", "stopping" or "down"
  child,         \* this.client.child is there and writable
  active,        \* activeTurns.get(session), 0 for none
  loaded,        \* loadedThreads.has(session)
  queue,         \* queuedPrompts.get(session)
  nextId,        \* nextRequestId
  table,         \* this.client.pending, in insertion order
  tasks,         \* microtasks that are due
  draining,      \* whether they have begun to run
  unhandled,     \* whether a promise nobody awaits was rejected
  received,      \* history: commands that have arrived
  enqueued,      \* history: prompts put into the queue
  results,       \* by command, whether its result said ok
  server,        \* App Server: "runs", "ended", or "reaped" once its exit was seen
  turn,          \* its turn, 0 for none
  turns,         \* turns it has started
  stdin, stdout, \* the pipes
  done           \* history: commands App Server has carried out, in order

adapter  == <<active, loaded, queue, enqueued>>
requests == <<nextId, table, stdin>>
loop     == <<tasks, draining, unhandled>>
service  == <<server, turn, turns, done>>
vars == <<phase, child, adapter, requests, loop, received, results, service, stdout>>

Methods == {"thread/resume", "turn/start", "turn/steer", "turn/interrupt"}

Newest(s, n) == IF Len(s) <= n THEN s ELSE SubSeq(s, Len(s) - n + 1, Len(s))
Put(f, k, v) == [x \in DOMAIN f \cup {k} |-> IF x = k THEN v ELSE f[x]]

Task(do, c) == [do |-> do, command |-> c]

(* Lines of App Server: the reply to a request, and notifications.         *)
Line(kind, n, ok) == [kind |-> kind, n |-> n, ok |-> ok]
Reply(id, ok)     == Line("reply", id, ok)
Announced         == Line("thread/started", 0, TRUE)
Started(t)        == Line("turn/started", t, TRUE)
Completed(t, ok)  == Line("turn/completed", t, ok)

Init ==
  /\ phase = "running" /\ child = TRUE
  /\ active = 0 /\ loaded = FALSE /\ queue = <<>> /\ enqueued = {}
  /\ nextId = 1 /\ table = <<>> /\ stdin = <<>> /\ stdout = <<>>
  /\ tasks = <<>> /\ draining = FALSE /\ unhandled = FALSE
  /\ received = 0 /\ results = [c \in {} |-> TRUE]
  /\ server = "runs" /\ turn = 0 /\ turns = 0 /\ done = <<>>

-----------------------------------------------------------------------------
(* Requests to App Server.  `due' are the tasks due so far.                *)

(* Mutant: the id is one more than the number of open requests.            *)
FreshId_Reused == Len(table) + 1

FreshId == nextId

(* request: a write that throws rejects the promise.                       *)
request(method, c, due) ==
  /\ nextId' = nextId + 1
  /\ IF child
     THEN /\ table' = Append(table, [id |-> FreshId, method |-> method, command |-> c])
          /\ stdin' = Append(stdin, [id |-> FreshId, method |-> method,
                                     command |-> c, turn |-> active])
          /\ tasks' = due
     ELSE tasks' = Append(due, Task("reject", c)) /\ UNCHANGED <<table, stdin>>

(* startTurn up to its first await, which ensureLoaded makes in any case.  *)
startTurn(c, due) ==
  IF loaded
  THEN tasks' = Append(due, Task("start", c)) /\ UNCHANGED requests
  ELSE request("thread/resume", c, due)

(* What a request's promise makes due when it settles.                     *)
Settled(entry, ok) ==
  Task(IF ~ok THEN "reject"
       ELSE IF entry.method = "thread/resume" THEN "resumed" ELSE "resolve",
       entry.command)

RejectAll(entries) == [i \in DOMAIN entries |-> Settled(entries[i], FALSE)]

-----------------------------------------------------------------------------
(* Tasks of the event loop.                                                *)

(* The microtasks have run; whatever was rejected has been caught.         *)
Idle == phase # "down" /\ tasks = <<>> /\ ~unhandled

(* What is due then runs before anything else.                             *)
Drain == draining' = (tasks' # <<>>)

(* RelayClient.handleCommand of a command that has not expired.            *)
Arrives ==
  /\ Idle
  /\ received < MaxCommands
  /\ received' = received + 1
  /\ UNCHANGED <<phase, child, active, loaded, unhandled, service, stdout>>

ThisCommand == received + 1

(* handleCommand of session.interrupt.                                     *)
Interrupt ==
  /\ Arrives
  /\ IF active = 0
     THEN results' = Put(results, ThisCommand, FALSE) /\ UNCHANGED <<requests, tasks>>
     ELSE request("turn/interrupt", ThisCommand, tasks) /\ UNCHANGED results
  /\ Drain
  /\ UNCHANGED <<queue, enqueued>>

(* sendPrompt without an active turn, whatever its behavior.               *)
Prompt ==
  /\ active = 0
  /\ Arrives
  /\ startTurn(ThisCommand, tasks)
  /\ Drain
  /\ UNCHANGED <<queue, enqueued, results>>

(* sendPrompt with an active turn, behavior "steer".                       *)
Steer ==
  /\ active # 0
  /\ Arrives
  /\ request("turn/steer", ThisCommand, tasks)
  /\ Drain
  /\ UNCHANGED <<queue, enqueued, results>>

(* Mutants: the queue is not cut, or cut at the wrong end.                 *)
Longer_Unbounded(c) == Append(queue, c)
Longer_Oldest(c) ==
  IF Len(queue) < MaxQueued THEN Append(queue, c) ELSE queue

Longer(c) == Newest(Append(queue, c), MaxQueued)

(* sendPrompt with an active turn, behavior "queue".                       *)
Enqueue ==
  /\ active # 0
  /\ Arrives
  /\ queue' = Longer(ThisCommand)
  /\ enqueued' = enqueued \cup {ThisCommand}
  /\ results' = Put(results, ThisCommand, TRUE)
  /\ UNCHANGED <<requests, tasks>>
  /\ Drain

(* The timer of a request; all run equally long.                           *)
Timeout ==
  /\ Idle
  /\ table # <<>>
  /\ table' = Tail(table)
  /\ tasks' = <<Settled(Head(table), FALSE)>>
  /\ draining' = TRUE
  /\ UNCHANGED <<phase, child, adapter, nextId, stdin, unhandled, received, results,
                 service, stdout>>

(* The exit handler of the child.                                          *)
Exited ==
  /\ Idle
  /\ server = "ended"
  /\ server' = "reaped"
  /\ child' = FALSE
  /\ stdin' = <<>>
  /\ table' = <<>>
  /\ tasks' = RejectAll(table)
  /\ draining' = (table # <<>>)
  /\ UNCHANGED <<phase, adapter, nextId, unhandled, received, results, turn, turns,
                 done, stdout>>

(* A microtask: ensureLoaded or startTurn goes on, or sendPrompt returns   *)
(* or throws to RelayClient.handleCommand.  A prompt that was queued has   *)
(* its result; nobody awaits its startTurn.                                *)
RunTask ==
  /\ phase # "down"
  /\ tasks # <<>>
  /\ LET c == Head(tasks).command
         answered == c \in DOMAIN results
     IN  CASE Head(tasks).do = "resumed" ->
                /\ loaded' = TRUE
                /\ tasks' = Append(Tail(tasks), Task("start", c))
                /\ UNCHANGED <<requests, results, unhandled>>
           [] Head(tasks).do = "start" ->
                /\ request("turn/start", c, Tail(tasks))
                /\ UNCHANGED <<loaded, results, unhandled>>
           [] Head(tasks).do \in {"resolve", "reject"} ->
                /\ results' = IF answered THEN results
                              ELSE Put(results, c, Head(tasks).do = "resolve")
                /\ unhandled' = (unhandled \/ (answered /\ Head(tasks).do = "reject"))
                /\ tasks' = Tail(tasks)
                /\ UNCHANGED <<loaded, requests>>
  /\ Drain
  /\ UNCHANGED <<phase, child, active, queue, enqueued, received, service, stdout>>

(* handleLine: the next line of the chunk.                                 *)
Reads(kind) ==
  /\ phase # "down" /\ ~draining /\ ~unhandled
  /\ stdout # <<>> /\ Head(stdout).kind = kind
  /\ stdout' = Tail(stdout)
  /\ UNCHANGED <<phase, child, draining, unhandled, received, enqueued, results, service>>

(* The open request that the reply answers; there may be none any more.    *)
Asked == {i \in DOMAIN table : table[i].id = Head(stdout).n}

(* Mutant: an error is no reply.                                           *)
HandleReply_IgnoresErrors ==
  /\ Reads("reply")
  /\ \/ Asked = {} /\ UNCHANGED <<table, tasks>>
     \/ \E i \in Asked :
          /\ table' = RemoveAt(table, i)
          /\ tasks' = IF Head(stdout).ok
                      THEN Append(tasks, Settled(table[i], TRUE)) ELSE tasks
  /\ UNCHANGED <<active, loaded, queue, nextId, stdin>>

(* The request is open no more, and its promise settles.                   *)
HandleReply ==
  /\ Reads("reply")
  /\ \/ Asked = {} /\ UNCHANGED <<table, tasks>>
     \/ \E i \in Asked :
          /\ table' = RemoveAt(table, i)
          /\ tasks' = Append(tasks, Settled(table[i], Head(stdout).ok))
  /\ UNCHANGED <<active, loaded, queue, nextId, stdin>>

HandleThreadStarted ==
  /\ Reads("thread/started")
  /\ loaded' = TRUE
  /\ UNCHANGED <<active, queue, requests, tasks>>

HandleTurnStarted ==
  /\ Reads("turn/started")
  /\ active' = Head(stdout).n
  /\ UNCHANGED <<loaded, queue, requests, tasks>>

(* Mutants: the prompt that is started stays queued; an interrupted turn   *)
(* starts none; a turn that failed stays active.                           *)
HandleTurnCompleted_Keeps ==
  /\ Reads("turn/completed")
  /\ active' = 0
  /\ IF queue = <<>> THEN UNCHANGED <<requests, tasks>> ELSE startTurn(queue[1], tasks)
  /\ UNCHANGED <<loaded, queue>>

HandleTurnCompleted_OnlyOk ==
  /\ Reads("turn/completed")
  /\ active' = 0
  /\ IF queue = <<>> \/ ~Head(stdout).ok
     THEN UNCHANGED <<requests, tasks, queue>>
     ELSE startTurn(queue[1], tasks) /\ queue' = Tail(queue)
  /\ UNCHANGED loaded

HandleTurnCompleted_StaysActive ==
  /\ Reads("turn/completed")
  /\ active' = IF Head(stdout).ok THEN 0 ELSE active
  /\ IF queue = <<>>
     THEN UNCHANGED <<requests, tasks, queue>>
     ELSE startTurn(queue[1], tasks) /\ queue' = Tail(queue)
  /\ UNCHANGED loaded

(* The turn is over, however it ended; the next prompt is started.         *)
HandleTurnCompleted ==
  /\ Reads("turn/completed")
  /\ active' = 0
  /\ IF queue = <<>>
     THEN UNCHANGED <<requests, tasks, queue>>
     ELSE startTurn(queue[1], tasks) /\ queue' = Tail(queue)
  /\ UNCHANGED loaded

HandleLine == HandleReply \/ HandleThreadStarted \/ HandleTurnStarted \/ HandleTurnCompleted

(* The agent ends for a rejection that is not handled, for writing into a  *)
(* pipe whose reader is gone, or after controller.stop, and App Server     *)
(* with it, whose standard input ends.                                     *)
Down ==
  /\ phase' = "down" /\ child' = FALSE
  /\ active' = 0 /\ loaded' = FALSE /\ queue' = <<>>
  /\ nextId' = 1 /\ table' = <<>> /\ stdin' = <<>> /\ stdout' = <<>>
  /\ tasks' = <<>> /\ draining' = FALSE /\ unhandled' = FALSE
  /\ server' = "reaped" /\ turn' = 0
  /\ UNCHANGED <<enqueued, received, results, turns, done>>

Crash      == phase # "down" /\ unhandled /\ tasks = <<>> /\ Down
BrokenPipe == phase # "down" /\ server = "ended" /\ stdin # <<>> /\ Down
Leave      == phase = "stopping" /\ Idle /\ Down

(* CodexAppServerClient.stop.                                              *)
Stop ==
  /\ phase = "running"
  /\ Idle
  /\ phase' = "stopping"
  /\ child' = FALSE
  /\ UNCHANGED <<adapter, requests, loop, received, results, service, stdout>>

-----------------------------------------------------------------------------
(* App Server: one turn at a time.                                         *)

Served == /\ server = "runs" /\ stdin # <<>>
          /\ stdin' = Tail(stdin)
          /\ UNCHANGED <<phase, child, adapter, nextId, table, loop, received,
                         results, server>>

ServedFirst(method) == Served /\ Head(stdin).method = method

(* Whatever the request, App Server may refuse it.                         *)
ServeError ==
  /\ Served
  /\ stdout' = Append(stdout, Reply(Head(stdin).id, FALSE))
  /\ UNCHANGED <<turn, turns, done>>

ServeResume ==
  /\ ServedFirst("thread/resume")
  /\ \E news \in {<<>>, <<Announced>>} :
        stdout' = stdout \o news \o <<Reply(Head(stdin).id, TRUE)>>
  /\ UNCHANGED <<turn, turns, done>>

(* A prompt starts a turn, or goes to the one that is under way.           *)
ServeStart ==
  /\ ServedFirst("turn/start")
  /\ IF turn = 0
     THEN /\ turn' = turns + 1 /\ turns' = turns + 1
          /\ stdout' = stdout \o <<Reply(Head(stdin).id, TRUE), Started(turns + 1)>>
     ELSE /\ stdout' = Append(stdout, Reply(Head(stdin).id, TRUE))
          /\ UNCHANGED <<turn, turns>>
  /\ done' = Append(done, Head(stdin).command)

ServeSteer ==
  /\ ServedFirst("turn/steer")
  /\ Head(stdin).turn = turn
  /\ stdout' = Append(stdout, Reply(Head(stdin).id, TRUE))
  /\ done' = Append(done, Head(stdin).command)
  /\ UNCHANGED <<turn, turns>>

ServeInterrupt ==
  /\ ServedFirst("turn/interrupt")
  /\ Head(stdin).turn = turn
  /\ stdout' = stdout \o <<Reply(Head(stdin).id, TRUE), Completed(turn, FALSE)>>
  /\ turn' = 0
  /\ done' = Append(done, Head(stdin).command)
  /\ UNCHANGED turns

Serve == ServeError \/ ServeResume \/ ServeStart \/ ServeSteer \/ ServeInterrupt

(* By itself; the adapter does the same whether it completed or failed.    *)
EndTurn ==
  /\ server = "runs" /\ turn # 0
  /\ stdout' = Append(stdout, Completed(turn, TRUE))
  /\ turn' = 0
  /\ UNCHANGED <<phase, child, adapter, requests, loop, received, results, server,
                 turns, done>>

(* App Server ends; what it wrote may still be read.                       *)
End ==
  /\ server = "runs"
  /\ server' = "ended"
  /\ turn' = 0 /\ stdin' = <<>>
  /\ UNCHANGED <<phase, child, adapter, nextId, table, loop, received, results,
                 turns, done, stdout>>

-----------------------------------------------------------------------------
CommandStep == Interrupt \/ Prompt \/ Steer \/ Enqueue
AgentStep   == RunTask \/ HandleLine \/ Exited \/ Crash

Next ==
  \/ CommandStep \/ AgentStep \/ Timeout
  \/ Stop \/ Leave \/ BrokenPipe
  \/ Serve \/ EndTurn \/ End

Spec == Init /\ [][Next]_vars

(* The event loop runs, timers fire, and App Server reads its requests and *)
(* comes to the end of its turns.                                          *)
FairSpec == /\ Spec
            /\ WF_vars(AgentStep) /\ WF_vars(Timeout)
            /\ WF_vars(Serve) /\ WF_vars(EndTurn)

-----------------------------------------------------------------------------
(* Properties.                                                             *)

In(c, s)  == \E i \in DOMAIN s : s[i] = c
Entries   == [id : Nat, method : Methods, command : Nat]
Messages  == [id : Nat, method : Methods, command : Nat, turn : Nat]
Lines     == [kind : {"reply", "thread/started", "turn/started", "turn/completed"},
              n : Nat, ok : BOOLEAN]
Tasks     == [do : {"resumed", "start", "resolve", "reject"}, command : Nat]

(* Every variable has its type, and the queue its size.                    *)
TypeOK ==
  /\ phase \in {"running", "stopping", "down"} /\ child \in BOOLEAN
  /\ active \in Nat /\ loaded \in BOOLEAN
  /\ queue \in Seq(Nat) /\ Len(queue) <= MaxQueued
  /\ nextId \in Nat /\ table \in Seq(Entries) /\ stdin \in Seq(Messages)
  /\ tasks \in Seq(Tasks) /\ draining \in BOOLEAN /\ unhandled \in BOOLEAN
  /\ received \in Nat /\ enqueued \subseteq Nat
  /\ results \in [DOMAIN results -> BOOLEAN] /\ DOMAIN results \subseteq Nat
  /\ server \in {"runs", "ended", "reaped"} /\ turn \in Nat /\ turns \in Nat
  /\ stdout \in Seq(Lines) /\ done \in Seq(Nat)

(* A client that hears `ok' was heard: App Server has carried the command  *)
(* out, or the prompt was queued; although requests time out and their     *)
(* replies come late, none is taken for the reply to another.              *)
OkMeansDone ==
  \A c \in DOMAIN results : results[c] => In(c, done) \/ c \in enqueued

(* App Server gets no command twice, and the prompts that were queued in   *)
(* the order in which they came.                                           *)
DoneInOrder ==
  \A i, j \in DOMAIN done : i < j =>
    /\ done[i] # done[j]
    /\ {done[i], done[j]} \subseteq enqueued => done[i] < done[j]

(* As long as agent and App Server go on, a prompt that was queued waits,  *)
(* is being handed on or was handed on, or had to make room for MaxQueued  *)
(* newer ones.                                                             *)
NothingForgotten ==
  phase # "down" /\ ~unhandled /\ server = "runs" =>
    \A c \in enqueued :
      \/ In(c, queue) \/ In(c, done)
      \/ \E s \in {tasks, table, stdin} : \E i \in DOMAIN s : s[i].command = c
      \/ Cardinality({d \in enqueued : d > c}) >= MaxQueued

(* Once the adapter has read what App Server wrote, it knows which turn is *)
(* active: no prompt is queued for a turn that is over, and none started   *)
(* beside one that is under way.                                           *)
ActiveIsCurrent ==
  phase # "down" /\ server = "runs" /\ stdout = <<>> => active = turn

(* Every command gets a result, whatever App Server does, unless the agent *)
(* ends.                                                                   *)
CommandsSettle ==
  \A c \in 1..MaxCommands :
    c <= received ~> c \in DOMAIN results \/ phase = "down"

(* A queued prompt does not wait for ever while agent and App Server run.  *)
QueuedRun ==
  \A c \in 1..MaxCommands :
    In(c, queue) ~> ~In(c, queue) \/ phase # "running" \/ server # "runs"
=============================================================================
