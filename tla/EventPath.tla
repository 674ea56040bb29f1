----------------------------- MODULE EventPath ------------------------------
(***************************************************************************)
(* The way of an event: EventFactory numbers it, RelayClient sends it or   *)
(* queues it (apps/agent/src), the relay handles the frames of its agents  *)
(* one after the other, keeps the newest in its history and broadcasts     *)
(* (apps/relay/src/server.ts), and a client reduces what it is handed      *)
(* (apps/web/src/connection.ts, packages/protocol/src/state.ts).  One host *)
(* and one client: hosts share nothing but the relay's queue and history,  *)
(* clients nothing at all.                                                 *)
(*                                                                         *)
(* Time is the run of the agent: a host's clock does not go back, and the  *)
(* agent takes more than a millisecond to start again.  A connection is a  *)
(* wire of frames; each end learns of its loss by itself, so frames may be *)
(* lost, or arrive after those of a later connection.                      *)
(***************************************************************************)
EXTENDS Naturals, Sequences, FiniteSets

CONSTANTS
  Host, Session,
  NoSession,       \* an envelope without sessionId
  Decisions,       \* how an approval may be decided
  Reports,         \* the session, type and value of other events it emits
  Journals,        \* the configurations: with a journal, without, or both
  LateRuns,        \* whether frames of an earlier run may still arrive
  MaxHistory,      \* config.maxHistory
  MaxQueue,        \* MAX_QUEUE
  MaxEventIds,     \* MAX_EVENT_IDS
  MaxEvents,       \* bound: events of the host, those it does not make included
  MaxRuns,         \* bound: runs of the agent
  MaxLinks,        \* bound: connections of the agent
  MaxSnapshots,    \* bound: connections of the client
  MaxFailures      \* bound: restarts of the relay and failed appends

(* What the agent says of itself and of its sessions.                      *)
ReportTypes == {"host.heartbeat", "session.upserted", "session.status.changed",
                "session.content"}

ASSUME NameAssumption   == Session # NoSession /\ "pending" \notin Decisions
ASSUME ReportAssumption == \A r \in Reports : /\ r.session \in {Session, NoSession}
                                              /\ r.type \in ReportTypes
ASSUME SwitchAssumption == Journals \subseteq BOOLEAN /\ LateRuns \in BOOLEAN
ASSUME SizeAssumption   == /\ MaxHistory \in Nat \ {0}
                           /\ MaxQueue \in Nat \ {0}
                           /\ MaxEventIds \in Nat \ {0}
ASSUME BoundAssumption  == /\ MaxEvents \in Nat    /\ MaxRuns \in Nat
                           /\ MaxLinks \in Nat     /\ MaxSnapshots \in Nat
                           /\ MaxFailures \in Nat

VARIABLES
  run,        \* runs of the agent so far
  up,         \* whether the last of them goes on
  sequence,   \* EventFactory.sequence
  queue,      \* RelayClient.queue
  link,       \* the connection that is open and authenticated, 0 for none
  pending,    \* the host's open approvals
  forgotten,  \* history: those of this run that it gave up without an event
  emitted,    \* how many events were made, or should have been
  wires,      \* by connection: its run, its frames, whether the relay reads
  journal,    \* journal !== undefined
  inbox,      \* agentFrameQueue
  written,    \* whether the event at its head is in the journal's file
  file,       \* the events a restart would replay
  kept,       \* EventJournal.events
  history,    \* history
  restarts,   \* restarts of the relay
  faults,     \* appends that failed
  attached,   \* whether the client is one of `clients'
  downlink,   \* frames on their way to it
  state,      \* ControlClient.state
  given,      \* history: the events handed over since the last snapshot began
  snapshots   \* connections of the client so far

agent  == <<run, up, sequence, queue, link, pending, forgotten, emitted>>
relay  == <<journal, inbox, written, file, kept, history, restarts, faults>>
client == <<state, given, snapshots>>
vars   == <<agent, wires, relay, attached, downlink, client>>

INSTANCE ControlPlane

Event == [eventId : (1..MaxRuns) \X (1..MaxEvents), host : {Host},
          sequence : 1..MaxEvents, at : 1..MaxRuns,
          session : {Session, NoSession}, type : EventTypes,
          subject : {<<>>} \cup ((1..MaxRuns) \X (1..MaxEvents)),
          value : {"none"} \cup Decisions \cup {r.value : r \in Reports}]

Window(events) == Newest(events, MaxHistory)

Init ==
  /\ run = 0 /\ up = FALSE /\ sequence = 0 /\ queue = <<>> /\ link = 0
  /\ pending = {} /\ forgotten = {} /\ emitted = 0
  /\ wires = <<>>
  /\ journal \in Journals /\ inbox = <<>> /\ written = FALSE
  /\ file = <<>> /\ kept = <<>> /\ history = <<>>
  /\ restarts = 0 /\ faults = 0
  /\ attached = FALSE /\ downlink = <<>>
  /\ state = createEmptyState /\ given = <<>> /\ snapshots = 0

-----------------------------------------------------------------------------
(* The agent.                                                              *)

(* EventFactory.create: one sequence for all events of a run.              *)
create(r, n, session, type, subject, value) ==
  [eventId |-> <<r, n>>, host |-> Host, sequence |-> n, at |-> r,
   session |-> session, type |-> type, subject |-> subject, value |-> value]

Carried(c, event) ==
  IF wires[c].open THEN [wires EXCEPT ![c].frames = Append(@, event)] ELSE wires

(* Mutant: the queue is not cut.                                           *)
publish_Unbounded(event) ==
  IF link # 0
  THEN wires' = Carried(link, event) /\ UNCHANGED queue
  ELSE queue' = Append(queue, event) /\ UNCHANGED wires

(* RelayClient.publish: a frame given to a socket is forgotten.            *)
publish(event) ==
  IF link # 0
  THEN wires' = Carried(link, event) /\ UNCHANGED queue
  ELSE queue' = Newest(Append(queue, event), MaxQueue) /\ UNCHANGED wires

Emit(session, type, subject, value) ==
  /\ up
  /\ emitted < MaxEvents
  /\ publish(create(run, sequence + 1, session, type, subject, value))
  /\ sequence' = sequence + 1
  /\ emitted' = emitted + 1

(* AgentController.start of a new process; nothing is connected yet.       *)
StartAgent ==
  /\ ~up
  /\ run < MaxRuns
  /\ emitted < MaxEvents
  /\ run' = run + 1
  /\ up' = TRUE
  /\ sequence' = 1
  /\ queue' = <<create(run + 1, 1, NoSession, "host.connected", <<>>, "none")>>
  /\ link' = 0
  /\ pending' = {}
  /\ forgotten' = {}
  /\ emitted' = emitted + 1
  /\ UNCHANGED <<wires, relay, attached, downlink, client>>

(* The heartbeat, and what the adapter tells of its sessions.              *)
Report ==
  /\ \E r \in Reports : Emit(r.session, r.type, <<>>, r.value)
  /\ UNCHANGED <<run, up, link, pending, forgotten, relay, attached, downlink, client>>

(* The adapter asks, and later tells how it was decided.                   *)
Request ==
  /\ Emit(Session, "approval.requested", <<run, sequence + 1>>, "none")
  /\ pending' = pending \cup {<<run, sequence + 1>>}
  /\ UNCHANGED <<run, up, link, forgotten, relay, attached, downlink, client>>

Resolve ==
  /\ \E approval \in pending, decision \in Decisions :
        /\ Emit(Session, "approval.resolved", approval, decision)
        /\ pending' = pending \ {approval}
  /\ UNCHANGED <<run, up, link, forgotten, relay, attached, downlink, client>>

(* A decision comes too late, or cannot be passed on to App Server: the    *)
(* approval is deleted, and the event that would tell of it is not made.   *)
Forget ==
  /\ \E approval \in pending :
        /\ pending' = pending \ {approval}
        /\ forgotten' = forgotten \cup {approval}
  /\ emitted < MaxEvents
  /\ emitted' = emitted + 1
  /\ UNCHANGED <<run, up, sequence, queue, link, wires, relay, attached, downlink, client>>

Ended ==
  /\ up' = FALSE
  /\ link' = 0
  /\ pending' = {}
  /\ forgotten' = {}
  /\ UNCHANGED <<run, relay, attached, downlink, client>>

(* AgentController.stop; what is queued then is lost.                      *)
StopAgent ==
  /\ up
  /\ emitted < MaxEvents
  /\ LET last == create(run, sequence + 1, NoSession, "host.disconnected", <<>>, "none")
     IN  wires' = IF link # 0 THEN Carried(link, last) ELSE wires
  /\ queue' = <<>>
  /\ sequence' = sequence + 1
  /\ emitted' = emitted + 1
  /\ Ended

KillAgent ==
  /\ up
  /\ queue' = <<>>
  /\ Ended
  /\ UNCHANGED <<sequence, emitted, wires>>

(* connectOnce up to auth.result: flushQueue sends what waited.            *)
Connect ==
  /\ up
  /\ link = 0
  /\ Len(wires) < MaxLinks
  /\ wires' = Append(wires, [run |-> run, frames |-> queue, open |-> TRUE])
  /\ link' = Len(wires) + 1
  /\ queue' = <<>>
  /\ UNCHANGED <<run, up, sequence, pending, forgotten, emitted, relay,
                 attached, downlink, client>>

(* The agent's close handler; the other end may still be reading.          *)
Disconnect ==
  /\ link # 0
  /\ link' = 0
  /\ UNCHANGED <<run, up, sequence, queue, pending, forgotten, emitted, wires, relay,
                 attached, downlink, client>>

-----------------------------------------------------------------------------
(* The network and the relay.                                              *)

Cut(wire) == [wire EXCEPT !.open = FALSE, !.frames = <<>>]

(* A connection breaks with what is under way.                             *)
Break ==
  /\ \E c \in DOMAIN wires : wires[c].open /\ wires' = [wires EXCEPT ![c] = Cut(@)]
  /\ UNCHANGED <<agent, relay, attached, downlink, client>>

(* The message handler queues the frame, whichever socket it came from.    *)
Arrive ==
  \E c \in DOMAIN wires :
    /\ wires[c].frames # <<>>
    /\ LateRuns \/ wires[c].run = wires[Len(wires)].run
    /\ inbox' = Append(inbox, Head(wires[c].frames))
    /\ wires' = [wires EXCEPT ![c].frames = Tail(@)]
    /\ UNCHANGED <<agent, journal, written, file, kept, history, restarts, faults,
                   attached, downlink, client>>

broadcastToClients(event) ==
  downlink' = IF attached
              THEN Append(downlink, [kind |-> "event", events |-> <<event>>])
              ELSE downlink

(* handleAgentFrame without a journal.                                     *)
HandleEvent ==
  /\ ~journal
  /\ inbox # <<>>
  /\ history' = Window(Append(history, Head(inbox)))
  /\ broadcastToClients(Head(inbox))
  /\ inbox' = Tail(inbox)
  /\ UNCHANGED <<agent, wires, journal, written, file, kept, restarts, faults,
                 attached, client>>

(* handleAgentFrame with one: append writes, and the rest happens when its *)
(* promise settles.                                                        *)
WriteEvent ==
  /\ journal
  /\ inbox # <<>>
  /\ ~written
  /\ file' = Window(Append(file, Head(inbox)))
  /\ written' = TRUE
  /\ UNCHANGED <<agent, wires, journal, inbox, kept, history, restarts, faults,
                 attached, downlink, client>>

PublishEvent ==
  /\ written
  /\ kept' = Window(Append(kept, Head(inbox)))
  /\ history' = kept'
  /\ broadcastToClients(Head(inbox))
  /\ inbox' = Tail(inbox)
  /\ written' = FALSE
  /\ UNCHANGED <<agent, wires, journal, file, restarts, faults, attached, client>>

(* The append fails: before the event is in the file, in datasync, or in   *)
(* compact, after `events' has taken it.  The socket is told to close,     *)
(* which breaks it in its own time.                                        *)
AppendFails ==
  /\ journal
  /\ restarts + faults < MaxFailures
  /\ faults' = faults + 1
  /\ inbox # <<>>
  /\ \/ UNCHANGED kept
     \/ written /\ kept' = Window(Append(kept, Head(inbox)))
  /\ inbox' = Tail(inbox)
  /\ written' = FALSE
  /\ UNCHANGED <<agent, wires, journal, file, history, restarts, attached, downlink, client>>

(* The relay ends and starts: all sockets go, the journal is replayed.     *)
RestartRelay ==
  /\ restarts + faults < MaxFailures
  /\ restarts' = restarts + 1
  /\ inbox' = <<>>
  /\ written' = FALSE
  /\ kept' = file
  /\ history' = file
  /\ wires' = [c \in DOMAIN wires |-> Cut(wires[c])]
  /\ attached' = FALSE
  /\ downlink' = <<>>
  /\ UNCHANGED <<agent, journal, file, faults, client>>

-----------------------------------------------------------------------------
(* The client.                                                             *)

(* Mutant: the snapshot is read from the journal's file.                   *)
Subscribe_FileSnapshot ==
  /\ ~attached
  /\ snapshots < MaxSnapshots
  /\ snapshots' = snapshots + 1
  /\ attached' = TRUE
  /\ downlink' = <<[kind |-> "snapshot", events |-> file]>>
  /\ UNCHANGED <<agent, wires, relay, state, given>>

(* authenticate puts it among the clients and sends the history.           *)
Subscribe ==
  /\ ~attached
  /\ snapshots < MaxSnapshots
  /\ snapshots' = snapshots + 1
  /\ attached' = TRUE
  /\ downlink' = <<[kind |-> "snapshot", events |-> history]>>
  /\ UNCHANGED <<agent, wires, relay, state, given>>

(* handleMessage: a snapshot replaces the state, an event changes it.      *)
Receive ==
  /\ downlink # <<>>
  /\ LET frame == Head(downlink)
     IN  IF frame.kind = "snapshot"
         THEN state' = reduceEvents(frame.events) /\ given' = frame.events
         ELSE state' = reduceEvent(state, frame.events[1])
              /\ given' = given \o frame.events
  /\ downlink' = Tail(downlink)
  /\ UNCHANGED <<agent, wires, relay, attached, snapshots>>

(* The close handlers; frames of the old socket are not listened to.       *)
Unsubscribe ==
  /\ attached
  /\ attached' = FALSE
  /\ downlink' = <<>>
  /\ UNCHANGED <<agent, wires, relay, client>>

-----------------------------------------------------------------------------
AgentNext == \/ StartAgent \/ Report \/ Request \/ Resolve \/ Forget
             \/ StopAgent \/ KillAgent \/ Connect \/ Disconnect
RelayNext == \/ Arrive \/ HandleEvent \/ WriteEvent \/ PublishEvent \/ AppendFails
Next == \/ AgentNext \/ RelayNext \/ Break \/ RestartRelay
        \/ Subscribe \/ Receive \/ Unsubscribe

Spec == Init /\ [][Next]_vars

-----------------------------------------------------------------------------
(* Properties.                                                             *)

(* What the client has been handed, or is about to be: a snapshot starts   *)
(* anew, and an event comes after what is there.                           *)
Handed ==
  LET fresh == downlink # <<>> /\ Head(downlink).kind = "snapshot"
      start == IF fresh THEN Head(downlink).events ELSE given
      next  == IF fresh THEN Tail(downlink) ELSE downlink
  IN  start \o [n \in DOMAIN next |-> next[n].events[1]]

(* The state after the first n events handed over.                         *)
View(n) == reduceEvents(SubSeq(given, 1, n))

Dropped == {n \in DOMAIN given : Ignored(View(n - 1), given[n])}
Taken   == DOMAIN given \ Dropped

(* The host said one event before the other, or they are the same.         *)
NotAfter(e, f) == e.at < f.at \/ (e.at = f.at /\ e.sequence <= f.sequence)

Wire == [run : 1..MaxRuns, frames : Seq(Event), open : BOOLEAN]

(* Every variable has its type, and every buffer its size.                 *)
TypeOK ==
  /\ run \in 0..MaxRuns /\ up \in BOOLEAN /\ sequence \in 0..MaxEvents
  /\ emitted \in 0..MaxEvents /\ link \in 0..Len(wires)
  /\ queue \in Seq(Event) /\ Len(queue) <= MaxQueue
  /\ pending \cup forgotten \subseteq (1..MaxRuns) \X (1..MaxEvents)
  /\ wires \in Seq(Wire) /\ Len(wires) <= MaxLinks
  /\ journal \in Journals /\ inbox \in Seq(Event)
  /\ written \in BOOLEAN /\ (written => inbox # <<>>)
  /\ \A events \in {file, kept, history} :
        events \in Seq(Event) /\ Len(events) <= MaxHistory
  /\ restarts \in 0..MaxFailures /\ faults \in 0..MaxFailures
  /\ snapshots \in 0..MaxSnapshots
  /\ attached \in BOOLEAN /\ (~attached => downlink = <<>>)
  /\ downlink \in Seq([kind : {"snapshot", "event"}, events : Seq(Event)])
  /\ \A n \in DOMAIN downlink : /\ downlink[n].kind = "snapshot" => n = 1
                                /\ downlink[n].kind = "event" => Len(downlink[n].events) = 1
  /\ given \in Seq(Event)

(* A client that is subscribed has been handed, or is about to be, the     *)
(* relay's whole history in its order and nothing twice, as long as no     *)
(* append has failed: the snapshot and the broadcasts that follow it join  *)
(* without a gap or an overlap.                                            *)
SubscribersFollowHistory ==
  attached /\ faults = 0 =>
    LET skipped == Len(Handed) - Len(history)
    IN  /\ skipped >= 0
        /\ SubSeq(Handed, skipped + 1, Len(Handed)) = history
        /\ \A m, n \in DOMAIN Handed : Handed[m] = Handed[n] => m = n

(* A client that took the host.connected of a run ignores no event of that *)
(* run, and a client that took any ignores no host.connected, unless it    *)
(* was handed the same event or a later one of the host before.            *)
OnlyOvertakenIgnored ==
  \A n \in Dropped :
    (\E m \in Taken : /\ m < n
                      /\ given[m].type = "host.connected"
                      /\ \/ given[m].at = given[n].at
                         \/ given[n].type = "host.connected")
    => \E m \in DOMAIN given : m < n /\ NotAfter(given[n], given[m])

(* A client that was handed all a running agent said, in order, and took   *)
(* its host.connected, shows as pending what the agent waits for and what  *)
(* this run of it gave up without an event: no request is missing, nothing *)
(* is left over from earlier runs, and nothing is shown that was decided.  *)
ViewIsTruth ==
  LET ofRun(event) == event.at = run
      heard == {n \in DOMAIN given : ofRun(given[n])}
      shown == {a \in DOMAIN state.approvals : state.approvals[a].status = "pending"}
  IN  (/\ up
       /\ Cardinality(heard) = sequence
       /\ \A m, n \in heard : m < n => given[m].sequence < given[n].sequence
       /\ \E n \in heard : given[n].type = "host.connected" /\ n \in Taken)
      => shown = pending \cup forgotten

(* What a client shows of an approval is what it took last of it: that it  *)
(* was asked for, pending until a decision or a start of the host is taken *)
(* after that, then cancelled, or decided as the decision says.            *)
ShownWasSaid ==
  \A a \in DOMAIN state.approvals :
    \E n \in Taken :
      LET status   == state.approvals[a].status
          later    == {m \in Taken : m > n}
          verdicts == {m \in later : /\ given[m].type = "approval.resolved"
                                     /\ given[m].subject = a}
          starts   == {m \in later : given[m].type = "host.connected"}
      IN  /\ given[n].type = "approval.requested" /\ given[n].subject = a
          /\ verdicts # {} => \E m \in verdicts : status = given[m].value
          /\ verdicts = {} => status = IF starts = {} THEN "pending" ELSE "cancel"

(* The events that change what is shown as the status of a session.        *)
SetsStatus(n, s) ==
  \/ given[n].type \in {"host.connected", "host.disconnected"}
  \/ /\ given[n].type \in {"session.upserted", "session.status.changed",
                            "approval.requested"}
     /\ given[n].session = s
  \/ /\ given[n].type = "approval.resolved"
     /\ \E k \in Taken : /\ k < n
                         /\ given[k].type = "approval.requested"
                         /\ given[k].subject = given[n].subject

(* A session is shown as waiting because an approval of it is shown as     *)
(* pending, or because the host itself reported it so and nothing taken    *)
(* since has changed that: no decision, restart or end of the host leaves  *)
(* a session waiting for what is no longer asked.                          *)
WaitingMeansPending ==
  \A s \in DOMAIN state.sessions :
    state.sessions[s].status = "waiting_approval" =>
      \/ \E a \in DOMAIN state.approvals :
           state.approvals[a].session = s /\ state.approvals[a].status = "pending"
      \/ \E n \in Taken : /\ given[n].type \in {"session.upserted", "session.status.changed"}
                          /\ given[n].session = s
                          /\ given[n].value = "waiting_approval"
                          /\ \A m \in Taken : m > n => ~SetsStatus(m, s)

(* packages/protocol/test/protocol.test.ts: a client accepts a fresh       *)
(* sequence after the host agent restarts.                                 *)
RestartsAreTaken ==
  \A n \in Dropped :
    given[n].type = "host.connected" =>
      \E m \in DOMAIN given : m < n /\ NotAfter(given[n], given[m])

(* packages/protocol/test/protocol.test.ts: a client ignores duplicate and *)
(* out-of-order host events.                                               *)
OutOfOrderIgnored ==
  \A n \in Taken, m \in DOMAIN given : m < n => ~NotAfter(given[n], given[m])
=============================================================================
