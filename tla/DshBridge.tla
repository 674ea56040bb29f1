----------------------------- MODULE DshBridge -----------------------------
(***************************************************************************)
(* The plugin that makes a DeepSeek Harness a host of the relay            *)
(* (packages/dsh-plugin/src/bridge.js and mapping.js): its connection with *)
(* the timer that renews it, its queue, and the approvals it answers for   *)
(* the Harness, each of which a decision, a timer and stop compete for.    *)
(*                                                                         *)
(* The environment is the Harness, the clients, the network, and a relay   *)
(* that may lose, repeat and readdress decisions but not make one.  An     *)
(* approval is known by its number.  A bridge starts once.                 *)
(***************************************************************************)
EXTENDS Integers, Sequences, SequencesExt, FiniteSets

CONSTANTS
  Sessions,        \* of the Harness
  CallIds,         \* callId of a tool call
  Commands,        \* what a tool call may ask to run
  Options,         \* what clients choose from: "approve_once", "decline", "cancel"
  NoSession,       \* an envelope without sessionId
  MaxQueue,        \* the 1000 newest frames are kept
  ApprovalLife,    \* approvalTimeoutMs
  CommandLife,     \* between emittedAt and expiresAt of a command
  Watched,         \* types of the events that the history keeps
  MaxTime,         \* bound: the clock
  MaxApprovals,    \* bound: approvals
  MaxDecisions,    \* bound: decisions of clients
  MaxReports,      \* bound: the sequence after which there are no more reports
  MaxSockets       \* bound: sockets

ASSUME OptionsAssumption == Options \subseteq {"approve_once", "decline", "cancel"}
ASSUME LivesAssumption ==
  /\ {MaxQueue, ApprovalLife, CommandLife} \subseteq Nat \ {0}
  /\ {MaxTime, MaxApprovals, MaxDecisions, MaxReports, MaxSockets} \subseteq Nat

NoCommand == "no command"

VARIABLES
  phase,          \* "new", "running" or "stopped"
  sockets,        \* every socket ever made: its state
  socket,         \* this.socket, 0 for none
  served,         \* sockets with an auth.result
  authenticated,
  reconnectTimer, \* it is set
  queue, sequence,
  seenSessions, toolCalls,
  approvals,      \* in order of request: session, command and expiresAt
  pendingApprovals,
  timers,         \* approvals whose timeout is set
  outcome,        \* by approval: what the Harness was told, "none" before that
  decisions,      \* of clients, in order: digest, decision, expiresAt
  now,
  sent,           \* history: the events handed to a socket, in order
  said,           \* history: the events that say what was decided, sent or not:
                  \* place, subject and value
  verdicts        \* history: the results that say ok: <<approval, decision>>

linkVars     == <<sockets, socket, served, authenticated, reconnectTimer>>
frameVars    == <<queue, sequence, sent, said>>
mapperVars   == <<seenSessions, toolCalls>>
approvalVars == <<approvals, pendingApprovals, timers, outcome, verdicts>>
vars == <<phase, linkVars, frameVars, mapperVars, approvalVars, decisions, now>>

Init ==
  /\ phase = "new"
  /\ sockets = <<>> /\ socket = 0 /\ served = {}
  /\ authenticated = FALSE /\ reconnectTimer = FALSE
  /\ queue = <<>> /\ sequence = 0 /\ sent = <<>> /\ said = {}
  /\ seenSessions = {} /\ toolCalls = [c \in {} |-> NoCommand]
  /\ approvals = <<>> /\ pendingApprovals = {} /\ timers = {} /\ outcome = <<>>
  /\ verdicts = <<>> /\ decisions = <<>> /\ now = 0

-----------------------------------------------------------------------------
(* Frames.                                                                 *)

Event(session, type, subject, value) ==
  [session |-> session, type |-> type, subject |-> subject, value |-> value]

OfHost(type) == Event(NoSession, type, 0, "")
Status(session, value) == Event(session, "session.status.changed", 0, value)
Decided(a, decision) == Event(approvals[a].session, "approval.resolved", a, decision)

IsEvent(frame) == frame.type \notin {"pairing.offer", "command.result"}

(* The sequence number of the i-th of some frames, if it is an event.      *)
Number(frames, i) == sequence + Cardinality({j \in 1..i : IsEvent(frames[j])})

(* The envelopes of publishEvent, in the order of which time passes.  Of   *)
(* frames that are not watched it only matters how many there are.         *)
Enveloped(frames) ==
  [i \in DOMAIN frames |->
     IF frames[i].type \notin Watched THEN [type |-> "any"]
     ELSE LET n == Number(frames, i)
          IN  frames[i] @@ [eventId |-> n, sequence |-> n, host |-> "dsh", at |-> n]]

(* Mutant: the queue has no bound.                                         *)
Newest_All(q) == q

Newest(q) == IF Len(q) <= MaxQueue THEN q ELSE SubSeq(q, Len(q) - MaxQueue + 1, Len(q))

IsOpen == socket # 0 /\ sockets[socket] = "open"
Live   == IsOpen /\ authenticated

(* close of this.socket does something.                                    *)
Closable == socket # 0 /\ sockets[socket] \in {"connecting", "open"}

Hand(frames) == sent' = sent \o SelectSeq(frames, LAMBDA e : e.type \in Watched)

(* Those that say what was decided of an approval of the bridge.           *)
Says(frames) ==
  {[place |-> Cardinality(said) + i, subject |-> frames[i].subject, value |-> frames[i].value] :
     i \in {j \in DOMAIN frames : frames[j].type = "approval.resolved" /\ frames[j].subject # 0}}

(* publish and publishEvent, of several frames one after the other.        *)
publish(frames) ==
  /\ sequence' = Number(frames, Len(frames))
  /\ said' = said \cup Says(frames)
  /\ IF Live THEN Hand(Enveloped(frames)) /\ UNCHANGED queue
     ELSE queue' = Newest(queue \o Enveloped(frames)) /\ UNCHANGED sent

-----------------------------------------------------------------------------
(* The connection.                                                         *)

Begun(s)     == sockets' = Append(s, "connecting") /\ socket' = Len(s) + 1
State(s, to) == sockets' = [sockets EXCEPT ![s] = to]

Start ==
  /\ phase = "new"
  /\ phase' = "running"
  /\ Begun(sockets)
  /\ UNCHANGED <<served, authenticated, reconnectTimer, frameVars, mapperVars, approvalVars,
                 decisions, now>>

(* The socket opens and auth is sent.                                      *)
Opens(s) ==
  /\ sockets[s] = "connecting"
  /\ State(s, "open")
  /\ UNCHANGED <<phase, socket, served, authenticated, reconnectTimer, frameVars, mapperVars,
                 approvalVars, decisions, now>>

(* The other end closes.                                                   *)
Closing(s) ==
  /\ sockets[s] = "open"
  /\ State(s, "closing")
  /\ UNCHANGED <<phase, socket, served, authenticated, reconnectTimer, frameVars, mapperVars,
                 approvalVars, decisions, now>>

(* Mutant: only a socket that had been authenticated is replaced.          *)
scheduleReconnect_Authenticated ==
  reconnectTimer' = (reconnectTimer \/ (phase = "running" /\ authenticated))

scheduleReconnect == reconnectTimer' = (reconnectTimer \/ phase = "running")

Error(s) ==
  /\ sockets[s] \in {"connecting", "open", "closing"}
  /\ State(s, "failed")
  /\ scheduleReconnect
  /\ UNCHANGED <<phase, socket, served, authenticated, frameVars, mapperVars, approvalVars,
                 decisions, now>>

(* close: whichever socket it is, this.authenticated is cleared.           *)
Close(s) ==
  /\ sockets[s] \in {"closing", "failed"}
  /\ State(s, "closed")
  /\ authenticated' = FALSE
  /\ scheduleReconnect
  /\ UNCHANGED <<phase, socket, served, frameVars, mapperVars, approvalVars, decisions, now>>

Reconnect ==
  /\ reconnectTimer
  /\ Len(sockets) < MaxSockets
  /\ reconnectTimer' = FALSE
  /\ Begun(sockets)
  /\ UNCHANGED <<phase, served, authenticated, frameVars, mapperVars, approvalVars, decisions, now>>

(* auth.result with ok: host.connected, the pairing offer, then flushQueue. *)
Authenticated(s) ==
  /\ sockets[s] \in {"open", "closing"} /\ s \notin served
  /\ served' = served \cup {s}
  /\ authenticated' = TRUE
  /\ sequence' = sequence + 1
  /\ LET hello == Enveloped(<<OfHost("host.connected"), OfHost("pairing.offer")>>)
     IN  IF IsOpen THEN Hand(hello \o queue) /\ queue' = <<>>
         ELSE queue' = Newest(queue \o hello) /\ UNCHANGED sent
  /\ UNCHANGED said
  /\ UNCHANGED <<phase, sockets, socket, reconnectTimer, mapperVars, approvalVars, decisions, now>>

(* auth.result without ok: this.socket is closed, whichever it is.         *)
Rejected(s) ==
  /\ sockets[s] \in {"open", "closing"} /\ s \notin served
  /\ served' = served \cup {s}
  /\ IF Closable THEN State(socket, "closing") ELSE UNCHANGED sockets
  /\ UNCHANGED <<phase, socket, authenticated, reconnectTimer, frameVars, mapperVars,
                 approvalVars, decisions, now>>

-----------------------------------------------------------------------------
(* The Harness reports: mapping.js.                                        *)

Heartbeat ==
  /\ phase = "running" /\ sequence < MaxReports
  /\ publish(<<OfHost("host.heartbeat")>>)
  /\ UNCHANGED <<phase, linkVars, mapperVars, approvalVars, decisions, now>>

(* What mapSessionEvent makes of a Harness event: most are shown, some are *)
(* not; an approval/decided carries an id of the Harness, which is none of *)
(* the bridge's.                                                           *)
Mapped(session) ==
  LET content == Event(session, "session.content", 0, "")
  IN  {<<>>, <<content>>, <<content, Status(session, "idle")>>,
       <<Event(session, "approval.resolved", 0, "decline")>>}

Introduced(session) ==
  IF session \in seenSessions THEN <<>>
  ELSE <<Event(session, "session.upserted", 0, "running")>>

SessionEvent(session) ==
  /\ sequence < MaxReports
  /\ seenSessions' = seenSessions \cup {session}
  /\ \E frames \in Mapped(session) : publish(Introduced(session) \o frames)
  /\ UNCHANGED <<phase, linkVars, toolCalls, approvalVars, decisions, now>>

(* rememberToolCall: the last call of a session with this id.              *)
ToolCall(session, callId, command) ==
  /\ sequence < MaxReports
  /\ seenSessions' = seenSessions \cup {session}
  /\ toolCalls' = [call \in DOMAIN toolCalls \cup {<<session, callId>>} |->
                     IF call = <<session, callId>> THEN command ELSE toolCalls[call]]
  /\ publish(Append(Introduced(session), Event(session, "session.content", 0, "")))
  /\ UNCHANGED <<phase, linkVars, approvalVars, decisions, now>>

commandFromCall(session, callId) ==
  IF <<session, callId>> \in DOMAIN toolCalls THEN toolCalls[<<session, callId>>] ELSE NoCommand

-----------------------------------------------------------------------------
(* Approvals.                                                              *)

(* sha256Hex of canonicalizeApproval: injective, and the id is part of it. *)
Digest(a) == <<a, approvals[a].command>>

requestApproval(session, callId) ==
  LET a == Len(approvals) + 1
  IN  /\ a <= MaxApprovals /\ now + ApprovalLife <= MaxTime
      /\ approvals' = Append(approvals, [session |-> session,
                                         command |-> commandFromCall(session, callId),
                                         expiresAt |-> now + ApprovalLife])
      /\ pendingApprovals' = pendingApprovals \cup {a}
      /\ timers' = timers \cup {a}
      /\ outcome' = Append(outcome, "none")
      /\ publish(<<Status(session, "waiting_approval"), Event(session, "approval.requested", a, "")>>)
      /\ UNCHANGED <<phase, linkVars, mapperVars, verdicts, decisions, now>>

(* A promise is resolved once.                                             *)
Resolve(set, told) ==
  outcome' = [a \in DOMAIN outcome |-> IF a \in set /\ outcome[a] = "none" THEN told ELSE outcome[a]]

(* Mutants: the timer of what was decided, or what was decided, stays.     *)
Forget_Timer(a)   == pendingApprovals' = pendingApprovals \ {a} /\ UNCHANGED timers
Forget_Pending(a) == timers' = timers \ {a} /\ UNCHANGED pendingApprovals

(* It is pending no longer, and its timer is cleared or has run.           *)
Forget(a) == pendingApprovals' = pendingApprovals \ {a} /\ timers' = timers \ {a}

TimesOut(a) ==
  /\ a \in timers /\ now >= approvals[a].expiresAt
  /\ Forget(a)
  /\ Resolve({a}, "unavailable")
  /\ publish(<<Decided(a, "cancel")>>)
  /\ UNCHANGED <<phase, linkVars, mapperVars, approvals, verdicts, decisions, now>>

normalizeDecision(decision) ==
  CASE decision = "approve_once" -> "allowed-once"
    [] decision = "decline"      -> "rejected"
    [] decision = "cancel"       -> "cancelled"

Result == OfHost("command.result")

(* resolveApproval, and the result that says ok.                           *)
Settle(a, d) ==
  /\ Forget(a)
  /\ Resolve({a}, normalizeDecision(decisions[d].decision))
  /\ publish(<<Decided(a, decisions[d].decision), Status(approvals[a].session, "running"), Result>>)
  /\ verdicts' = Append(verdicts, <<a, d>>)
  /\ UNCHANGED <<phase, linkVars, mapperVars, approvals, decisions, now>>

(* The relay hands on decision d, under the name of approval a.  Whoever   *)
(* is refused gets a result that says so.                                  *)
handleCommand(s, d, a) ==
  /\ s \in served /\ sockets[s] \in {"open", "closing"}
  /\ IF /\ now < decisions[d].expiresAt
        /\ a \in pendingApprovals /\ Digest(a) = decisions[d].digest
     THEN Settle(a, d)
     ELSE /\ publish(<<Result>>)
          /\ UNCHANGED <<phase, linkVars, mapperVars, approvalVars, decisions, now>>

(* Mutant: stop forgets to answer what is pending.                         *)
Dismiss_Unanswered == pendingApprovals' = {} /\ timers' = {} /\ UNCHANGED outcome

(* What is pending is answered, and no event says so.                      *)
Dismiss ==
  /\ Resolve(pendingApprovals, "unavailable")
  /\ pendingApprovals' = {} /\ timers' = {}

Stop ==
  /\ phase = "running"
  /\ phase' = "stopped"
  /\ reconnectTimer' = FALSE
  /\ publish(<<OfHost("host.disconnected")>>)
  /\ socket' = 0 /\ authenticated' = FALSE
  /\ IF Closable THEN State(socket, "closing") ELSE UNCHANGED sockets
  /\ Dismiss
  /\ UNCHANGED <<served, mapperVars, approvals, verdicts, decisions, now>>

-----------------------------------------------------------------------------
(* A client decides on what was shown, whatever became of it.              *)
Decide(a, decision) ==
  /\ Len(decisions) < MaxDecisions
  /\ decisions' = Append(decisions, [digest |-> Digest(a), decision |-> decision,
                                     expiresAt |-> now + CommandLife])
  /\ UNCHANGED <<phase, linkVars, frameVars, mapperVars, approvalVars, now>>

(* Timers are not late by as much as the clock's step.                     *)
Tick ==
  /\ now < MaxTime
  /\ \A a \in timers : now < approvals[a].expiresAt
  /\ now' = now + 1
  /\ UNCHANGED <<phase, linkVars, frameVars, mapperVars, approvalVars, decisions>>

SocketStep(s) ==
  Opens(s) \/ Closing(s) \/ Error(s) \/ Close(s) \/ Authenticated(s) \/ Rejected(s)

Next ==
  \/ Start \/ Stop \/ Reconnect \/ Heartbeat \/ Tick
  \/ \E s \in DOMAIN sockets :
       \/ SocketStep(s)
       \/ \E d \in DOMAIN decisions, a \in DOMAIN approvals : handleCommand(s, d, a)
  \/ \E session \in Sessions :
       \/ SessionEvent(session)
       \/ \E callId \in CallIds :
            \/ requestApproval(session, callId)
            \/ \E command \in Commands : ToolCall(session, callId, command)
  \/ \E a \in DOMAIN approvals :
       TimesOut(a) \/ \E decision \in Options : Decide(a, decision)

Spec == Init /\ [][Next]_vars

FairSpec ==
  /\ Spec
  /\ WF_vars(Tick)
  /\ \A a \in 1..MaxApprovals : WF_vars(a \in DOMAIN approvals /\ TimesOut(a))

-----------------------------------------------------------------------------
SocketState == {"connecting", "open", "closing", "failed", "closed"}

(* Types, and the bound on the queue.                                      *)
TypeOK ==
  /\ phase \in {"new", "running", "stopped"}
  /\ sockets \in Seq(SocketState) /\ socket \in 0..Len(sockets)
  /\ served \subseteq DOMAIN sockets /\ {authenticated, reconnectTimer} \subseteq BOOLEAN
  /\ Len(queue) <= MaxQueue /\ sequence \in Nat
  /\ seenSessions \subseteq Sessions
  /\ toolCalls \in [DOMAIN toolCalls -> Commands] /\ DOMAIN toolCalls \subseteq Sessions \X CallIds
  /\ Len(outcome) = Len(approvals)
  /\ outcome \in Seq({"none", "allowed-once", "rejected", "cancelled", "unavailable"})
  /\ {pendingApprovals, timers} \subseteq SUBSET (DOMAIN approvals)
  /\ now \in 0..MaxTime

(* Whatever is decided of an approval is decided once and told everybody:  *)
(* the Harness, the clients and whoever got an ok hear the same, although  *)
(* a decision, the timeout and stop may come together.                     *)
OneOutcome ==
  /\ \A i \in DOMAIN verdicts :
       /\ outcome[verdicts[i][1]] = normalizeDecision(decisions[verdicts[i][2]].decision)
       /\ \A j \in DOMAIN verdicts : verdicts[i][1] = verdicts[j][1] => i = j
  /\ \A e \in said :
       /\ outcome[e.subject] \in {normalizeDecision(e.value)} \cup
            (IF e.value = "cancel" THEN {"unavailable"} ELSE {})
       /\ \A f \in said : e.subject = f.subject => e = f

(* A bridge that runs is never left without a connection to wait for: its  *)
(* socket is not closed yet, or a timer will make another.                 *)
NeverStranded ==
  phase = "running" => reconnectTimer \/ sockets[socket] # "closed"

(* The Harness, which waits for an answer to each request, gets one.       *)
RequestsSettle ==
  \A a \in 1..MaxApprovals : (a \in DOMAIN outcome) ~> (a \in DOMAIN outcome /\ outcome[a] # "none")
=============================================================================
