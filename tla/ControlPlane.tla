---------------------------- MODULE ControlPlane ----------------------------
(***************************************************************************)
(* The view a client makes of the events of its hosts                      *)
(* (packages/protocol/src/state.ts).                                       *)
(*                                                                         *)
(* An event is a record [eventId, host, sequence, at, session, type,       *)
(* subject, value]: `at' is emittedAt (and payload.at of a heartbeat),     *)
(* `session' is NoSession when it has none, `subject' is the approvalId,   *)
(* and `value' is the status or the decision it carries.  Titles,          *)
(* activities, messages and diffs are display: an event of type            *)
(* "session.content" stands for the three types that only change these.    *)
(***************************************************************************)
LOCAL INSTANCE Naturals
LOCAL INSTANCE Sequences

CONSTANTS
  NoSession,     \* an envelope without sessionId
  MaxEventIds    \* MAX_EVENT_IDS

EventTypes == {"host.connected", "host.heartbeat", "host.disconnected",
               "session.upserted", "session.status.changed", "session.content",
               "approval.requested", "approval.resolved"}

(* A record keyed by identifiers is a function on those that occur.        *)
Nothing      == [x \in {} |-> x]
Put(f, k, v) == [x \in DOMAIN f \cup {k} |-> IF x = k THEN v ELSE f[x]]

createEmptyState ==
  [hosts |-> Nothing, sessions |-> Nothing, approvals |-> Nothing,
   lastSequenceByHost |-> Nothing, recentEventIds |-> <<>>]

LastSequence(s, h) ==
  IF h \in DOMAIN s.lastSequenceByHost THEN s.lastSequenceByHost[h] ELSE 0

(* A host that counts from one again, later than it was last seen.         *)
HostRestarted(s, e) ==
  /\ e.type = "host.connected"
  /\ e.sequence <= LastSequence(s, e.host)
  /\ e.host \in DOMAIN s.hosts
  /\ e.at > s.hosts[e.host].lastSeenAt

Ignored(s, e) ==
  \/ \E i \in DOMAIN s.recentEventIds : s.recentEventIds[i] = e.eventId
  \/ e.sequence <= LastSequence(s, e.host) /\ ~HostRestarted(s, e)

Newest(q, n) == IF Len(q) <= n THEN q ELSE SubSeq(q, Len(q) - n + 1, Len(q))

(* Mutant: the sequence of a host never goes down.                         *)
Recorded_Highest(s, e) ==
  [s EXCEPT !.lastSequenceByHost =
              Put(@, e.host, IF e.sequence > LastSequence(s, e.host)
                             THEN e.sequence ELSE LastSequence(s, e.host)),
            !.recentEventIds = Newest(Append(@, e.eventId), MaxEventIds)]

Recorded(s, e) ==
  [s EXCEPT !.lastSequenceByHost = Put(@, e.host, e.sequence),
            !.recentEventIds = Newest(Append(@, e.eventId), MaxEventIds)]

SessionsOffline(s, h) ==
  [s EXCEPT !.sessions = [k \in DOMAIN @ |->
     IF @[k].host = h THEN [@[k] EXCEPT !.status = "offline"] ELSE @[k]]]

(* Mutant: a restart cancels what was decided, too.                        *)
PendingCancelled_All(s, h) ==
  [s EXCEPT !.approvals = [k \in DOMAIN @ |->
     IF @[k].host = h THEN [@[k] EXCEPT !.status = "cancel"] ELSE @[k]]]

PendingCancelled(s, h) ==
  [s EXCEPT !.approvals = [k \in DOMAIN @ |->
     IF @[k].host = h /\ @[k].status = "pending"
     THEN [@[k] EXCEPT !.status = "cancel"] ELSE @[k]]]

(* Mutants: a restart ends only the sessions, or only the approvals.       *)
Restarted_ApprovalsStay(s, h) == SessionsOffline(s, h)
Restarted_SessionsStay(s, h)  == PendingCancelled(s, h)

(* A restart ends what the former process was doing.                       *)
Restarted(s, h) == PendingCancelled(SessionsOffline(s, h), h)

(* The session of an event, or placeholderSession.                         *)
existingSession(s, e) ==
  IF e.session \in DOMAIN s.sessions THEN s.sessions[e.session]
  ELSE [host |-> e.host, status |-> "idle"]

WithStatus(s, e, status) ==
  [s EXCEPT !.sessions = Put(@, e.session, [existingSession(s, e) EXCEPT !.status = status])]

Connected(s, e) ==
  [s EXCEPT !.hosts = Put(@, e.host, [online |-> TRUE, lastSeenAt |-> e.at])]

Seen(s, e, online) ==
  IF e.host \in DOMAIN s.hosts
  THEN [s EXCEPT !.hosts = Put(@, e.host, [online |-> online, lastSeenAt |-> e.at])]
  ELSE s

Upserted(s, e) ==
  [s EXCEPT !.sessions = Put(@, e.session, [host |-> e.host, status |-> e.value])]

Requested(s, e) ==
  WithStatus([s EXCEPT !.approvals = Put(@, e.subject,
                [host |-> e.host, session |-> e.session, status |-> "pending"])],
             e, "waiting_approval")

(* A decision also moves a session that waits, and no other.               *)
Resolved(s, e) ==
  LET approval == s.approvals[e.subject]
      known    == approval.session \in DOMAIN s.sessions
      waiting  == known /\ s.sessions[approval.session].status = "waiting_approval"
      moved    == IF e.value = "approve_once" THEN "running" ELSE "interrupted"
      settled  == [s EXCEPT !.approvals[e.subject].status = e.value]
  IN  IF waiting
      THEN [settled EXCEPT !.sessions[approval.session].status = moved]
      ELSE settled

(* The switch over the types of events.                                    *)
Applied(s, e) ==
  LET inSession == e.session # NoSession
      kept      == existingSession(s, e).status
  IN  CASE e.type = "host.connected"     -> Connected(s, e)
        [] e.type = "host.heartbeat"     -> Seen(s, e, TRUE)
        [] e.type = "host.disconnected"  -> SessionsOffline(Seen(s, e, FALSE), e.host)
        [] e.type = "session.upserted" /\ inSession       -> Upserted(s, e)
        [] e.type = "session.status.changed" /\ inSession -> WithStatus(s, e, e.value)
        [] e.type = "session.content" /\ inSession        -> WithStatus(s, e, kept)
        [] e.type = "approval.requested" /\ inSession     -> Requested(s, e)
        [] e.type = "approval.resolved" /\ e.subject \in DOMAIN s.approvals
                                         -> Resolved(s, e)
        [] OTHER                         -> s

reduceEvent(s, e) ==
  LET recorded == Recorded(s, e)
  IN  IF Ignored(s, e) THEN s
      ELSE Applied(IF HostRestarted(s, e) THEN Restarted(recorded, e.host) ELSE recorded, e)

reduceEvents(events) ==
  LET view[n \in 0..Len(events)] ==
        IF n = 0 THEN createEmptyState ELSE reduceEvent(view[n - 1], events[n])
  IN  view[Len(events)]
=============================================================================
