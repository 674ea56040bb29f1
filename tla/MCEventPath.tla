---------------------------- MODULE MCEventPath -----------------------------
(* EventPath on small instances: the events that are not about approvals   *)
(* are heartbeats, or tell that the session waits for an approval.         *)
EXTENDS EventPath

Heartbeats == {[session |-> NoSession, type |-> "host.heartbeat", value |-> "none"]}
Waits      == {[session |-> Session, type |-> "session.status.changed",
                value |-> "waiting_approval"]}
=============================================================================
