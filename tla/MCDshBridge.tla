---------------------------- MODULE MCDshBridge ----------------------------
EXTENDS DshBridge

CONSTANT MaxEventIds

View == INSTANCE ControlPlane

(* The bridge's approvals as the promise knows them.  Its timer, not the   *)
(* clock, ends an approval, and a decision that comes in the same moment   *)
(* may be first: the deadline is the moment after.                         *)
Settled  == {verdicts[i][1] : i \in DOMAIN verdicts}
Standing == [a \in DOMAIN approvals |->
               IF a \in pendingApprovals THEN "open"
               ELSE IF a \in Settled THEN "settled" ELSE "lapsed"]
Deadline == [a \in DOMAIN approvals |-> approvals[a].expiresAt + 1]
Subject  == [a \in DOMAIN approvals |-> Digest(a)]

Promise == INSTANCE OneShotApproval WITH
  status <- Standing, deadline <- Deadline, subject <- Subject, opinions <- decisions

(* The bridge keeps the promise that the Codex adapter keeps: an approval  *)
(* is settled at most once, by a decision on its digest in the life of     *)
(* both, and never after it timed out or the bridge was stopped.           *)
ImplementsOneShotApproval == Promise!Spec

(* docs/architecture.md: clients treat (hostId, sequence) as the ordering  *)
(* key and ignore duplicates.  Of what the bridge sends, a client that     *)
(* gets all of it in order ignores nothing but duplicates.                 *)
OnlyDuplicatesIgnored ==
  \A i \in DOMAIN sent :
    View!Ignored(View!reduceEvents(SubSeq(sent, 1, i - 1)), sent[i]) =>
      \E j \in 1..i-1 : sent[j].eventId = sent[i].eventId
=============================================================================
