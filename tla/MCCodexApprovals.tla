-------------------------- MODULE MCCodexApprovals --------------------------
EXTENDS CodexApprovals, TLC

Symmetry == Permutations(Sessions) \cup Permutations(Materials)

(* The approvals of the adapter as the promise knows them.                 *)
Settled  == {answers[i].request : i \in DOMAIN answers}
Status   == [r \in DOMAIN shown |->
               IF r \in Settled THEN "settled"
               ELSE IF r \in DOMAIN pendingApprovals THEN "open" ELSE "lapsed"]
Subject  == [r \in DOMAIN shown |-> Digest(r)]
Verdicts == [i \in DOMAIN answers |-> <<answers[i].request, answers[i].by>>]

Promise == INSTANCE OneShotApproval WITH
  status <- Status, deadline <- shown, subject <- Subject,
  opinions <- decisions, verdicts <- Verdicts

(* The adapter keeps the promise: an approval that left pendingApprovals   *)
(* without an answer, at a deadline, in a restart or because App Server    *)
(* was gone, is never answered afterwards.                                 *)
ImplementsOneShotApproval == Promise!Spec
=============================================================================
