--------------------------- MODULE CodexApprovals ---------------------------
(***************************************************************************)
(* Approvals on the host (apps/agent/src/codex-adapter.ts): Codex App      *)
(* Server asks over its standard output whether it may do something; the   *)
(* adapter keeps the question in pendingApprovals and publishes it; a      *)
(* command that reaches the agent through the relay may answer it; and the *)
(* answer goes back over the standard input.                               *)
(*                                                                         *)
(* A question is the number of the request, counted over all runs of the   *)
(* agent, and that number is its approvalId: `session:item:id' names the   *)
(* item, which belongs to one run, and the id, which is unique in a run.   *)
(* The text a client is shown is a material; the digest is that text with  *)
(* the approvalId, sha256 being injective on what occurs.  App Server, the *)
(* clients and the relay are the environment.  The relay is not trusted    *)
(* with authorization: it may lose a decision, deliver it again, or put it *)
(* under another approvalId, session or host.                              *)
(***************************************************************************)
EXTENDS Naturals, Sequences

CONSTANTS
  Sessions,       \* threads of App Server
  Materials,      \* what canonicalizeApproval covers, without the approvalId
  Timeout,        \* life of a pending approval: five minutes
  CommandTtl,     \* life of a command: thirty seconds
  MaxTime,        \* bound: the clock
  MaxRequests,    \* bound: requests of App Server
  MaxDecisions,   \* bound: decisions of clients
  MaxRuns         \* bound: runs of the agent

ASSUME LifeAssumption  == Timeout \in Nat /\ CommandTtl \in Nat
ASSUME BoundAssumption == /\ MaxTime \in Nat      /\ MaxRequests \in Nat
                          /\ MaxDecisions \in Nat /\ MaxRuns \in Nat

(* file_change and network requests are handled like command requests.     *)
Kinds     == {"command", "permissions", "unsupported"}
Decisions == {"approve_once", "decline", "cancel"}

VARIABLES
  now,               \* Date.now()
  runs,              \* runs of the agent, and of the App Server it starts
  earlier,           \* how many of the requests belong to earlier runs
  child,             \* this.client.child is there and writable
  requests,          \* history: what App Server asked, in order
  waiting,           \* requests App Server still waits for
  stdout,            \* what App Server wrote and the adapter has not read
  stdin,             \* responses on their way to App Server
  pendingApprovals,  \* this.pendingApprovals
  over,              \* history: requests whose end the adapter has read of
  shown,             \* history: expiresAt of every published approval
  decisions,         \* history: what clients decided, in order
  answers,           \* history: the decisions written to App Server
  results,           \* history: the command results that say ok
  effects            \* history: responses App Server took, by request

process == <<runs, earlier, child>>
pipes   == <<stdout, stdin>>
adapter == <<pendingApprovals, over, shown, answers, results>>
vars == <<now, process, requests, waiting, pipes, adapter, decisions, effects>>

Request == 1..Len(requests)

(* The digest of a request, over the approvalId and what is displayed.     *)
Digest(r) == [approvalId |-> r, kind |-> requests[r].kind,
              material |-> requests[r].material]

(* What the adapter writes: the permissions asked for or none, or the      *)
(* decision in the words of App Server.                                    *)
Response(kind, decision) ==
  CASE decision = "approve_once"                           -> "accept"
    [] decision # "approve_once" /\ kind = "permissions" -> "decline"
    [] decision # "approve_once" /\ kind # "permissions" -> decision

Put(f, k, v)  == [x \in DOMAIN f \cup {k} |-> IF x = k THEN v ELSE f[x]]
Without(f, k) == [x \in DOMAIN f \ {k} |-> f[x]]
Nothing       == [x \in {} |-> x]

Init ==
  /\ now = 0 /\ runs = 1 /\ earlier = 0 /\ child = TRUE
  /\ requests = <<>> /\ waiting = {} /\ stdout = <<>> /\ stdin = <<>>
  /\ pendingApprovals = Nothing /\ over = {} /\ shown = Nothing
  /\ decisions = <<>> /\ answers = <<>> /\ results = {} /\ effects = Nothing

-----------------------------------------------------------------------------
(* The environment.                                                        *)

Tick ==
  /\ now < MaxTime
  /\ now' = now + 1
  /\ UNCHANGED <<process, requests, waiting, pipes, adapter, decisions, effects>>

(* A line of App Server: a request, or the end of the turn that made some. *)
Question(r) == [asks |-> r, ends |-> {}]
Ending(rs)  == [asks |-> 0, ends |-> rs]

(* App Server asks; its request ids start again with every run.            *)
Ask ==
  /\ child /\ Len(requests) < MaxRequests
  /\ \E s \in Sessions, m \in Materials, k \in Kinds :
       requests' = Append(requests, [id |-> Len(requests) + 1 - earlier,
                                     session |-> s, material |-> m, kind |-> k])
  /\ waiting' = waiting \cup {Len(requests) + 1}
  /\ stdout' = Append(stdout, Question(Len(requests) + 1))
  /\ UNCHANGED <<now, process, stdin, adapter, decisions, effects>>

(* A turn ends or is interrupted, and with it what its thread waits for.   *)
EndTurn ==
  /\ child
  /\ \E s \in Sessions :
       LET gone == {r \in waiting : requests[r].session = s}
       IN  /\ gone # {}
           /\ waiting' = waiting \ gone
           /\ stdout' = Append(stdout, Ending(gone))
  /\ UNCHANGED <<now, process, requests, stdin, adapter, decisions, effects>>

(* App Server takes a response, if it still waits for one with that id.    *)
TakeResponse ==
  /\ child /\ stdin # <<>>
  /\ stdin' = Tail(stdin)
  /\ LET r == earlier + Head(stdin).id
     IN  IF r \in waiting
         THEN /\ effects' = Put(effects, r, Head(stdin).response)
              /\ waiting' = waiting \ {r}
         ELSE UNCHANGED <<effects, waiting>>
  /\ UNCHANGED <<now, process, requests, stdout, adapter, decisions>>

(* App Server exits, or adapter.stop ends it; what it has already written  *)
(* may still be read.                                                      *)
ChildExit ==
  /\ child
  /\ child' = FALSE
  /\ waiting' = {} /\ stdin' = <<>>
  /\ UNCHANGED <<now, runs, earlier, requests, stdout, adapter, decisions, effects>>

(* A client decides on what it is shown: what the digest it sends stands   *)
(* for.                                                                    *)
Decide ==
  /\ Len(decisions) < MaxDecisions
  /\ \E r \in DOMAIN shown, d \in Decisions :
       decisions' = Append(decisions,
         [digest |-> Digest(r), decision |-> d, expiresAt |-> now + CommandTtl])
  /\ UNCHANGED <<now, process, requests, waiting, pipes, adapter, effects>>

-----------------------------------------------------------------------------
(* The agent.                                                              *)

(* The agent process ends and another one starts its own App Server.       *)
(* Mutant: the map outlives the process whose requests it names.           *)
NewProcess_KeepsPending ==
  /\ runs' = runs + 1
  /\ earlier' = Len(requests)
  /\ child' = TRUE
  /\ waiting' = {} /\ stdout' = <<>> /\ stdin' = <<>>
  /\ UNCHANGED pendingApprovals

NewProcess ==
  /\ runs' = runs + 1
  /\ earlier' = Len(requests)
  /\ child' = TRUE
  /\ waiting' = {} /\ stdout' = <<>> /\ stdin' = <<>>
  /\ pendingApprovals' = Nothing

Restart ==
  /\ runs < MaxRuns
  /\ NewProcess
  /\ UNCHANGED <<now, requests, over, shown, answers, results, decisions, effects>>

Asked == stdout # <<>> /\ Head(stdout).asks # 0

(* handleNotification for turn/completed: pendingApprovals stays as it is. *)
HandleTurnCompleted ==
  /\ stdout # <<>> /\ Head(stdout).asks = 0
  /\ over' = over \cup Head(stdout).ends
  /\ stdout' = Tail(stdout)
  /\ UNCHANGED <<now, process, requests, waiting, stdin, pendingApprovals, shown,
                 answers, results, decisions, effects>>

(* Mutant: what is kept is not published.                                  *)
HandleRequest_NotPublished ==
  /\ Asked
  /\ LET r == Head(stdout).asks
     IN  /\ requests[r].kind # "unsupported"
         /\ pendingApprovals' = Put(pendingApprovals, r,
              [digest |-> Digest(r), expiresAt |-> now + Timeout,
               requestId |-> requests[r].id, kind |-> requests[r].kind,
               sessionId |-> requests[r].session])
  /\ stdout' = Tail(stdout)
  /\ UNCHANGED <<now, process, requests, waiting, stdin, over, shown, answers,
                 results, decisions, effects>>

(* handleServerRequest, for a request it keeps and publishes.              *)
HandleRequest ==
  /\ Asked
  /\ LET r == Head(stdout).asks
     IN  /\ requests[r].kind # "unsupported"
         /\ pendingApprovals' = Put(pendingApprovals, r,
              [digest |-> Digest(r), expiresAt |-> now + Timeout,
               requestId |-> requests[r].id, kind |-> requests[r].kind,
               sessionId |-> requests[r].session])
         /\ shown' = Put(shown, r, now + Timeout)
  /\ stdout' = Tail(stdout)
  /\ UNCHANGED <<now, process, requests, waiting, stdin, over, answers, results,
                 decisions, effects>>

(* handleServerRequest, for a request it answers with an error.            *)
RejectRequest ==
  /\ child /\ Asked /\ requests[Head(stdout).asks].kind = "unsupported"
  /\ stdin' = Append(stdin, [id |-> requests[Head(stdout).asks].id, response |-> "error"])
  /\ stdout' = Tail(stdout)
  /\ UNCHANGED <<now, process, requests, waiting, adapter, decisions, effects>>

(* write throws once App Server is gone, and here nobody catches it.       *)
RejectRequestThrows ==
  /\ ~child /\ Asked /\ requests[Head(stdout).asks].kind = "unsupported"
  /\ runs < MaxRuns
  /\ NewProcess
  /\ UNCHANGED <<now, requests, over, shown, answers, results, decisions, effects>>

(* A command as it arrives: a decision, with the addresses the relay put   *)
(* on it.  One for another host is thrown away, like one that is lost.     *)
Command == [decision : 1..Len(decisions), approvalId : Request, sessionId : Sessions]

(* RelayClient.handleCommand and resolveApproval, in the order of their    *)
(* checks; whatever is thrown becomes a command result that is not ok.     *)
Admissible(c) ==
  /\ decisions[c.decision].expiresAt > now
  /\ c.approvalId \in DOMAIN pendingApprovals
  /\ pendingApprovals[c.approvalId].sessionId = c.sessionId

(* Mutant: an approval lives one moment longer.                            *)
Expired_OffByOne(c) == pendingApprovals[c.approvalId].expiresAt < now

Expired(c) == pendingApprovals[c.approvalId].expiresAt <= now

(* Mutant: the digest does not cover the approvalId.                       *)
Matches_AnyApproval(c) ==
  LET kept == pendingApprovals[c.approvalId].digest
      sent == decisions[c.decision].digest
  IN  kept.kind = sent.kind /\ kept.material = sent.material

Matches(c) == pendingApprovals[c.approvalId].digest = decisions[c.decision].digest

Refused(c) == Admissible(c) => ~Expired(c) /\ ~Matches(c)

Refuse ==
  /\ {c \in Command : Refused(c)} # {}
  /\ UNCHANGED <<stdin, pendingApprovals, answers, results>>

Expire(c) ==
  /\ Admissible(c) /\ Expired(c)
  /\ pendingApprovals' = Without(pendingApprovals, c.approvalId)
  /\ UNCHANGED <<stdin, answers, results>>

(* Mutant: the result does not wait for respond to return.                 *)
Answer_ResultFirst(c) ==
  /\ Admissible(c) /\ ~Expired(c) /\ Matches(c)
  /\ pendingApprovals' = Without(pendingApprovals, c.approvalId)
  /\ results' = results \cup {[decision |-> c.decision,
                              approvalId |-> c.approvalId, sessionId |-> c.sessionId]}
  /\ LET pending  == pendingApprovals[c.approvalId]
         decision == decisions[c.decision].decision
     IN  IF child
         THEN /\ stdin' = Append(stdin, [id |-> pending.requestId,
                            response |-> Response(pending.kind, decision)])
              /\ answers' = Append(answers, [request |-> c.approvalId,
                              by |-> c.decision, at |-> now])
         ELSE UNCHANGED <<stdin, answers>>

Answer(c) ==
  /\ Admissible(c) /\ ~Expired(c) /\ Matches(c)
  /\ pendingApprovals' = Without(pendingApprovals, c.approvalId)
  /\ LET pending  == pendingApprovals[c.approvalId]
         decision == decisions[c.decision].decision
     IN  IF child
         THEN /\ stdin' = Append(stdin, [id |-> pending.requestId,
                            response |-> Response(pending.kind, decision)])
              /\ answers' = Append(answers, [request |-> c.approvalId,
                              by |-> c.decision, at |-> now])
              /\ results' = results \cup {[decision |-> c.decision,
                              approvalId |-> c.approvalId, sessionId |-> c.sessionId]}
         ELSE UNCHANGED <<stdin, answers, results>>        \* respond throws

HandleCommand ==
  /\ Refuse \/ \E c \in Command : Expire(c) \/ Answer(c)
  /\ UNCHANGED <<now, process, requests, waiting, stdout, over, shown, decisions, effects>>

Next ==
  \/ Tick \/ Ask \/ EndTurn \/ TakeResponse \/ ChildExit \/ Decide
  \/ Restart \/ HandleRequest \/ RejectRequest \/ RejectRequestThrows
  \/ HandleTurnCompleted \/ HandleCommand

Spec == Init /\ [][Next]_vars

-----------------------------------------------------------------------------
(* Properties.                                                             *)

Digests   == [approvalId : Nat, kind : Kinds, material : Materials]
Questions == [id : Nat, session : Sessions, material : Materials, kind : Kinds]
Lines     == [asks : Nat, ends : SUBSET Nat]
Responses == {"accept", "decline", "cancel", "error"}
Replies   == [id : Nat, response : Responses]
Entries   == [digest : Digests, expiresAt : Nat, requestId : Nat, kind : Kinds,
              sessionId : Sessions]
Opinions  == [digest : Digests, decision : Decisions, expiresAt : Nat]
Answered  == [request : Nat, by : Nat, at : Nat]

(* The type of every variable.                                             *)
TypeOK ==
  /\ now \in Nat /\ runs \in Nat /\ earlier \in Nat /\ child \in BOOLEAN
  /\ requests \in Seq(Questions)
  /\ waiting \subseteq Request
  /\ stdout \in Seq(Lines)
  /\ stdin \in Seq(Replies)
  /\ over \subseteq Nat
  /\ pendingApprovals \in [DOMAIN pendingApprovals -> Entries]
  /\ shown \in [DOMAIN shown -> Nat]
  /\ DOMAIN pendingApprovals \subseteq DOMAIN shown /\ DOMAIN shown \subseteq Request
  /\ decisions \in Seq(Opinions)
  /\ answers \in Seq(Answered)
  /\ results \subseteq [decision : Nat, approvalId : Nat, sessionId : Sessions]
  /\ effects \in [DOMAIN effects -> Responses] /\ DOMAIN effects \subseteq Request

(* Every answer to App Server is a decision some client made on exactly    *)
(* what that request displays, in the life of the approval and of the      *)
(* command; and a request is answered once.  So the relay can neither      *)
(* substitute another pending request nor use a decision twice.            *)
AnswersAreDecisions ==
  /\ \A i \in DOMAIN answers :
       LET a == answers[i]
       IN  /\ decisions[a.by].digest = Digest(a.request)
           /\ a.request \in DOMAIN shown
           /\ a.at < shown[a.request]
           /\ a.at < decisions[a.by].expiresAt
  /\ \A i, j \in DOMAIN answers : i # j => answers[i].request # answers[j].request

(* What App Server does follows the answer to that very request, although  *)
(* request ids come again after a restart and answers may meet requests    *)
(* that are over.                                                          *)
EffectsAreAnswers ==
  \A r \in DOMAIN effects :
    \/ requests[r].kind = "unsupported" /\ effects[r] = "error"
    \/ \E i \in DOMAIN answers :
         /\ answers[i].request = r
         /\ effects[r] = Response(requests[r].kind, decisions[answers[i].by].decision)

(* Clients are told `ok', and sent approval.resolved under a session, for  *)
(* exactly the decisions that were written to App Server: of two clients   *)
(* who decide differently one at most hears `ok'.                          *)
OkMeansAnswered ==
  results = {[decision |-> answers[i].by, approvalId |-> answers[i].request,
              sessionId |-> requests[answers[i].request].session] :
             i \in DOMAIN answers}

(* docs/architecture.md: the host rejects stale decisions.  The request of *)
(* a turn the adapter knows to be over is stale.                           *)
StaleDecisionsRejected ==
  [][\A i \in DOMAIN answers' \ DOMAIN answers : answers'[i].request \notin over]_vars
=============================================================================
