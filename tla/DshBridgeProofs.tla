-------------------------- MODULE DshBridgeProofs --------------------------
(***************************************************************************)
(* Proofs about the bridge of the DeepSeek Harness: it is never left       *)
(* without a connection or a timer to make one, its approvals implement    *)
(* OneShotApproval, and whatever becomes of one is told the same to the    *)
(* Harness, to the clients and to whoever decided it.                      *)
(***************************************************************************)
EXTENDS MCDshBridge, FiniteSetTheorems, SequenceTheorems, TLAPS

Asked   == [session : Sessions, command : Commands \cup {NoCommand}, expiresAt : Nat]
Digests == Nat \X (Commands \cup {NoCommand})
Opinion == [digest : Digests, decision : Options, expiresAt : Nat]

(* A running bridge has a socket, one that lives unless a timer is set.    *)
LinkInv ==
  /\ sockets \in Seq(SocketState)
  /\ phase = "running" => socket \in 1..Len(sockets)
  /\ NeverStranded

(* What is pending has its timer, which is not late; and no verdict is     *)
(* about what is pending.                                                  *)
ApprovalInv ==
  /\ now \in Nat
  /\ toolCalls \in [DOMAIN toolCalls -> Commands]
  /\ approvals \in Seq(Asked)
  /\ decisions \in Seq(Opinion)
  /\ verdicts \in Seq(Nat \X Nat)
  /\ pendingApprovals \subseteq 1..Len(approvals)
  /\ timers = pendingApprovals
  /\ \A a \in pendingApprovals : now <= approvals[a].expiresAt
  /\ \A i \in 1..Len(verdicts) : verdicts[i][1] \in 1..Len(approvals) \ pendingApprovals

-----------------------------------------------------------------------------
(* The connection.                                                         *)

(* A new socket lives.                                                     *)
LEMMA Connects ==
  ASSUME sockets \in Seq(SocketState), Begun(sockets)
  PROVE  /\ sockets' \in Seq(SocketState)
         /\ socket' \in 1..Len(sockets') /\ sockets'[socket'] = "connecting"
<1>1. "connecting" \in SocketState
  BY DEF SocketState
<1> QED
  BY <1>1, AppendProperties DEF Begun

(* A socket changes its state, and the others do not.                      *)
LEMMA Changes ==
  ASSUME sockets \in Seq(SocketState), NEW s \in 1..Len(sockets),
         NEW to \in SocketState, State(s, to)
  PROVE  /\ sockets' \in Seq(SocketState) /\ Len(sockets') = Len(sockets)
         /\ \A t \in 1..Len(sockets) :
              sockets'[t] = IF t = s THEN to ELSE sockets[t]
BY DEF State

(* Nobody else touches the connection.                                     *)
LEMMA LinkKept ==
  ASSUME LinkInv, UNCHANGED <<phase, linkVars>>
  PROVE  LinkInv'
BY DEF LinkInv, NeverStranded, linkVars

(* Every step keeps a running bridge connected, or waiting for a timer.    *)
LEMMA LinkStep == LinkInv /\ [Next]_vars => LinkInv'
<1> SUFFICES ASSUME LinkInv, [Next]_vars PROVE LinkInv'
  OBVIOUS
<1>1. sockets \in Seq(SocketState) /\ DOMAIN sockets = 1..Len(sockets)
  BY DEF LinkInv
<1>2. CASE Start \/ Reconnect
  <2>1. Begun(sockets) /\ phase' \in {phase, "running"}
    BY <1>2 DEF Start, Reconnect
  <2> QED
    BY <1>1, <2>1, Connects DEF LinkInv, NeverStranded
<1>3. CASE Stop
  <2>1. /\ phase = "running" /\ phase' = "stopped"
        /\ State(socket, "closing") \/ sockets' = sockets
    BY <1>3 DEF Stop
  <2>2. "closing" \in SocketState /\ socket \in 1..Len(sockets)
    BY <2>1 DEF LinkInv, SocketState
  <2> QED
    BY <1>1, <2>1, <2>2, Changes DEF LinkInv, NeverStranded
<1>4. ASSUME NEW s \in DOMAIN sockets, SocketStep(s) PROVE LinkInv'
  <2>1. CASE Opens(s) \/ Closing(s)
    <3>1. PICK to \in {"open", "closing"} : State(s, to)
      BY <2>1 DEF Opens, Closing
    <3>2. to \in SocketState /\ UNCHANGED <<phase, socket, reconnectTimer>>
      BY <2>1, <3>1 DEF Opens, Closing, SocketState
    <3>3. to # "closed"
      BY <3>1
    <3> QED
      BY <1>1, <1>4, <3>1, <3>2, <3>3, Changes DEF LinkInv, NeverStranded
  <2>2. CASE Error(s) \/ Close(s)
    <3>1. PICK to \in {"failed", "closed"} : State(s, to)
      BY <2>2 DEF Error, Close
    <3>2. /\ to \in SocketState /\ UNCHANGED <<phase, socket>>
          /\ reconnectTimer' = (reconnectTimer \/ phase = "running")
      BY <2>2, <3>1 DEF Error, Close, scheduleReconnect, SocketState
    <3>3. phase' = "running" => reconnectTimer'
      BY <3>2
    <3> QED
      BY <1>1, <1>4, <3>1, <3>2, <3>3, Changes DEF LinkInv, NeverStranded
  <2>3. CASE Authenticated(s)
    BY <2>3 DEF Authenticated, LinkInv, NeverStranded
  <2>4. CASE Rejected(s)
    <3>1. UNCHANGED <<phase, socket, reconnectTimer>>
      BY <2>4 DEF Rejected
    <3>2. CASE ~Closable \/ socket \notin 1..Len(sockets)
      <4>1. phase = "running" => socket \in 1..Len(sockets)
        BY DEF LinkInv
      <4>2. sockets' = sockets \/ (State(socket, "closing") /\ socket \notin 1..Len(sockets))
        BY <2>4, <3>2 DEF Rejected
      <4>3. sockets' \in Seq(SocketState) /\ (phase = "running" => sockets' = sockets)
        BY <1>1, <4>1, <4>2 DEF State
      <4> QED
        BY <3>1, <4>1, <4>3 DEF LinkInv, NeverStranded
    <3>3. CASE Closable /\ socket \in 1..Len(sockets)
      <4>1. State(socket, "closing") /\ "closing" \in SocketState
        BY <2>4, <3>3 DEF Rejected, SocketState
      <4> QED
        BY <1>1, <3>1, <3>3, <4>1, Changes DEF LinkInv, NeverStranded
    <3> QED
      BY <3>2, <3>3
  <2> QED
    BY <1>4, <2>1, <2>2, <2>3, <2>4 DEF SocketStep
<1>5. CASE Heartbeat \/ Tick \/ UNCHANGED vars
  <2>1. UNCHANGED <<phase, linkVars>>
    BY <1>5 DEF Heartbeat, Tick, vars
  <2> QED
    BY <2>1, LinkKept
<1>6. ASSUME NEW s \in DOMAIN sockets, NEW d \in DOMAIN decisions, NEW a \in DOMAIN approvals,
             handleCommand(s, d, a)
      PROVE  LinkInv'
  <2>1. UNCHANGED <<phase, linkVars>>
    BY <1>6 DEF handleCommand, Settle
  <2> QED
    BY <2>1, LinkKept
<1>7. ASSUME NEW session \in Sessions,
             \/ SessionEvent(session)
             \/ \E callId \in CallIds :
                  \/ requestApproval(session, callId)
                  \/ \E command \in Commands : ToolCall(session, callId, command)
      PROVE  LinkInv'
  <2>1. UNCHANGED <<phase, linkVars>>
    BY <1>7 DEF SessionEvent, requestApproval, ToolCall
  <2> QED
    BY <2>1, LinkKept
<1>8. ASSUME NEW a \in DOMAIN approvals,
             TimesOut(a) \/ \E decision \in Options : Decide(a, decision)
      PROVE  LinkInv'
  <2>1. UNCHANGED <<phase, linkVars>>
    BY <1>8 DEF TimesOut, Decide
  <2> QED
    BY <2>1, LinkKept
<1> QED
  BY <1>2, <1>3, <1>4, <1>5, <1>6, <1>7, <1>8 DEF Next

(* A bridge that runs has a socket that is not closed, or a timer set,     *)
(* whatever order opening, errors, closing and rejection come in.          *)
THEOREM BridgeNeverStranded == Spec => []NeverStranded
<1>1. Init => LinkInv
  BY DEF Init, LinkInv, NeverStranded
<1>2. LinkInv => NeverStranded
  BY DEF LinkInv
<1> QED
  BY <1>1, <1>2, LinkStep, PTL DEF Spec

-----------------------------------------------------------------------------
(* Approvals.                                                              *)

approvalState == <<approvals, decisions, verdicts, now>>

(* Approvals leave pendingApprovals with their timers, and nothing else of *)
(* them changes.                                                           *)
LEMMA Dropped ==
  ASSUME ApprovalInv, UNCHANGED approvalState, UNCHANGED toolCalls,
         pendingApprovals' \subseteq pendingApprovals, timers' = pendingApprovals'
  PROVE  ApprovalInv' /\ Promise!Lapse
<1>1. UNCHANGED <<approvals, decisions, verdicts, now>>
  BY DEF approvalState
<1>2. ApprovalInv'
  BY <1>1 DEF ApprovalInv
<1>3. Deadline' = Deadline /\ Subject' = Subject /\ Settled' = Settled
  BY <1>1 DEF Deadline, Subject, Settled, Digest
<1>4. DOMAIN Standing' = DOMAIN Standing
  BY <1>1 DEF Standing
<1>5. ASSUME NEW a \in DOMAIN Standing, Standing'[a] # Standing[a]
      PROVE  Standing[a] = "open" /\ Standing'[a] = "lapsed"
  <2>1. a \in DOMAIN approvals
    BY DEF Standing
  <2>2. pendingApprovals \cap Settled = {}
    <3>1. DOMAIN verdicts = 1..Len(verdicts)
      BY DEF ApprovalInv
    <3> QED
      BY <3>1 DEF ApprovalInv, Settled
  <2> QED
    BY <1>1, <1>3, <1>5, <2>1, <2>2 DEF Standing
<1> QED
  BY <1>1, <1>2, <1>3, <1>4, <1>5 DEF Promise!Lapse

(* Time passes, but not over a deadline whose timer is set.                *)
LEMMA TickStep == ApprovalInv /\ Tick => ApprovalInv' /\ Promise!Pass
<1> SUFFICES ASSUME ApprovalInv, Tick PROVE ApprovalInv' /\ Promise!Pass
  OBVIOUS
<1>1. /\ now' = now + 1 /\ \A a \in timers : now < approvals[a].expiresAt
      /\ UNCHANGED <<toolCalls, approvals, pendingApprovals, timers, decisions, verdicts>>
  BY DEF Tick, mapperVars, approvalVars
<1>2. ASSUME NEW a \in pendingApprovals PROVE now' <= approvals[a].expiresAt
  <2>1. a \in 1..Len(approvals) /\ approvals \in Seq(Asked)
    BY DEF ApprovalInv
  <2>2. approvals[a] \in Asked
    BY <2>1
  <2> QED
    BY <1>1, <2>2 DEF ApprovalInv, Asked
<1>3. ApprovalInv'
  BY <1>1, <1>2 DEF ApprovalInv
<1>4. Standing' = Standing /\ Deadline' = Deadline /\ Subject' = Subject
  BY <1>1 DEF Standing, Deadline, Subject, Settled, Digest
<1> QED
  BY <1>1, <1>3, <1>4 DEF Promise!Pass

(* A client decides on an approval.                                        *)
LEMMA DecideStep ==
  ASSUME ApprovalInv, NEW a \in DOMAIN approvals, NEW decision \in Options,
         Decide(a, decision)
  PROVE  ApprovalInv' /\ Promise!Opine
<1> DEFINE o == [digest |-> Digest(a), decision |-> decision, expiresAt |-> now + CommandLife]
<1>1. /\ decisions' = Append(decisions, o)
      /\ UNCHANGED <<toolCalls, approvals, pendingApprovals, timers, verdicts, now>>
  BY DEF Decide, mapperVars, approvalVars
<1>2. a \in 1..Len(approvals) /\ a \in Nat /\ approvals[a] \in Asked
  BY DEF ApprovalInv
<1>3. o \in Opinion /\ o.digest = Digest(a)
  <2>1. Digest(a) \in Digests
    BY <1>2 DEF Digest, Digests, Asked
  <2>2. now + CommandLife \in Nat
    BY LivesAssumption DEF ApprovalInv
  <2> QED
    BY <2>1, <2>2 DEF Opinion
<1> HIDE DEF o
<1>4. decisions \in Seq(Opinion)
  BY DEF ApprovalInv
<1>5. /\ decisions' \in Seq(Opinion) /\ Len(decisions) \in Nat
      /\ Len(decisions') = Len(decisions) + 1 /\ decisions'[Len(decisions')] = o
      /\ \A i \in 1..Len(decisions) : decisions'[i] = decisions[i]
  BY <1>1, <1>3, <1>4, AppendProperties
<1>6. SubSeq(decisions', 1, Len(decisions)) = decisions
  BY <1>4, <1>5, SeqEqual
<1>7. ApprovalInv'
  BY <1>1, <1>5 DEF ApprovalInv
<1>8. Standing' = Standing /\ Deadline' = Deadline /\ Subject' = Subject
  BY <1>1 DEF Standing, Deadline, Subject, Settled, Digest
<1>9. o.digest = Subject[a] /\ a \in DOMAIN Subject
  BY <1>3 DEF Subject
<1> QED
  BY <1>1, <1>5, <1>6, <1>7, <1>8, <1>9 DEF Promise!Opine

(* The Harness asks: the approval is new, pending and timed.               *)
LEMMA RequestStep ==
  ASSUME ApprovalInv, NEW session \in Sessions, NEW callId \in CallIds,
         requestApproval(session, callId)
  PROVE  ApprovalInv' /\ Promise!Open
<1> DEFINE n == Len(approvals)
           e == [session |-> session, command |-> commandFromCall(session, callId),
                 expiresAt |-> now + ApprovalLife]
<1>1. /\ approvals' = Append(approvals, e)
      /\ pendingApprovals' = pendingApprovals \cup {n + 1}
      /\ timers' = timers \cup {n + 1}
      /\ UNCHANGED <<toolCalls, decisions, verdicts, now>>
  BY DEF requestApproval, mapperVars
<1>2. /\ e \in Asked /\ now \in Nat /\ now <= e.expiresAt
  <2>1. commandFromCall(session, callId) \in Commands \cup {NoCommand}
    BY DEF ApprovalInv, commandFromCall
  <2>2. now \in Nat /\ now + ApprovalLife \in Nat /\ now <= now + ApprovalLife
    BY LivesAssumption DEF ApprovalInv
  <2> QED
    BY <2>1, <2>2 DEF Asked
<1> HIDE DEF e
<1>3. approvals \in Seq(Asked) /\ n \in Nat
  BY DEF ApprovalInv
<1>4. /\ approvals' \in Seq(Asked) /\ Len(approvals') = n + 1 /\ approvals'[n + 1] = e
      /\ \A i \in 1..n : approvals'[i] = approvals[i]
  BY <1>1, <1>2, <1>3, AppendProperties
<1> HIDE DEF n
<1>5. DOMAIN approvals = 1..n /\ DOMAIN approvals' = 1..n + 1 /\ Len(approvals) = n
  BY <1>3, <1>4 DEF n
<1>6. n + 1 \notin 1..n /\ n + 1 \in 1..n + 1 /\ 1..n + 1 = 1..n \cup {n + 1}
  BY <1>3
<1>7. ApprovalInv'
  <2>1. pendingApprovals' \subseteq 1..n + 1 /\ timers' = pendingApprovals'
    BY <1>1, <1>5, <1>6 DEF ApprovalInv
  <2>2. \A a \in pendingApprovals' : now' <= approvals'[a].expiresAt
    BY <1>1, <1>2, <1>4, <1>5 DEF ApprovalInv
  <2>3. \A i \in 1..Len(verdicts') : verdicts'[i][1] \in 1..n + 1 \ pendingApprovals'
    BY <1>1, <1>5, <1>6 DEF ApprovalInv
  <2> QED
    BY <1>1, <1>4, <2>1, <2>2, <2>3 DEF ApprovalInv
<1>8. /\ DOMAIN Standing = 1..n /\ DOMAIN Standing' = 1..n + 1
      /\ DOMAIN Deadline = 1..n /\ DOMAIN Deadline' = 1..n + 1
      /\ DOMAIN Subject = 1..n /\ DOMAIN Subject' = 1..n + 1
  BY <1>5 DEF Standing, Deadline, Subject
<1>9. Standing'[n + 1] = "open"
  BY <1>1, <1>5, <1>6 DEF Standing
<1>10. ASSUME NEW a \in 1..n
       PROVE  /\ Standing'[a] = Standing[a] /\ Deadline'[a] = Deadline[a]
              /\ Subject'[a] = Subject[a]
  <2>1. a # n + 1 /\ a \in 1..n + 1 /\ approvals'[a] = approvals[a]
    BY <1>4, <1>6, <1>10
  <2>2. Settled' = Settled /\ (a \in pendingApprovals' <=> a \in pendingApprovals)
    BY <1>1, <2>1 DEF Settled
  <2> QED
    BY <1>5, <2>1, <2>2 DEF Standing, Deadline, Subject, Digest
<1> QED
  BY <1>1, <1>6, <1>7, <1>8, <1>9, <1>10 DEF Promise!Open, Promise!Extends

(* A decision on the digest of what is pending settles it.                 *)
LEMMA SettleStep ==
  ASSUME ApprovalInv, NEW d \in DOMAIN decisions, NEW a \in pendingApprovals,
         now < decisions[d].expiresAt, Digest(a) = decisions[d].digest, Settle(a, d)
  PROVE  ApprovalInv' /\ a \in DOMAIN Standing /\ Promise!Settle(a, d)
<1> DEFINE N == Len(verdicts)
<1>1. /\ pendingApprovals' = pendingApprovals \ {a} /\ timers' = timers \ {a}
      /\ verdicts' = Append(verdicts, <<a, d>>)
      /\ UNCHANGED <<toolCalls, approvals, decisions, now>>
  BY DEF Settle, Forget, mapperVars
<1>2. /\ verdicts \in Seq(Nat \X Nat) /\ <<a, d>> \in Nat \X Nat
      /\ a \in 1..Len(approvals) /\ a \in DOMAIN approvals /\ approvals[a] \in Asked
  BY DEF ApprovalInv
<1>3. /\ verdicts' \in Seq(Nat \X Nat) /\ N \in Nat /\ Len(verdicts') = N + 1
      /\ verdicts'[N + 1] = <<a, d>> /\ \A i \in 1..N : verdicts'[i] = verdicts[i]
      /\ DOMAIN verdicts = 1..N /\ DOMAIN verdicts' = 1..N + 1
  BY <1>1, <1>2, AppendProperties
<1> HIDE DEF N
<1>4. 1..N + 1 = 1..N \cup {N + 1}
  BY <1>3
<1>5. \A i \in 1..N : verdicts[i][1] \in 1..Len(approvals) \ pendingApprovals
  BY DEF ApprovalInv, N
<1>6. ApprovalInv'
  <2>1. \A i \in 1..N + 1 : verdicts'[i][1] \in 1..Len(approvals) \ pendingApprovals'
    BY <1>1, <1>2, <1>3, <1>4, <1>5
  <2> QED
    BY <1>1, <1>3, <2>1 DEF ApprovalInv
<1>7. Settled' = Settled \cup {a} /\ a \notin Settled
  <2>1. a \notin Settled
    BY <1>3, <1>5 DEF Settled
  <2>2. Settled' = {verdicts'[i][1] : i \in 1..N + 1} /\ Settled = {verdicts[i][1] : i \in 1..N}
    BY <1>3 DEF Settled
  <2>3. /\ verdicts'[N + 1][1] = a /\ (\A i \in 1..N : verdicts'[i][1] = verdicts[i][1])
        /\ N + 1 \in 1..N + 1 /\ 1..N \subseteq 1..N + 1
    BY <1>3
  <2>4. \A x : x \in Settled' <=> \E i \in 1..N + 1 : x = verdicts'[i][1]
    BY <2>2
  <2>5. \A x : x \in Settled <=> \E i \in 1..N : x = verdicts[i][1]
    BY <2>2
  <2> QED
    BY <1>4, <2>1, <2>3, <2>4, <2>5
<1>8. Standing' = [Standing EXCEPT ![a] = "settled"]
  <2>1. DOMAIN Standing = DOMAIN approvals /\ DOMAIN Standing' = DOMAIN approvals
    BY <1>1 DEF Standing
  <2>2. ASSUME NEW x \in DOMAIN approvals
        PROVE  Standing'[x] = IF x = a THEN "settled" ELSE Standing[x]
    BY <1>1, <1>7 DEF Standing
  <2> QED
    BY <1>1, <1>2, <2>1, <2>2 DEF Standing
<1>9. Deadline' = Deadline /\ Subject' = Subject
  BY <1>1 DEF Deadline, Subject, Digest
<1>10. Standing[a] = "open" /\ now < Deadline[a] /\ Subject[a] = decisions[d].digest
  <2>1. now \in Nat /\ approvals[a].expiresAt \in Nat /\ now <= approvals[a].expiresAt
    BY <1>2 DEF ApprovalInv, Asked
  <2>2. now < approvals[a].expiresAt + 1
    BY <2>1
  <2> QED
    BY <1>2, <2>2 DEF Standing, Deadline, Subject
<1> QED
  BY <1>1, <1>2, <1>6, <1>8, <1>9, <1>10 DEF Promise!Settle, Standing

(* Every step of the bridge and its environment.                           *)
LEMMA ApprovalStep ==
  ApprovalInv /\ [Next]_vars => ApprovalInv' /\ [Promise!Next]_(Promise!vars)
<1> SUFFICES ASSUME ApprovalInv, [Next]_vars PROVE ApprovalInv' /\ Promise!Next
  OBVIOUS
<1>1. timers = pendingApprovals
  BY DEF ApprovalInv
<1>2. CASE Tick
  BY <1>2, TickStep DEF Promise!Next
<1>3. CASE Start \/ Reconnect \/ Heartbeat \/ UNCHANGED vars
  <2>1. UNCHANGED approvalState /\ UNCHANGED <<toolCalls, pendingApprovals, timers>>
    BY <1>3 DEF Start, Reconnect, Heartbeat, vars, mapperVars, approvalVars, approvalState
  <2> QED
    BY <1>1, <2>1, Dropped DEF Promise!Next
<1>4. CASE Stop
  <2>1. /\ UNCHANGED approvalState /\ UNCHANGED toolCalls
        /\ pendingApprovals' = {} /\ timers' = {}
    BY <1>4 DEF Stop, Dismiss, mapperVars, approvalState
  <2> QED
    BY <2>1, Dropped DEF Promise!Next
<1>5. ASSUME NEW s \in DOMAIN sockets, SocketStep(s)
      PROVE  ApprovalInv' /\ Promise!Next
  <2>1. UNCHANGED approvalState /\ UNCHANGED <<toolCalls, pendingApprovals, timers>>
    BY <1>5 DEF SocketStep, Opens, Closing, Error, Close, Authenticated, Rejected,
       mapperVars, approvalVars, approvalState
  <2> QED
    BY <1>1, <2>1, Dropped DEF Promise!Next
<1>6. ASSUME NEW s \in DOMAIN sockets, NEW d \in DOMAIN decisions, NEW a \in DOMAIN approvals,
             handleCommand(s, d, a)
      PROVE  ApprovalInv' /\ Promise!Next
  <2>1. CASE /\ now < decisions[d].expiresAt
             /\ a \in pendingApprovals /\ Digest(a) = decisions[d].digest
    <3>1. Settle(a, d)
      BY <1>6, <2>1 DEF handleCommand
    <3> QED
      BY <2>1, <3>1, SettleStep DEF Promise!Next
  <2>2. CASE ~(/\ now < decisions[d].expiresAt
               /\ a \in pendingApprovals /\ Digest(a) = decisions[d].digest)
    <3>1. UNCHANGED <<mapperVars, approvalVars, decisions, now>>
      BY <1>6, <2>2 DEF handleCommand
    <3>2. UNCHANGED approvalState /\ UNCHANGED <<toolCalls, pendingApprovals, timers>>
      BY <3>1 DEF mapperVars, approvalVars, approvalState
    <3> QED
      BY <1>1, <3>2, Dropped DEF Promise!Next
  <2> QED
    BY <2>1, <2>2
<1>7. ASSUME NEW session \in Sessions, SessionEvent(session)
      PROVE  ApprovalInv' /\ Promise!Next
  <2>1. UNCHANGED approvalState /\ UNCHANGED <<toolCalls, pendingApprovals, timers>>
    BY <1>7 DEF SessionEvent, approvalVars, approvalState
  <2> QED
    BY <1>1, <2>1, Dropped DEF Promise!Next
<1>8. ASSUME NEW session \in Sessions, NEW callId \in CallIds, requestApproval(session, callId)
      PROVE  ApprovalInv' /\ Promise!Next
  BY <1>8, RequestStep DEF Promise!Next
<1>9. ASSUME NEW session \in Sessions, NEW callId \in CallIds, NEW command \in Commands,
             ToolCall(session, callId, command)
      PROVE  ApprovalInv' /\ Promise!Next
  <2>1. /\ UNCHANGED approvalState /\ UNCHANGED <<pendingApprovals, timers>>
        /\ toolCalls' = [call \in DOMAIN toolCalls \cup {<<session, callId>>} |->
                           IF call = <<session, callId>> THEN command ELSE toolCalls[call]]
    BY <1>9 DEF ToolCall, approvalVars, approvalState
  <2>2. toolCalls' \in [DOMAIN toolCalls' -> Commands]
    BY <2>1 DEF ApprovalInv
  <2>3. ApprovalInv'
    BY <2>1, <2>2 DEF ApprovalInv, approvalState
  <2>4. Promise!Lapse
    BY <2>1 DEF Promise!Lapse, approvalState, Standing, Deadline, Subject, Settled, Digest
  <2> QED
    BY <2>3, <2>4 DEF Promise!Next
<1>10. ASSUME NEW a \in DOMAIN approvals, TimesOut(a)
       PROVE  ApprovalInv' /\ Promise!Next
  <2>1. /\ UNCHANGED approvalState /\ UNCHANGED toolCalls
        /\ pendingApprovals' = pendingApprovals \ {a} /\ timers' = timers \ {a}
    BY <1>10 DEF TimesOut, Forget, mapperVars, approvalState
  <2> QED
    BY <1>1, <2>1, Dropped DEF Promise!Next
<1>11. ASSUME NEW a \in DOMAIN approvals, NEW decision \in Options, Decide(a, decision)
       PROVE  ApprovalInv' /\ Promise!Next
  BY <1>11, DecideStep DEF Promise!Next
<1> QED
  BY <1>2, <1>3, <1>4, <1>5, <1>6, <1>7, <1>8, <1>9, <1>10, <1>11 DEF Next

(* The bridge keeps the promise, with a deadline that is its timer's: a    *)
(* decision, the timeout and stop may come together, and one of them ends  *)
(* an approval.                                                            *)
THEOREM BridgeKeepsPromise == Spec => ImplementsOneShotApproval
<1>1. Init => ApprovalInv /\ Promise!Init
  <2> SUFFICES ASSUME Init PROVE ApprovalInv /\ Promise!Init
    OBVIOUS
  <2>1. /\ now = 0 /\ approvals = <<>> /\ decisions = <<>> /\ verdicts = <<>>
        /\ pendingApprovals = {} /\ timers = {} /\ DOMAIN toolCalls = {}
        /\ toolCalls \in [{} -> Commands]
    BY DEF Init
  <2>2. DOMAIN Standing = {} /\ DOMAIN Deadline = {} /\ DOMAIN Subject = {}
    BY <2>1 DEF Standing, Deadline, Subject
  <2>3. ApprovalInv
    BY <2>1 DEF ApprovalInv
  <2> QED
    BY <2>1, <2>2, <2>3 DEF Promise!Init
<1> QED
  BY <1>1, ApprovalStep, PTL DEF Spec, ImplementsOneShotApproval, Promise!Spec

-----------------------------------------------------------------------------
(* Types.                                                                  *)

(* A queue of whatever it holds.                                           *)
Elements(q)   == {q[i] : i \in 1..Len(q)}
IsSequence(q) == q \in Seq(Elements(q))

(* Any sequence is one of its elements.                                    *)
LEMMA Sequential ==
  ASSUME NEW S, NEW q \in Seq(S)
  PROVE  IsSequence(q) /\ Len(q) \in Nat
<1>1. Len(q) \in Nat /\ q = [i \in 1..Len(q) |-> q[i]]
  OBVIOUS
<1>2. q \in [1..Len(q) -> Elements(q)]
  BY <1>1 DEF Elements
<1> QED
  BY <1>1, <1>2, SeqDef DEF IsSequence

(* The newest frames of a queue are a queue that keeps the bound.          *)
LEMMA NewestFrames ==
  ASSUME NEW S, NEW q \in Seq(S)
  PROVE  IsSequence(Newest(q)) /\ Len(Newest(q)) <= MaxQueue
<1>1. Len(q) \in Nat /\ MaxQueue \in Nat \ {0} /\ \A i \in 1..Len(q) : q[i] \in S
  BY LivesAssumption
<1>2. CASE Len(q) <= MaxQueue
  BY <1>2, Sequential DEF Newest
<1>3. CASE ~(Len(q) <= MaxQueue)
  <2>1. Newest(q) = SubSeq(q, Len(q) - MaxQueue + 1, Len(q))
    BY <1>3 DEF Newest
  <2>2. \A i \in Len(q) - MaxQueue + 1..Len(q) : q[i] \in S
    BY <1>1, <1>3
  <2>3. Newest(q) \in Seq(S) /\ Len(Newest(q)) = MaxQueue
    BY <1>1, <1>3, <2>1, <2>2, SubSeqProperties
  <2> QED
    BY <1>1, <2>3, Sequential
<1> QED
  BY <1>2, <1>3

(* Frames that are added to the queue leave a queue that keeps the bound.  *)
LEMMA AddedFrames ==
  ASSUME IsSequence(queue), NEW S, NEW frames \in Seq(S)
  PROVE  LET q == Newest(queue \o Enveloped(frames))
         IN  IsSequence(q) /\ Len(q) <= MaxQueue
<1> DEFINE e == Enveloped(frames)
           T == Elements(queue) \cup {e[i] : i \in 1..Len(frames)}
<1>1. Len(frames) \in Nat /\ DOMAIN frames = 1..Len(frames)
  OBVIOUS
<1>2. e = [i \in 1..Len(frames) |-> e[i]]
  BY <1>1 DEF Enveloped
<1> HIDE DEF e
<1>3. e \in [1..Len(frames) -> T]
  BY <1>2
<1>4. e \in Seq(T)
  BY <1>1, <1>3, SeqDef
<1>5. queue \in Seq(T)
  BY SeqMonotonic DEF IsSequence
<1> HIDE DEF T
<1>6. queue \o e \in Seq(T)
  BY <1>4, <1>5, ConcatProperties
<1> QED
  BY <1>6, NewestFrames DEF e

(* A number is a number.                                                   *)
LEMMA Numbered ==
  ASSUME sequence \in Nat, NEW frames, NEW n \in Nat
  PROVE  Number(frames, n) \in Nat
<1> DEFINE A == {j \in 1..n : IsEvent(frames[j])}
<1>1. IsFiniteSet(1..n)
  BY FS_Interval
<1>2. A \in SUBSET (1..n)
  OBVIOUS
<1> HIDE DEF A
<1>3. IsFiniteSet(A)
  BY <1>1, <1>2, FS_Subset
<1>4. Cardinality(A) \in Nat
  BY <1>3, FS_CardinalityType
<1> QED
  BY <1>4 DEF Number, A

FramesOK == IsSequence(queue) /\ Len(queue) <= MaxQueue /\ sequence \in Nat

(* publish keeps the queue and the numbers.                                *)
LEMMA Published ==
  ASSUME FramesOK, NEW S, NEW frames \in Seq(S), publish(frames)
  PROVE  FramesOK' /\ said' = said \cup Says(frames)
<1>1. sequence' \in Nat
  BY Numbered DEF publish, FramesOK
<1>2. queue' = queue \/ queue' = Newest(queue \o Enveloped(frames))
  BY DEF publish
<1>3. IsSequence(queue') /\ Len(queue') <= MaxQueue
  BY <1>2, AddedFrames DEF FramesOK
<1> QED
  BY <1>1, <1>3 DEF publish, FramesOK, IsSequence, Elements

(* A frame that says what was decided of an approval of the bridge.        *)
Tells(frame) == frame.type = "approval.resolved" /\ frame.subject # 0

(* Frames of other kinds say nothing of that sort.                         *)
LEMMA PublishedSilently ==
  ASSUME FramesOK, NEW S, NEW frames \in Seq(S), \A e \in S : ~Tells(e), publish(frames)
  PROVE  FramesOK' /\ said' = said
<1>1. FramesOK' /\ said' = said \cup Says(frames)
  BY Published
<1>2. \A i \in DOMAIN frames : frames[i] \in S
  OBVIOUS
<1>3. Says(frames) = {}
  BY <1>2 DEF Says, Tells
<1> QED
  BY <1>1, <1>3

(* A single frame of another kind.                                         *)
LEMMA PublishedOne ==
  ASSUME FramesOK, NEW frame, ~Tells(frame), publish(<<frame>>)
  PROVE  FramesOK' /\ said' = said
<1> DEFINE S == {frame}
<1>1. <<frame>> \in Seq(S) /\ \A e \in S : ~Tells(e)
  OBVIOUS
<1> HIDE DEF S
<1> QED
  BY <1>1, PublishedSilently

(* If it is the first that tells of a decision, that is all they say.      *)
LEMMA PublishedDecision ==
  ASSUME FramesOK, NEW S, NEW frames \in Seq(S), NEW a \in Nat \ {0}, NEW value,
         frames # <<>>, frames[1] = Decided(a, value),
         \A i \in 2..Len(frames) : ~Tells(frames[i]), publish(frames)
  PROVE  /\ FramesOK'
         /\ said' = said \cup {[place |-> Cardinality(said) + 1, subject |-> a, value |-> value]}
<1>1. FramesOK' /\ said' = said \cup Says(frames)
  BY Published
<1>2. /\ frames[1].type = "approval.resolved" /\ frames[1].subject = a /\ frames[1].value = value
  BY DEF Decided, Event
<1>3. {j \in DOMAIN frames : Tells(frames[j])} = {1}
  <2>1. DOMAIN frames = 1..Len(frames) /\ Len(frames) \in Nat \ {0}
    BY EmptySeq
  <2> QED
    BY <1>2, <2>1 DEF Tells
<1>4. Says(frames) =
        {[place |-> Cardinality(said) + i, subject |-> frames[i].subject, value |-> frames[i].value] :
           i \in {j \in DOMAIN frames : Tells(frames[j])}}
  BY DEF Says, Tells
<1> QED
  BY <1>1, <1>2, <1>3, <1>4

LinkTypes ==
  /\ phase \in {"new", "running", "stopped"}
  /\ sockets \in Seq(SocketState) /\ socket \in 0..Len(sockets)
  /\ served \subseteq DOMAIN sockets /\ authenticated \in BOOLEAN /\ reconnectTimer \in BOOLEAN

(* Every step keeps the types of the connection.                           *)
LEMMA LinkTyped == LinkTypes /\ LinkInv /\ [Next]_vars => LinkTypes'
<1> SUFFICES ASSUME LinkTypes, LinkInv, [Next]_vars PROVE LinkTypes'
  OBVIOUS
<1>1. /\ sockets \in Seq(SocketState) /\ DOMAIN sockets = 1..Len(sockets) /\ Len(sockets) \in Nat
      /\ {"connecting", "open", "closing", "failed", "closed"} \subseteq SocketState
  BY DEF LinkTypes, SocketState
<1>2. ASSUME UNCHANGED <<phase, linkVars>> PROVE LinkTypes'
  BY <1>2 DEF LinkTypes, linkVars
<1>3. CASE Start \/ Reconnect
  <2>1. /\ Begun(sockets) /\ phase' \in {phase, "running"} /\ UNCHANGED <<served, authenticated>>
        /\ reconnectTimer' \in {reconnectTimer, FALSE}
    BY <1>3 DEF Start, Reconnect
  <2>2. sockets' \in Seq(SocketState) /\ Len(sockets') = Len(sockets) + 1 /\ socket' = Len(sockets) + 1
    BY <1>1, <2>1, AppendProperties DEF Begun
  <2>3. DOMAIN sockets' = 1..Len(sockets) + 1
    BY <2>2
  <2>4. socket' \in 0..Len(sockets') /\ served' \subseteq DOMAIN sockets'
    BY <1>1, <2>1, <2>2, <2>3 DEF LinkTypes
  <2>5. phase' \in {"new", "running", "stopped"} /\ authenticated' \in BOOLEAN /\ reconnectTimer' \in BOOLEAN
    BY <2>1 DEF LinkTypes
  <2> QED
    BY <2>2, <2>4, <2>5 DEF LinkTypes
<1>4. ASSUME NEW s \in 1..Len(sockets), NEW to \in SocketState, State(s, to) \/ sockets' = sockets,
             phase' \in {phase, "stopped"}, socket' \in {0, socket}, served' \in {served, served \cup {s}},
             authenticated' \in BOOLEAN, reconnectTimer' \in BOOLEAN
      PROVE  LinkTypes'
  <2>1. sockets' \in Seq(SocketState) /\ Len(sockets') = Len(sockets)
    BY <1>1, <1>4, Changes
  <2>2. DOMAIN sockets' = 1..Len(sockets)
    BY <2>1
  <2> QED
    BY <1>1, <1>4, <2>1, <2>2 DEF LinkTypes
<1>5. CASE Stop
  <2>1. socket \in 1..Len(sockets)
    BY <1>5 DEF Stop, LinkInv
  <2> QED
    BY <1>1, <1>4, <1>5, <2>1 DEF Stop
<1>6. ASSUME NEW s \in DOMAIN sockets, SocketStep(s) PROVE LinkTypes'
  <2>1. authenticated \in BOOLEAN /\ reconnectTimer \in BOOLEAN
    BY DEF LinkTypes
  <2>2. CASE Opens(s) \/ Closing(s)
    BY <1>1, <1>4, <2>1, <2>2 DEF Opens, Closing
  <2>3. CASE Error(s) \/ Close(s)
    BY <1>1, <1>4, <2>1, <2>3 DEF Error, Close, scheduleReconnect
  <2>4. CASE Authenticated(s)
    BY <1>1, <1>4, <2>1, <2>4 DEF Authenticated
  <2>5. CASE Rejected(s)
    <3>1. CASE Closable
      <4>1. socket \in 1..Len(sockets)
        BY <1>1, <3>1 DEF Closable, LinkTypes
      <4>2. sockets' \in Seq(SocketState) /\ Len(sockets') = Len(sockets)
        BY <1>1, <2>5, <3>1, <4>1, Changes DEF Rejected
      <4>3. DOMAIN sockets' = 1..Len(sockets)
        BY <4>2
      <4> QED
        BY <1>1, <2>5, <4>2, <4>3 DEF Rejected, LinkTypes
    <3>2. CASE ~Closable
      BY <1>1, <1>4, <2>1, <2>5, <3>2 DEF Rejected
    <3> QED
      BY <3>1, <3>2
  <2> QED
    BY <1>6, <2>2, <2>3, <2>4, <2>5 DEF SocketStep
<1>7. CASE Heartbeat \/ Tick \/ UNCHANGED vars
  BY <1>2, <1>7 DEF Heartbeat, Tick, vars
<1>8. ASSUME NEW s, NEW d, NEW a, handleCommand(s, d, a) PROVE LinkTypes'
  BY <1>2, <1>8 DEF handleCommand, Settle
<1>9. ASSUME NEW session,
             \/ SessionEvent(session)
             \/ \E callId \in CallIds :
                  \/ requestApproval(session, callId)
                  \/ \E command \in Commands : ToolCall(session, callId, command)
      PROVE  LinkTypes'
  BY <1>2, <1>9 DEF SessionEvent, requestApproval, ToolCall
<1>10. ASSUME NEW a, TimesOut(a) \/ \E decision \in Options : Decide(a, decision)
       PROVE  LinkTypes'
  BY <1>2, <1>10 DEF TimesOut, Decide
<1> QED
  BY <1>3, <1>5, <1>6, <1>7, <1>8, <1>9, <1>10 DEF Next

-----------------------------------------------------------------------------
(* Outcomes.                                                               *)

Outcomes == {"none", "allowed-once", "rejected", "cancelled", "unavailable"}

(* What is pending has no outcome yet, and what was said or is a verdict   *)
(* has one: of an approval that is not pending.                            *)
OutcomeInv ==
  /\ Len(outcome) = Len(approvals) /\ outcome \in Seq(Outcomes)
  /\ \A a \in pendingApprovals : outcome[a] = "none"
  /\ \A i \in 1..Len(verdicts) : verdicts[i][2] \in 1..Len(decisions)
  /\ \A e \in said : e.subject \in 1..Len(approvals) \ pendingApprovals
  /\ OneOutcome

(* What the outcomes are about is the same.                                *)
LEMMA OutcomesKept ==
  ASSUME OutcomeInv,
         UNCHANGED <<outcome, approvals, pendingApprovals, verdicts, decisions, said>>
  PROVE  OutcomeInv'
BY DEF OutcomeInv, OneOutcome

(* Whatever is resolved of what is pending, the other outcomes stay.       *)
LEMMA Resolves ==
  ASSUME ApprovalInv, OutcomeInv, NEW set \in SUBSET pendingApprovals, NEW told \in Outcomes,
         Resolve(set, told)
  PROVE  /\ Len(outcome') = Len(outcome) /\ outcome' \in Seq(Outcomes)
         /\ \A a \in 1..Len(outcome) : outcome'[a] = IF a \in set THEN told ELSE outcome[a]
<1>1. /\ Len(outcome) \in Nat /\ DOMAIN outcome = 1..Len(outcome)
      /\ \A a \in 1..Len(outcome) : outcome[a] \in Outcomes
  BY DEF OutcomeInv
<1>2. \A a \in set : outcome[a] = "none"
  BY DEF OutcomeInv
<1>3. outcome' = [a \in 1..Len(outcome) |-> IF a \in set THEN told ELSE outcome[a]]
  BY <1>1, <1>2 DEF Resolve
<1>4. outcome' \in [1..Len(outcome) -> Outcomes]
  BY <1>1, <1>3
<1> QED
  BY <1>1, <1>3, <1>4, SeqDef

(* An approval that is over without a verdict, and not said to be so or    *)
(* said to be cancelled.                                                   *)
LEMMA Dismissed ==
  ASSUME ApprovalInv, OutcomeInv, NEW set \in SUBSET pendingApprovals,
         Resolve(set, "unavailable"), pendingApprovals' = pendingApprovals \ set,
         UNCHANGED <<approvals, verdicts, decisions>>,
         \/ said' = said
         \/ \E a \in set : \E n : said' = said \cup {[place |-> n, subject |-> a, value |-> "cancel"]}
  PROVE  OutcomeInv'
<1>1. "unavailable" \in Outcomes
  BY DEF Outcomes
<1>2. /\ Len(outcome') = Len(outcome) /\ outcome' \in Seq(Outcomes)
      /\ \A a \in 1..Len(outcome) : outcome'[a] = IF a \in set THEN "unavailable" ELSE outcome[a]
  BY <1>1, Resolves
<1>3. /\ Len(outcome) = Len(approvals) /\ pendingApprovals \subseteq 1..Len(approvals)
      /\ \A i \in 1..Len(verdicts) : verdicts[i][1] \in 1..Len(approvals) \ pendingApprovals
      /\ DOMAIN verdicts = 1..Len(verdicts)
  BY DEF ApprovalInv, OutcomeInv
<1>4. \A a \in 1..Len(approvals) \ pendingApprovals : outcome'[a] = outcome[a]
  BY <1>2, <1>3
<1>5. \A a \in pendingApprovals' : outcome'[a] = "none"
  BY <1>2, <1>3 DEF OutcomeInv
<1>6. \A e \in said' : e.subject \in 1..Len(approvals) \ pendingApprovals'
  <2>1. \A e \in said : e.subject \in 1..Len(approvals) \ pendingApprovals'
    BY DEF OutcomeInv
  <2>2. \A a \in set : a \in 1..Len(approvals) \ pendingApprovals'
    BY <1>3
  <2> QED
    BY <2>1, <2>2
<1>7. \A i \in 1..Len(verdicts) :
        /\ outcome'[verdicts[i][1]] = normalizeDecision(decisions[verdicts[i][2]].decision)
        /\ \A j \in 1..Len(verdicts) : verdicts[i][1] = verdicts[j][1] => i = j
  BY <1>3, <1>4 DEF OutcomeInv, OneOutcome
<1>8. \A e \in said : outcome'[e.subject] = outcome[e.subject]
  BY <1>4 DEF OutcomeInv
<1>9. \A e \in said' :
        /\ outcome'[e.subject] \in {normalizeDecision(e.value)} \cup
             (IF e.value = "cancel" THEN {"unavailable"} ELSE {})
        /\ \A f \in said' : e.subject = f.subject => e = f
  <2>1. CASE said' = said
    BY <1>8, <2>1 DEF OutcomeInv, OneOutcome
  <2>2. ASSUME NEW a \in set, NEW n, said' = said \cup {[place |-> n, subject |-> a, value |-> "cancel"]}
        PROVE  <1>9!:
    <3>1. outcome'[a] = "unavailable"
      BY <1>2, <1>3
    <3>2. \A e \in said : e.subject # a
      BY DEF OutcomeInv
    <3> QED
      BY <1>8, <2>2, <3>1, <3>2 DEF OutcomeInv, OneOutcome
  <2> QED
    BY <2>1, <2>2
<1> QED
  BY <1>2, <1>3, <1>5, <1>6, <1>7, <1>9 DEF OutcomeInv, OneOutcome


(* A decision settles what is pending: the Harness, the clients and        *)
(* whoever sent it hear the same.                                          *)
LEMMA SettledSame ==
  ASSUME ApprovalInv, OutcomeInv, FramesOK, NEW d \in DOMAIN decisions, NEW a \in pendingApprovals,
         Settle(a, d)
  PROVE  OutcomeInv' /\ FramesOK'
<1> DEFINE told == normalizeDecision(decisions[d].decision)
           value == decisions[d].decision
           frames == <<Decided(a, value), Status(approvals[a].session, "running"), Result>>
           new == [place |-> Cardinality(said) + 1, subject |-> a, value |-> value]
<1>1. /\ a \in 1..Len(approvals) /\ a \in Nat \ {0} /\ DOMAIN decisions = 1..Len(decisions)
      /\ decisions[d] \in Opinion
  BY DEF ApprovalInv
<1>2. value \in Options /\ told \in Outcomes
  BY <1>1, OptionsAssumption DEF Opinion, normalizeDecision, Outcomes
<1>3. FramesOK' /\ said' = said \cup {new}
  <2>1. frames \in Seq({frames[1], frames[2], frames[3]}) /\ Len(frames) = 3
        /\ frames # <<>> /\ frames[1] = Decided(a, value)
    OBVIOUS
  <2>2. ~Tells(frames[2]) /\ ~Tells(frames[3])
    BY DEF Tells, Status, Result, OfHost, Event
  <2>3. publish(frames)
    BY DEF Settle
  <2>4. \A i \in 2..Len(frames) : ~Tells(frames[i])
    BY <2>1, <2>2
  <2> HIDE DEF frames, value
  <2> QED
    BY <1>1, <2>1, <2>3, <2>4, PublishedDecision
<1>4. /\ pendingApprovals' = pendingApprovals \ {a} /\ Resolve({a}, told)
      /\ verdicts' = Append(verdicts, <<a, d>>) /\ UNCHANGED <<approvals, decisions>>
  BY DEF Settle, Forget
<1>5. \A f : normalizeDecision(f)' = normalizeDecision(f)
  BY DEF normalizeDecision
<1>6. told = normalizeDecision(value) /\ new.subject = a /\ new.value = value
  OBVIOUS
<1> HIDE DEF told, new
<1>7. /\ Len(outcome') = Len(outcome) /\ outcome' \in Seq(Outcomes)
      /\ \A b \in 1..Len(outcome) : outcome'[b] = IF b = a THEN told ELSE outcome[b]
  <2>1. {a} \in SUBSET pendingApprovals /\ \A b : b \in {a} <=> b = a
    OBVIOUS
  <2>2. /\ Len(outcome') = Len(outcome) /\ outcome' \in Seq(Outcomes)
        /\ \A b \in 1..Len(outcome) : outcome'[b] = IF b \in {a} THEN told ELSE outcome[b]
    BY <1>2, <1>4, <2>1, Resolves
  <2> QED
    BY <2>1, <2>2
<1>8. /\ Len(outcome) = Len(approvals) /\ pendingApprovals \subseteq 1..Len(approvals)
      /\ \A i \in 1..Len(verdicts) : verdicts[i][1] \in 1..Len(approvals) \ pendingApprovals
      /\ verdicts \in Seq(Nat \X Nat) /\ DOMAIN verdicts = 1..Len(verdicts) /\ Len(verdicts) \in Nat
  BY DEF ApprovalInv, OutcomeInv
<1>9. /\ Len(verdicts') = Len(verdicts) + 1 /\ verdicts'[Len(verdicts) + 1] = <<a, d>>
      /\ \A i \in 1..Len(verdicts) : verdicts'[i] = verdicts[i]
      /\ DOMAIN verdicts' = 1..Len(verdicts) + 1
      /\ 1..Len(verdicts) + 1 = 1..Len(verdicts) \cup {Len(verdicts) + 1}
  <2>1. <<a, d>> \in Nat \X Nat
    BY <1>1
  <2>2. /\ verdicts' \in Seq(Nat \X Nat) /\ Len(verdicts') = Len(verdicts) + 1
        /\ verdicts'[Len(verdicts) + 1] = <<a, d>>
        /\ \A i \in 1..Len(verdicts) : verdicts'[i] = verdicts[i]
    BY <1>4, <1>8, <2>1, AppendProperties
  <2> QED
    BY <1>8, <2>2
<1>10. \A b \in 1..Len(approvals) \ pendingApprovals : b # a /\ outcome'[b] = outcome[b]
  BY <1>7, <1>8
<1>11. \A b \in pendingApprovals' : outcome'[b] = "none"
  BY <1>4, <1>7, <1>8 DEF OutcomeInv
<1>12. \A e \in said' : e.subject \in 1..Len(approvals) \ pendingApprovals'
  <2>1. \A e \in said : e.subject \in 1..Len(approvals) \ pendingApprovals'
    BY <1>4 DEF OutcomeInv
  <2> QED
    BY <1>1, <1>3, <1>4, <1>6, <2>1
<1>13. \A i \in 1..Len(verdicts) + 1 :
         /\ verdicts'[i][2] \in 1..Len(decisions)
         /\ outcome'[verdicts'[i][1]] = normalizeDecision(decisions[verdicts'[i][2]].decision)
         /\ \A j \in 1..Len(verdicts) + 1 : verdicts'[i][1] = verdicts'[j][1] => i = j
  <2>1. outcome'[a] = normalizeDecision(decisions[d].decision) /\ d \in 1..Len(decisions)
    BY <1>1, <1>7, <1>8 DEF told
  <2>2. /\ \A i \in 1..Len(verdicts) :
             /\ verdicts[i][2] \in 1..Len(decisions)
             /\ outcome[verdicts[i][1]] = normalizeDecision(decisions[verdicts[i][2]].decision)
        /\ \A i, j \in 1..Len(verdicts) : verdicts[i][1] = verdicts[j][1] => i = j
    BY <1>8 DEF OutcomeInv, OneOutcome
  <2>3. \A i \in 1..Len(verdicts) :
          /\ verdicts'[i][1] # a /\ verdicts'[i][2] \in 1..Len(decisions)
          /\ outcome'[verdicts'[i][1]] = normalizeDecision(decisions[verdicts'[i][2]].decision)
    <3> TAKE i \in 1..Len(verdicts)
    <3>1. verdicts'[i] = verdicts[i] /\ verdicts[i][1] \in 1..Len(approvals) \ pendingApprovals
      BY <1>8, <1>9
    <3>2. verdicts[i][1] # a /\ outcome'[verdicts[i][1]] = outcome[verdicts[i][1]]
      BY <1>10, <3>1
    <3> QED
      BY <2>2, <3>1, <3>2
  <2>4. \A i, j \in 1..Len(verdicts) : verdicts'[i][1] = verdicts'[j][1] => i = j
    BY <1>9, <2>2
  <2>5. verdicts'[Len(verdicts) + 1][1] = a /\ verdicts'[Len(verdicts) + 1][2] = d
    BY <1>9
  <2> QED
    BY <1>9, <2>1, <2>2, <2>3, <2>4, <2>5
<1>14. \A e \in said' :
         /\ outcome'[e.subject] \in {normalizeDecision(e.value)} \cup
              (IF e.value = "cancel" THEN {"unavailable"} ELSE {})
         /\ \A f \in said' : e.subject = f.subject => e = f
  <2>1. outcome'[a] = normalizeDecision(value)
    BY <1>6, <1>7, <1>8
  <2>2. \A e \in said : e.subject # a /\ outcome'[e.subject] = outcome[e.subject]
    BY <1>10 DEF OutcomeInv
  <2> QED
    BY <1>3, <1>6, <2>1, <2>2 DEF OutcomeInv, OneOutcome
<1>15. OneOutcome'
  BY <1>4, <1>9, <1>13, <1>14 DEF OneOutcome, normalizeDecision
<1>16. Len(outcome') = Len(approvals') /\ \A i \in 1..Len(verdicts') : verdicts'[i][2] \in 1..Len(decisions')
  BY <1>4, <1>7, <1>8, <1>9, <1>13
<1> QED
  BY <1>3, <1>4, <1>7, <1>11, <1>12, <1>15, <1>16 DEF OutcomeInv

-----------------------------------------------------------------------------
(* Every step.                                                             *)

MapperTypes ==
  /\ seenSessions \subseteq Sessions
  /\ DOMAIN toolCalls \subseteq Sessions \X CallIds
  /\ now \in 0..MaxTime

BridgeInv == FramesOK /\ MapperTypes /\ OutcomeInv

(* Steps that touch no frame, mapper or approval.                          *)
LEMMA BridgeKept ==
  ASSUME BridgeInv, UNCHANGED <<frameVars, mapperVars, approvalVars, decisions, now>>
  PROVE  BridgeInv'
<1>1. UNCHANGED <<queue, sequence, said, seenSessions, toolCalls, now>>
  BY DEF frameVars, mapperVars
<1>2. UNCHANGED <<outcome, approvals, pendingApprovals, verdicts, decisions>>
  BY DEF approvalVars
<1> QED
  BY <1>1, <1>2, OutcomesKept DEF BridgeInv, FramesOK, MapperTypes, IsSequence, Elements

(* Steps that say nothing of a decision and touch no approval.             *)
LEMMA BridgeReports ==
  ASSUME BridgeInv, FramesOK', said' = said,
         seenSessions' \subseteq Sessions, DOMAIN toolCalls' \subseteq Sessions \X CallIds,
         UNCHANGED <<approvalVars, decisions, now>>
  PROVE  BridgeInv'
<1>1. UNCHANGED <<outcome, approvals, pendingApprovals, verdicts, decisions>>
  BY DEF approvalVars
<1> QED
  BY <1>1, OutcomesKept DEF BridgeInv, MapperTypes

(* A bridge that is authenticated sends what it kept, or keeps more.       *)
LEMMA BridgeGreets ==
  ASSUME BridgeInv, NEW s, Authenticated(s)
  PROVE  BridgeInv'
<1> DEFINE greeting == <<OfHost("host.connected"), OfHost("pairing.offer")>>
<1>1. /\ sequence' = sequence + 1 /\ queue' \in {<<>>, Newest(queue \o Enveloped(greeting))}
      /\ said' = said /\ UNCHANGED <<mapperVars, approvalVars, decisions, now>>
  BY DEF Authenticated
<1>2. greeting \in Seq({OfHost("host.connected"), OfHost("pairing.offer")})
  OBVIOUS
<1> HIDE DEF greeting
<1>3. FramesOK'
  <2>1. sequence' \in Nat
    BY <1>1 DEF BridgeInv, FramesOK
  <2>2. CASE queue' = <<>>
    <3>1. Len(queue') = 0 /\ 0 <= MaxQueue
      BY <2>2, LivesAssumption
    <3>2. queue' \in Seq(Elements(queue'))
      BY <2>2, EmptySeq
    <3> QED
      BY <2>1, <3>1, <3>2 DEF FramesOK, IsSequence, Elements
  <2>3. CASE queue' = Newest(queue \o Enveloped(greeting))
    <3>1. IsSequence(queue') /\ Len(queue') <= MaxQueue
      BY <1>2, <2>3, AddedFrames DEF BridgeInv, FramesOK
    <3> QED
      BY <2>1, <3>1 DEF FramesOK, IsSequence, Elements
  <2> QED
    BY <1>1, <2>2, <2>3
<1>4. UNCHANGED <<outcome, approvals, pendingApprovals, verdicts, decisions, said>>
  BY <1>1 DEF approvalVars
<1> QED
  BY <1>1, <1>3, <1>4, OutcomesKept DEF BridgeInv, MapperTypes, mapperVars

(* What clients decide later changes nothing of what was decided.          *)
LEMMA BridgeHears ==
  ASSUME BridgeInv, ApprovalInv, NEW a, NEW decision, Decide(a, decision)
  PROVE  BridgeInv'
<1>1. /\ \E o : decisions' = Append(decisions, o)
      /\ UNCHANGED <<queue, sequence, said, seenSessions, toolCalls, now>>
      /\ UNCHANGED <<outcome, approvals, pendingApprovals, verdicts>>
  BY DEF Decide, frameVars, mapperVars, approvalVars
<1>2. Len(decisions) \in Nat /\ DOMAIN verdicts = 1..Len(verdicts) /\ decisions \in Seq(Opinion)
  BY DEF ApprovalInv
<1>3. /\ Len(decisions') = Len(decisions) + 1
      /\ \A i \in 1..Len(decisions) : decisions'[i] = decisions[i]
  BY <1>1, <1>2
<1>4. \A i \in 1..Len(verdicts) :
        /\ verdicts[i][2] \in 1..Len(decisions')
        /\ decisions'[verdicts[i][2]] = decisions[verdicts[i][2]]
  BY <1>2, <1>3 DEF BridgeInv, OutcomeInv
<1>5. OneOutcome'
  BY <1>1, <1>2, <1>4 DEF BridgeInv, OutcomeInv, OneOutcome, normalizeDecision
<1>6. OutcomeInv'
  BY <1>1, <1>4, <1>5 DEF BridgeInv, OutcomeInv
<1> QED
  BY <1>1, <1>6 DEF BridgeInv, FramesOK, MapperTypes, IsSequence, Elements

(* The Harness asks: nothing was said or decided of the new approval.      *)
LEMMA BridgeAsks ==
  ASSUME BridgeInv, ApprovalInv, NEW session \in Sessions, NEW callId \in CallIds,
         requestApproval(session, callId)
  PROVE  BridgeInv'
<1> DEFINE n == Len(approvals)
           status == Status(session, "waiting_approval")
           request == Event(session, "approval.requested", n + 1, "")
<1>1. /\ outcome' = Append(outcome, "none") /\ \E e : approvals' = Append(approvals, e)
      /\ pendingApprovals' = pendingApprovals \cup {n + 1} /\ publish(<<status, request>>)
      /\ UNCHANGED <<seenSessions, toolCalls, verdicts, decisions, now>>
  BY DEF requestApproval, mapperVars
<1>2. ~Tells(status) /\ ~Tells(request)
  BY DEF Tells, Status, Event
<1>3. FramesOK' /\ said' = said
  <2> DEFINE S == {status, request}
  <2>1. <<status, request>> \in Seq(S)
    OBVIOUS
  <2>2. \A e \in S : ~Tells(e)
    BY <1>2
  <2> HIDE DEF status, request, S
  <2> QED
    BY <1>1, <2>1, <2>2, PublishedSilently DEF BridgeInv
<1> HIDE DEF status, request
<1>4. /\ n \in Nat /\ approvals \in Seq(Asked) /\ pendingApprovals \subseteq 1..n
      /\ Len(outcome) = n /\ outcome \in Seq(Outcomes) /\ DOMAIN verdicts = 1..Len(verdicts)
      /\ \A i \in 1..Len(verdicts) : verdicts[i][1] \in 1..n \ pendingApprovals
      /\ \A e \in said : e.subject \in 1..n \ pendingApprovals
  BY DEF ApprovalInv, BridgeInv, OutcomeInv
<1>5. Len(approvals') = n + 1
  BY <1>1, <1>4
<1>6. /\ outcome' \in Seq(Outcomes) /\ Len(outcome') = n + 1 /\ outcome'[n + 1] = "none"
      /\ \A a \in 1..n : outcome'[a] = outcome[a]
  <2>1. "none" \in Outcomes
    BY DEF Outcomes
  <2> QED
    BY <1>1, <1>4, <2>1, AppendProperties
<1> HIDE DEF n
<1>7. \A a \in 1..n \ pendingApprovals : a \in 1..n + 1 \ pendingApprovals' /\ outcome'[a] = outcome[a]
  BY <1>1, <1>4, <1>6
<1>8. \A a \in pendingApprovals' : outcome'[a] = "none"
  BY <1>1, <1>4, <1>6 DEF BridgeInv, OutcomeInv
<1>9. \A e \in said' : e.subject \in 1..n + 1 \ pendingApprovals'
  BY <1>3, <1>4, <1>7
<1>10. OneOutcome'
  <2>1. \A i \in DOMAIN verdicts : outcome'[verdicts[i][1]] = outcome[verdicts[i][1]]
    BY <1>4, <1>7
  <2>2. \A e \in said : outcome'[e.subject] = outcome[e.subject]
    BY <1>4, <1>7
  <2> QED
    BY <1>1, <1>3, <2>1, <2>2 DEF BridgeInv, OutcomeInv, OneOutcome, normalizeDecision
<1>11. OutcomeInv'
  BY <1>1, <1>5, <1>6, <1>8, <1>9, <1>10 DEF BridgeInv, OutcomeInv
<1> QED
  BY <1>1, <1>3, <1>11 DEF BridgeInv, MapperTypes

(* The timeout and stop dismiss what is pending.                           *)
LEMMA BridgeDismisses ==
  ASSUME BridgeInv, ApprovalInv, Stop \/ \E a \in DOMAIN approvals : TimesOut(a)
  PROVE  BridgeInv'
<1>1. CASE Stop
  <2> DEFINE bye == OfHost("host.disconnected")
  <2>1. /\ Resolve(pendingApprovals, "unavailable") /\ pendingApprovals' = {} /\ publish(<<bye>>)
        /\ UNCHANGED <<seenSessions, toolCalls, approvals, verdicts, decisions, now>>
    BY <1>1 DEF Stop, Dismiss, mapperVars
  <2>2. ~Tells(bye)
    BY DEF Tells, OfHost, Event
  <2>3. FramesOK' /\ said' = said
    <3> HIDE DEF bye
    <3> QED
      BY <2>1, <2>2, PublishedOne DEF BridgeInv
  <2>4. pendingApprovals' = pendingApprovals \ pendingApprovals
    BY <2>1
  <2>5. OutcomeInv'
    BY <2>1, <2>3, <2>4, Dismissed DEF BridgeInv
  <2> QED
    BY <2>1, <2>3, <2>5 DEF BridgeInv, MapperTypes
<1>2. ASSUME NEW a \in DOMAIN approvals, TimesOut(a) PROVE BridgeInv'
  <2> DEFINE told == Decided(a, "cancel")
  <2>1. /\ Resolve({a}, "unavailable") /\ pendingApprovals' = pendingApprovals \ {a}
        /\ a \in timers /\ publish(<<told>>)
        /\ UNCHANGED <<seenSessions, toolCalls, approvals, verdicts, decisions, now>>
    BY <1>2 DEF TimesOut, Forget, mapperVars
  <2>2. a \in pendingApprovals /\ a \in Nat \ {0}
    BY <2>1 DEF ApprovalInv
  <2>3. /\ <<told>> \in Seq({told}) /\ <<told>> # <<>> /\ Len(<<told>>) = 1 /\ <<told>>[1] = told
        /\ 2..1 = {}
    OBVIOUS
  <2>4. /\ FramesOK'
        /\ said' = said \cup {[place |-> Cardinality(said) + 1, subject |-> a, value |-> "cancel"]}
    BY <2>1, <2>2, <2>3, PublishedDecision DEF BridgeInv
  <2>5. {a} \in SUBSET pendingApprovals /\ a \in {a}
    BY <2>2
  <2> HIDE DEF told
  <2>6. OutcomeInv'
    BY <2>1, <2>4, <2>5, Dismissed DEF BridgeInv
  <2> QED
    BY <2>1, <2>4, <2>6 DEF BridgeInv, MapperTypes
<1> QED
  BY <1>1, <1>2

(* The Harness reports, and says nothing of the bridge's approvals.        *)
LEMMA BridgeShows ==
  ASSUME BridgeInv, NEW session \in Sessions,
         \/ SessionEvent(session)
         \/ \E callId \in CallIds, command \in Commands : ToolCall(session, callId, command)
  PROVE  BridgeInv'
<1> DEFINE content == Event(session, "session.content", 0, "")
           idle == Status(session, "idle")
           declined == Event(session, "approval.resolved", 0, "decline")
           new == Event(session, "session.upserted", 0, "running")
           S == {content, idle, declined, new}
<1>1. \A e \in S : ~Tells(e)
  <2>1. ~Tells(content) /\ ~Tells(idle) /\ ~Tells(declined) /\ ~Tells(new)
    BY DEF Tells, Status, Event
  <2> HIDE DEF content, idle, declined, new
  <2> QED
    BY <2>1
<1>2. Introduced(session) \in Seq(S) /\ content \in S
  <2>1. Introduced(session) = <<>> \/ Introduced(session) = <<new>>
    BY DEF Introduced
  <2>2. <<>> \in Seq(S) /\ <<new>> \in Seq(S) /\ content \in S
    <3> HIDE DEF content, idle, declined, new
    <3> QED
      OBVIOUS
  <2> HIDE DEF content, idle, declined, new, S
  <2> QED
    BY <2>1, <2>2
<1>3. \A frames \in Mapped(session) : frames \in Seq(S)
  <2>1. Mapped(session) = {<<>>, <<content>>, <<content, idle>>, <<declined>>}
    BY DEF Mapped
  <2>2. /\ <<>> \in Seq(S) /\ <<content>> \in Seq(S) /\ <<content, idle>> \in Seq(S)
        /\ <<declined>> \in Seq(S)
    <3> HIDE DEF content, idle, declined, new
    <3> QED
      OBVIOUS
  <2> HIDE DEF content, idle, declined, new, S
  <2> QED
    BY <2>1, <2>2
<1> HIDE DEF content, idle, declined, new, S
<1>4. CASE SessionEvent(session)
  <2>1. PICK frames \in Mapped(session) : publish(Introduced(session) \o frames)
    BY <1>4 DEF SessionEvent
  <2>2. FramesOK' /\ said' = said
    <3>1. Introduced(session) \o frames \in Seq(S)
      BY <1>2, <1>3, ConcatProperties
    <3> QED
      BY <1>1, <2>1, <3>1, PublishedSilently DEF BridgeInv
  <2>3. /\ seenSessions' \subseteq Sessions /\ toolCalls' = toolCalls
        /\ UNCHANGED <<approvalVars, decisions, now>>
    BY <1>4 DEF SessionEvent, BridgeInv, MapperTypes
  <2> QED
    BY <2>2, <2>3, BridgeReports DEF BridgeInv, MapperTypes
<1>5. ASSUME NEW callId \in CallIds, NEW command \in Commands, ToolCall(session, callId, command)
      PROVE  BridgeInv'
  <2>1. publish(Append(Introduced(session), content))
    BY <1>5 DEF ToolCall, content
  <2>2. FramesOK' /\ said' = said
    <3>1. Append(Introduced(session), content) \in Seq(S)
      BY <1>2, AppendProperties
    <3> QED
      BY <1>1, <2>1, <3>1, PublishedSilently DEF BridgeInv
  <2>3. seenSessions' \subseteq Sessions /\ UNCHANGED <<approvalVars, decisions, now>>
    BY <1>5 DEF ToolCall, BridgeInv, MapperTypes
  <2>4. DOMAIN toolCalls' \subseteq Sessions \X CallIds
    <3>1. DOMAIN toolCalls' = DOMAIN toolCalls \cup {<<session, callId>>}
      BY <1>5 DEF ToolCall
    <3> QED
      BY <1>5, <3>1 DEF BridgeInv, MapperTypes
  <2> QED
    BY <2>2, <2>3, <2>4, BridgeReports
<1> QED
  BY <1>4, <1>5

(* The bridge answers a command, and settles an approval if it may.        *)
LEMMA BridgeAnswers ==
  ASSUME BridgeInv, ApprovalInv, NEW s, NEW d \in DOMAIN decisions, NEW a, handleCommand(s, d, a)
  PROVE  BridgeInv'
<1>1. CASE Settle(a, d) /\ a \in pendingApprovals
  <2>1. OutcomeInv' /\ FramesOK'
    BY <1>1, SettledSame DEF BridgeInv
  <2>2. UNCHANGED <<mapperVars, now>>
    BY <1>1 DEF Settle
  <2> QED
    BY <2>1, <2>2 DEF BridgeInv, MapperTypes, mapperVars
<1>2. CASE publish(<<Result>>) /\ UNCHANGED <<phase, linkVars, mapperVars, approvalVars, decisions, now>>
  <2>1. ~Tells(Result)
    BY DEF Tells, Result, OfHost, Event
  <2>3. FramesOK' /\ said' = said
    BY <1>2, <2>1, PublishedOne DEF BridgeInv
  <2>2. /\ seenSessions' \subseteq Sessions /\ DOMAIN toolCalls' \subseteq Sessions \X CallIds
        /\ UNCHANGED <<approvalVars, decisions, now>>
    BY <1>2 DEF mapperVars, BridgeInv, MapperTypes
  <2> QED
    BY <2>2, <2>3, BridgeReports
<1> QED
  BY <1>1, <1>2 DEF handleCommand

(* Every step of the bridge and its environment.                           *)
LEMMA BridgeStep == BridgeInv /\ ApprovalInv /\ [Next]_vars => BridgeInv'
<1> SUFFICES ASSUME BridgeInv, ApprovalInv, [Next]_vars PROVE BridgeInv'
  OBVIOUS
<1>1. CASE Start \/ Reconnect \/ UNCHANGED vars
  BY <1>1, BridgeKept DEF Start, Reconnect, vars
<1>2. CASE Heartbeat
  <2> DEFINE beat == OfHost("host.heartbeat")
  <2>1. ~Tells(beat)
    BY DEF Tells, OfHost, Event
  <2>3. publish(<<beat>>)
    BY <1>2 DEF Heartbeat
  <2>2. /\ seenSessions' \subseteq Sessions /\ DOMAIN toolCalls' \subseteq Sessions \X CallIds
        /\ UNCHANGED <<approvalVars, decisions, now>>
    BY <1>2 DEF Heartbeat, mapperVars, BridgeInv, MapperTypes
  <2> HIDE DEF beat
  <2>4. FramesOK' /\ said' = said
    BY <2>1, <2>3, PublishedOne DEF BridgeInv
  <2> QED
    BY <2>2, <2>4, BridgeReports
<1>3. CASE Tick
  <2>1. /\ UNCHANGED <<queue, sequence, said, seenSessions, toolCalls>>
        /\ UNCHANGED <<outcome, approvals, pendingApprovals, verdicts, decisions>>
    BY <1>3 DEF Tick, frameVars, mapperVars, approvalVars
  <2>2. now' \in 0..MaxTime
    BY <1>3, LivesAssumption DEF Tick, BridgeInv, MapperTypes
  <2> QED
    BY <2>1, <2>2, OutcomesKept DEF BridgeInv, FramesOK, MapperTypes, IsSequence, Elements
<1>4. ASSUME NEW s \in DOMAIN sockets, SocketStep(s) PROVE BridgeInv'
  <2>1. CASE Authenticated(s)
    BY <2>1, BridgeGreets
  <2>2. CASE Opens(s) \/ Closing(s) \/ Error(s) \/ Close(s) \/ Rejected(s)
    <3>1. UNCHANGED <<frameVars, mapperVars, approvalVars, decisions, now>>
      BY <2>2 DEF Opens, Closing, Error, Close, Rejected
    <3> QED
      BY <3>1, BridgeKept
  <2> QED
    BY <1>4, <2>1, <2>2 DEF SocketStep
<1>5. ASSUME NEW session \in Sessions,
             \/ SessionEvent(session)
             \/ \E callId \in CallIds :
                  \/ requestApproval(session, callId)
                  \/ \E command \in Commands : ToolCall(session, callId, command)
      PROVE  BridgeInv'
  BY <1>5, BridgeShows, BridgeAsks
<1>6. CASE Stop \/ \E a \in DOMAIN approvals : TimesOut(a)
  BY <1>6, BridgeDismisses
<1>7. ASSUME NEW a \in DOMAIN approvals, NEW decision \in Options, Decide(a, decision)
      PROVE  BridgeInv'
  BY <1>7, BridgeHears
<1>8. ASSUME NEW s \in DOMAIN sockets, NEW d \in DOMAIN decisions, NEW a \in DOMAIN approvals,
             handleCommand(s, d, a)
      PROVE  BridgeInv'
  BY <1>8, BridgeAnswers
<1> QED
  BY <1>1, <1>2, <1>3, <1>4, <1>5, <1>6, <1>7, <1>8 DEF Next

Bridging == LinkInv /\ LinkTypes /\ ApprovalInv /\ BridgeInv

(* The invariant holds at first.                                           *)
LEMMA BridgingInitially == Init => Bridging
<1> SUFFICES ASSUME Init PROVE Bridging
  OBVIOUS
<1>1. /\ phase = "new" /\ sockets = <<>> /\ socket = 0 /\ served = {}
      /\ authenticated = FALSE /\ reconnectTimer = FALSE /\ queue = <<>> /\ sequence = 0
      /\ said = {} /\ seenSessions = {} /\ DOMAIN toolCalls = {} /\ toolCalls \in [{} -> Commands]
      /\ approvals = <<>> /\ pendingApprovals = {} /\ timers = {} /\ outcome = <<>>
      /\ verdicts = <<>> /\ decisions = <<>> /\ now = 0
  BY DEF Init
<1>2. \A S : <<>> \in Seq(S) /\ Len(<<>>) = 0 /\ DOMAIN <<>> = {} /\ 1..0 = {}
  BY EmptySeq
<1>3. LinkInv /\ LinkTypes
  <2>1. sockets \in Seq(SocketState) /\ Len(sockets) = 0 /\ 0 \in 0..0
    BY <1>1, <1>2
  <2> QED
    BY <1>1, <2>1 DEF LinkInv, LinkTypes, NeverStranded
<1>4. ApprovalInv
  BY <1>1, <1>2 DEF ApprovalInv
<1>5. FramesOK
  BY <1>1, <1>2, LivesAssumption DEF FramesOK, IsSequence
<1>6. MapperTypes
  BY <1>1, LivesAssumption DEF MapperTypes
<1>7. OutcomeInv
  BY <1>1, <1>2 DEF OutcomeInv, OneOutcome
<1> QED
  BY <1>3, <1>4, <1>5, <1>6, <1>7 DEF Bridging, BridgeInv

(* Every step keeps it.                                                    *)
LEMMA BridgingStep == Bridging /\ [Next]_vars => Bridging'
BY LinkStep, LinkTyped, ApprovalStep, BridgeStep DEF Bridging

(* The bridge keeps its types, and at most MaxQueue frames, in every       *)
(* state.                                                                  *)
THEOREM BridgeTypes == Spec => []TypeOK
<1>1. Bridging => TypeOK
  <2> SUFFICES ASSUME Bridging PROVE TypeOK
    BY DEF TypeOK
  <2>1. DOMAIN approvals = 1..Len(approvals)
    BY DEF Bridging, ApprovalInv
  <2> QED
    BY <2>1 DEF TypeOK, Bridging, LinkTypes, ApprovalInv, BridgeInv, FramesOK, MapperTypes, OutcomeInv,
       Outcomes
<1> QED
  BY <1>1, BridgingInitially, BridgingStep, PTL DEF Spec

(* The Harness, the clients and whoever got an ok hear the same of an      *)
(* approval, once, although a decision, the timeout and stop may come      *)
(* together.                                                               *)
THEOREM OutcomesAgree == Spec => []OneOutcome
<1>1. Bridging => OneOutcome
  BY DEF Bridging, BridgeInv, OutcomeInv
<1> QED
  BY <1>1, BridgingInitially, BridgingStep, PTL DEF Spec
=============================================================================
