------------------------- MODULE CodexPromiseProofs -------------------------
(***************************************************************************)
(* A proof that the Codex adapter implements OneShotApproval: every step   *)
(* passes time, opens, opines, settles, or lets approvals lapse, none of   *)
(* them included.                                                          *)
(***************************************************************************)
EXTENDS MCCodexApprovals, CodexApprovalsProofs

(* What the mapping says, without functions built in place.                *)
LEMMA Mapping ==
  /\ DOMAIN Status = DOMAIN shown /\ DOMAIN Subject = DOMAIN shown
  /\ \A r \in DOMAIN shown :
       /\ Subject[r] = Digest(r)
       /\ r \in Settled => Status[r] = "settled"
       /\ r \notin Settled /\ r \in DOMAIN pendingApprovals => Status[r] = "open"
       /\ r \notin Settled /\ r \notin DOMAIN pendingApprovals => Status[r] = "lapsed"
  /\ Status = [r \in DOMAIN Status |-> Status[r]]
  /\ Subject = [r \in DOMAIN Subject |-> Subject[r]]
BY DEF Status, Subject

(* What is open was never answered, and what was answered was shown.       *)
LEMMA OpenOrSettled ==
  ASSUME IInv
  PROVE  /\ Settled \subseteq DOMAIN shown
         /\ Settled \cap DOMAIN pendingApprovals = {}
         /\ DOMAIN pendingApprovals \subseteq DOMAIN shown
         /\ DOMAIN shown \subseteq Request
<1>1. DOMAIN answers = 1..Len(answers)
  BY DEF IInv, TypeOK
<1>2. Settled \subseteq DOMAIN shown
  BY DEF Settled, IInv, AnswerInv, AnswersAreDecisions
<1>3. Settled \cap DOMAIN pendingApprovals = {}
  BY <1>1 DEF Settled, IInv, EntryInv
<1> QED
  BY <1>2, <1>3 DEF IInv, TypeOK

(* The requests that were shown keep what they display.                    *)
Kept == \A r \in DOMAIN shown : requests'[r] = requests[r]

(* Whatever answers nothing and shows nothing lets approvals lapse: those  *)
(* that leave pendingApprovals, often none.                                *)
LEMMA Lapses ==
  ASSUME IInv, Kept, UNCHANGED <<now, shown, answers, decisions>>,
         DOMAIN pendingApprovals' \subseteq DOMAIN pendingApprovals
  PROVE  Promise!Lapse
<1>1. Settled' = Settled /\ Verdicts' = Verdicts
  BY DEF Settled, Verdicts
<1>2. Subject' = Subject
  BY DEF Subject, Kept, Digest
<1>3. DOMAIN Status' = DOMAIN Status
  BY DEF Status
<1>4. ASSUME NEW r \in DOMAIN Status, Status'[r] # Status[r]
      PROVE  Status[r] = "open" /\ Status'[r] = "lapsed"
  BY <1>1, <1>4 DEF Status
<1> QED
  BY <1>1, <1>2, <1>3, <1>4 DEF Promise!Lapse

(* Time passes.                                                            *)
LEMMA Passes == IInv /\ Tick => Promise!Pass
<1> SUFFICES ASSUME IInv, Tick PROVE Promise!Pass
  OBVIOUS
<1>1. now' = now + 1 /\ UNCHANGED <<requests, pendingApprovals, shown, answers, decisions>>
  BY DEF Tick, adapter
<1>2. Status' = Status /\ Subject' = Subject /\ Verdicts' = Verdicts
  BY <1>1 DEF Status, Subject, Verdicts, Settled, Digest
<1> QED
  BY <1>1, <1>2 DEF Promise!Pass

(* A client decides on something it is shown.                              *)
LEMMA Opines == IInv /\ Decide => Promise!Opine
<1> SUFFICES ASSUME IInv, Decide PROVE Promise!Opine
  OBVIOUS
<1>1. UNCHANGED <<now, requests, pendingApprovals, shown, answers>>
  BY DEF Decide, adapter
<1>2. Status' = Status /\ Subject' = Subject /\ Verdicts' = Verdicts
  BY <1>1 DEF Status, Subject, Verdicts, Settled, Digest
<1>3. PICK r \in DOMAIN shown, d \in Decisions :
        decisions' = Append(decisions,
          [digest |-> Digest(r), decision |-> d, expiresAt |-> now + CommandTtl])
  BY DEF Decide
<1> DEFINE o == [digest |-> Digest(r), decision |-> d, expiresAt |-> now + CommandTtl]
<1>4. o.digest = Subject[r] /\ r \in DOMAIN Subject
  BY Mapping
<1>5. decisions \in Seq(Opinions)
  BY DEF IInv, TypeOK
<1>6. o \in Opinions
  <2>1. requests[r] \in Questions /\ r \in Nat
    BY OpenOrSettled DEF IInv, TypeOK, Request
  <2>2. Digest(r) \in Digests
    BY <2>1 DEF Digest, Digests, Questions
  <2>3. now + CommandTtl \in Nat
    BY LifeAssumption DEF IInv, TypeOK
  <2> QED
    BY <2>2, <2>3 DEF Opinions
<1> HIDE DEF o
<1>7. /\ Len(decisions) \in Nat /\ decisions' \in Seq(Opinions)
      /\ Len(decisions') = Len(decisions) + 1 /\ decisions'[Len(decisions')] = o
      /\ \A i \in 1..Len(decisions) : decisions'[i] = decisions[i]
  BY <1>3, <1>5, <1>6, AppendProperties DEF o
<1>8. SubSeq(decisions', 1, Len(decisions)) = decisions
  BY <1>5, <1>7, SeqEqual
<1> QED
  BY <1>1, <1>2, <1>4, <1>7, <1>8 DEF Promise!Opine

(* The adapter publishes a request, which was never open before.           *)
LEMMA Opens == IInv /\ HandleRequest => Promise!Open
<1> SUFFICES ASSUME IInv, HandleRequest PROVE Promise!Open
  OBVIOUS
<1> DEFINE r == Head(stdout).asks
<1>1. /\ Asked /\ stdout' = Tail(stdout)
      /\ shown' = Put(shown, r, now + Timeout)
      /\ DOMAIN pendingApprovals' = DOMAIN pendingApprovals \cup {r}
      /\ UNCHANGED <<now, requests, answers, decisions>>
  BY DEF HandleRequest, Put
<1>2. r \notin DOMAIN shown
  BY <1>1, ReadRequest
<1> HIDE DEF r
<1>3. /\ DOMAIN shown' = DOMAIN shown \cup {r}
      /\ \A x \in DOMAIN shown : shown'[x] = shown[x]
  BY <1>1, <1>2 DEF Put
<1>4. Settled' = Settled /\ Verdicts' = Verdicts /\ \A x : Digest(x)' = Digest(x)
  BY <1>1 DEF Settled, Verdicts, Digest
<1>5. DOMAIN Status' = DOMAIN Status \cup {r} /\ DOMAIN Subject' = DOMAIN Subject \cup {r}
  BY <1>3 DEF Status, Subject
<1>6. Status'[r] = "open" /\ r \notin DOMAIN Status
  BY <1>1, <1>2, <1>3, <1>4, OpenOrSettled DEF Status
<1>7. ASSUME NEW x \in DOMAIN Status
      PROVE  Status'[x] = Status[x] /\ Subject'[x] = Subject[x]
  BY <1>1, <1>2, <1>3, <1>4 DEF Status, Subject
<1>8. DOMAIN shown = DOMAIN Status /\ DOMAIN Subject = DOMAIN Status
  BY DEF Status, Subject
<1> QED
  BY <1>1, <1>3, <1>4, <1>5, <1>6, <1>7, <1>8 DEF Promise!Open, Promise!Extends

(* The adapter answers what is open, in time, by a decision on it.         *)
LEMMA Settles ==
  ASSUME IInv, HandleCommand, NEW c \in Command, Answer(c), child
  PROVE  \E a \in DOMAIN Status, o \in DOMAIN decisions : Promise!Settle(a, o)
<1> DEFINE r == c.approvalId
           d == c.decision
           a == [request |-> r, by |-> d, at |-> now]
           N == Len(answers)
<1>1. /\ decisions[d].expiresAt > now /\ r \in DOMAIN pendingApprovals
      /\ ~(pendingApprovals[r].expiresAt <= now)
      /\ pendingApprovals[r].digest = decisions[d].digest
      /\ DOMAIN pendingApprovals' = DOMAIN pendingApprovals \ {r}
      /\ answers' = Append(answers, a)
      /\ UNCHANGED <<now, requests, shown, decisions>>
  BY DEF Answer, Admissible, Expired, Matches, HandleCommand, Without
<1>2. d \in Nat /\ r \in Nat /\ d \in DOMAIN decisions /\ decisions[d].expiresAt \in Nat
  <2>1. d \in 1..Len(decisions) /\ r \in Request
    BY DEF Command
  <2>2. decisions \in Seq(Opinions)
    BY DEF IInv, TypeOK
  <2> HIDE DEF d, r
  <2>3. d \in DOMAIN decisions /\ decisions[d] \in Opinions
    BY <2>1, <2>2
  <2> QED
    BY <2>1, <2>3 DEF Request, Opinions
<1> HIDE DEF d, r
<1>3. /\ r \in DOMAIN shown /\ shown[r] \in Nat /\ now \in Nat /\ r \notin Settled
      /\ pendingApprovals[r].digest = Digest(r) /\ pendingApprovals[r].expiresAt = shown[r]
  <2>1. r \in DOMAIN shown /\ r \notin Settled
    BY <1>1, OpenOrSettled
  <2>2. shown[r] \in Nat /\ now \in Nat
    BY <2>1 DEF IInv, TypeOK
  <2>3. pendingApprovals[r].digest = Digest(r) /\ pendingApprovals[r].expiresAt = shown[r]
    BY <1>1 DEF IInv, EntryInv
  <2> QED
    BY <2>1, <2>2, <2>3
<1>4. a \in Answered /\ answers \in Seq(Answered)
  BY <1>2, <1>3 DEF Answered, IInv, TypeOK
<1>5. /\ answers' \in Seq(Answered) /\ N \in Nat /\ Len(answers)' = N + 1
      /\ answers'[N + 1] = a /\ a.request = r /\ a.by = d
      /\ \A i \in 1..N : answers'[i] = answers[i]
      /\ DOMAIN answers = 1..N /\ DOMAIN answers' = 1..N + 1
  <2>1. a.request = r /\ a.by = d
    OBVIOUS
  <2>2. answers' \in Seq(Answered)
    BY <1>1, <1>4, AppendProperties
  <2> HIDE DEF a
  <2> QED
    BY <1>1, <1>4, <2>1, <2>2, Indices
<1> HIDE DEF a
<1>6. \A i \in 1..N : answers[i].request \in Nat /\ answers[i].by \in Nat
  <2>1. \A i \in 1..N : answers[i] \in Answered
    BY <1>4, Indices DEF N
  <2> QED
    BY <2>1 DEF Answered
<1>7. /\ N \in Nat /\ \A i : i \in 1..N + 1 <=> i \in 1..N \/ i = N + 1
  BY <1>5
<1> HIDE DEF N
<1>8. Settled' = Settled \cup {r}
  BY <1>5 DEF Settled
<1>9. Status' = [Status EXCEPT ![r] = "settled"]
  <2>1. DOMAIN Status = DOMAIN shown /\ DOMAIN Status' = DOMAIN shown
    BY <1>1 DEF Status
  <2>2. ASSUME NEW x \in DOMAIN shown
        PROVE  Status'[x] = IF x = r THEN "settled" ELSE Status[x]
    BY <1>1, <1>8 DEF Status
  <2> QED
    BY <1>1, <1>3, <2>1, <2>2 DEF Status
<1>10. Subject' = Subject
  BY <1>1 DEF Subject, Digest
<1>11. Verdicts' = Append(Verdicts, <<r, d>>)
  <2> DEFINE T == Nat \X Nat
  <2>1. /\ Verdicts \in Seq(T) /\ Len(Verdicts) = N /\ DOMAIN Verdicts = 1..N
        /\ \A i \in 1..N : Verdicts[i] = <<answers[i].request, answers[i].by>>
    <3>1. \A i \in 1..N : <<answers[i].request, answers[i].by>> \in T
      BY <1>6
    <3>2. Verdicts = [i \in 1..N |-> <<answers[i].request, answers[i].by>>]
      BY <1>5 DEF Verdicts
    <3> QED
      BY <1>5, <3>1, <3>2
  <2>2. /\ Verdicts' \in Seq(T) /\ Len(Verdicts') = N + 1
        /\ \A i \in 1..N + 1 : Verdicts'[i] = <<answers'[i].request, answers'[i].by>>
    <3>1. \A i \in 1..N + 1 : <<answers'[i].request, answers'[i].by>> \in T
      BY <1>2, <1>5, <1>6, <1>7
    <3>2. Verdicts' = [i \in 1..N + 1 |-> <<answers'[i].request, answers'[i].by>>]
      BY <1>5 DEF Verdicts
    <3> QED
      BY <1>5, <3>1, <3>2
  <2>3. <<r, d>> \in T
    BY <1>2
  <2> HIDE DEF T
  <2>4. /\ Append(Verdicts, <<r, d>>) \in Seq(T) /\ Len(Append(Verdicts, <<r, d>>)) = N + 1
        /\ Append(Verdicts, <<r, d>>)[N + 1] = <<r, d>>
        /\ \A i \in 1..N : Append(Verdicts, <<r, d>>)[i] = Verdicts[i]
    BY <2>1, <2>3, AppendProperties
  <2>5. ASSUME NEW i \in 1..N + 1 PROVE Verdicts'[i] = Append(Verdicts, <<r, d>>)[i]
    <3>1. CASE i = N + 1
      <4>1. answers'[i].request = r /\ answers'[i].by = d
        BY <1>5, <3>1
      <4>2. Verdicts'[i] = <<answers'[i].request, answers'[i].by>>
        BY <2>2
      <4> QED
        BY <2>4, <3>1, <4>1, <4>2
    <3>2. CASE i \in 1..N
      <4>1. answers'[i] = answers[i]
        BY <1>5, <3>2
      <4>2. Verdicts'[i] = <<answers'[i].request, answers'[i].by>>
        BY <2>2
      <4>3. /\ Verdicts[i] = <<answers[i].request, answers[i].by>>
            /\ Append(Verdicts, <<r, d>>)[i] = Verdicts[i]
        BY <2>1, <2>4, <3>2
      <4> QED
        BY <4>1, <4>2, <4>3
    <3> QED
      BY <1>7, <3>1, <3>2
  <2> QED
    BY <2>2, <2>4, <2>5, SeqEqual
<1>12. Promise!Settle(r, d)
  <2>1. Status[r] = "open" /\ Subject[r] = Digest(r)
    BY <1>1, <1>3, Mapping
  <2>2. now < shown[r] /\ now < decisions[d].expiresAt
    BY <1>1, <1>2, <1>3
  <2> QED
    BY <1>1, <1>3, <1>9, <1>10, <1>11, <2>1, <2>2 DEF Promise!Settle
<1>13. r \in DOMAIN Status
  BY <1>3, Mapping
<1> QED
  BY <1>2, <1>12, <1>13

(* Every step of the adapter and its environment.                          *)
LEMMA Steps == IInv /\ [Next]_vars => [Promise!Next]_(Promise!vars)
<1> SUFFICES ASSUME IInv, [Next]_vars PROVE Promise!Next
  OBVIOUS
<1>1. CASE Tick
  BY <1>1, Passes DEF Promise!Next
<1>2. CASE Decide
  BY <1>2, Opines DEF Promise!Next
<1>3. CASE HandleRequest
  BY <1>3, Opens DEF Promise!Next
<1>4. CASE Ask
  <2>1. Kept
    <3>1. requests \in Seq(Questions) /\ DOMAIN shown \subseteq 1..Len(requests)
      BY OpenOrSettled DEF IInv, TypeOK, Request
    <3>2. PICK q : requests' = Append(requests, q)
      BY <1>4 DEF Ask
    <3> QED
      BY <3>1, <3>2, Indices DEF Kept
  <2> QED
    BY <1>4, <2>1, Lapses DEF Ask, adapter, Promise!Next
<1>5. CASE EndTurn \/ TakeResponse \/ ChildExit \/ RejectRequest \/ HandleTurnCompleted
           \/ UNCHANGED vars
  <2>1. UNCHANGED <<now, requests, pendingApprovals, shown, answers, decisions>>
    BY <1>5 DEF EndTurn, TakeResponse, ChildExit, RejectRequest, HandleTurnCompleted, vars,
       adapter
  <2> QED
    BY <2>1, Lapses DEF Kept, Promise!Next
<1>6. CASE Restart \/ RejectRequestThrows
  <2>1. /\ UNCHANGED <<now, requests, shown, answers, decisions>>
        /\ DOMAIN pendingApprovals' = {}
    BY <1>6 DEF Restart, RejectRequestThrows, NewProcess, Nothing
  <2> QED
    BY <2>1, Lapses DEF Kept, Promise!Next
<1>7. CASE HandleCommand
  <2>1. UNCHANGED <<now, requests, shown, decisions>>
    BY <1>7 DEF HandleCommand
  <2>2. CASE Refuse
    BY <2>1, <2>2, Lapses DEF Refuse, Kept, Promise!Next
  <2>3. ASSUME NEW c \in Command, Expire(c) \/ (Answer(c) /\ ~child)
        PROVE  Promise!Next
    <3>1. answers' = answers /\ pendingApprovals' = Without(pendingApprovals, c.approvalId)
      BY <2>3 DEF Expire, Answer
    <3>2. DOMAIN pendingApprovals' \subseteq DOMAIN pendingApprovals
      BY <3>1 DEF Without
    <3> QED
      BY <2>1, <3>1, <3>2, Lapses DEF Kept, Promise!Next
  <2>4. ASSUME NEW c \in Command, Answer(c), child
        PROVE  Promise!Next
    BY <1>7, <2>4, Settles DEF Promise!Next
  <2> QED
    BY <1>7, <2>2, <2>3, <2>4 DEF HandleCommand
<1> QED
  BY <1>1, <1>2, <1>3, <1>4, <1>5, <1>6, <1>7 DEF Next

(* The adapter keeps the promise: whatever is answered was open, in time,  *)
(* and is answered by a decision on its digest; what a deadline, a restart *)
(* or the end of App Server took from pendingApprovals stays unanswered.   *)
THEOREM AdapterKeepsPromise == Spec => ImplementsOneShotApproval
<1>1. Init => Promise!Init
  <2> SUFFICES ASSUME Init PROVE Promise!Init
    OBVIOUS
  <2>1. now = 0 /\ DOMAIN shown = {} /\ decisions = <<>> /\ answers = <<>>
    BY DEF Init, Nothing
  <2>2. DOMAIN Status = {} /\ DOMAIN Subject = {}
    BY <2>1, Mapping
  <2>3. Verdicts = <<>>
    BY <2>1 DEF Verdicts
  <2> QED
    BY <2>1, <2>2, <2>3 DEF Promise!Init
<1> QED
  BY <1>1, Steps, InductiveInvariant, PTL DEF Spec, ImplementsOneShotApproval, Promise!Spec
=============================================================================
