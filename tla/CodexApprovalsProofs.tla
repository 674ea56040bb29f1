------------------------ MODULE CodexApprovalsProofs ------------------------
(***************************************************************************)
(* Proofs about CodexApprovals: its types, that every answer is a decision *)
(* made on that very request and given once, and that what App Server does *)
(* follows the answers.                                                    *)
(***************************************************************************)
EXTENDS CodexApprovals, SequenceTheorems, TLAPS

(* The inductive invariant.  An entry of pendingApprovals describes a      *)
(* request of this run that was never answered; a request still to be read *)
(* was never shown and is read once; and a response on its way carries, in *)
(* the ids of this run, an answer or an error.                             *)

EntryInv ==
  \A r \in DOMAIN pendingApprovals :
    /\ earlier < r
    /\ pendingApprovals[r].digest = Digest(r)
    /\ pendingApprovals[r].requestId = requests[r].id
    /\ pendingApprovals[r].kind = requests[r].kind
    /\ pendingApprovals[r].sessionId = requests[r].session
    /\ pendingApprovals[r].expiresAt = shown[r]
    /\ \A i \in 1..Len(answers) : answers[i].request # r

IdInv ==
  /\ earlier <= Len(requests)
  /\ \A r \in Request : earlier < r => requests[r].id = r - earlier
  /\ \A r \in waiting : earlier < r

Unread(i) == stdout[i].asks # 0

StdoutInv ==
  /\ \A i \in 1..Len(stdout) : Unread(i) =>
       /\ stdout[i].asks \in Request
       /\ earlier < stdout[i].asks
       /\ stdout[i].asks \notin DOMAIN shown
  /\ \A i, j \in 1..Len(stdout) :
       i # j /\ Unread(i) /\ Unread(j) => stdout[i].asks # stdout[j].asks

(* Response v to request r is an error it deserves, or an answer.          *)
Justified(r, v) ==
  \/ requests[r].kind = "unsupported" /\ v = "error"
  \/ \E i \in 1..Len(answers) :
       /\ answers[i].request = r
       /\ v = Response(requests[r].kind, decisions[answers[i].by].decision)

StdinInv ==
  \A i \in 1..Len(stdin) :
    /\ earlier + stdin[i].id \in Request
    /\ Justified(earlier + stdin[i].id, stdin[i].response)

EffectInv == \A r \in DOMAIN effects : Justified(r, effects[r])

AnswerInv ==
  /\ \A i \in 1..Len(answers) :
       /\ answers[i].by \in 1..Len(decisions)
       /\ answers[i].request \in Request
  /\ AnswersAreDecisions

IInv ==
  /\ TypeOK /\ EntryInv /\ IdInv /\ StdoutInv /\ StdinInv /\ EffectInv
  /\ AnswerInv /\ OkMeansAnswered

-----------------------------------------------------------------------------
(* Lemmas.                                                                 *)

(* Sequences by their indices.                                             *)
LEMMA Indices ==
  ASSUME NEW S, NEW s \in Seq(S)
  PROVE  /\ Len(s) \in Nat /\ DOMAIN s = 1..Len(s)
         /\ \A i \in 1..Len(s) : s[i] \in S
         /\ \A x : /\ Len(Append(s, x)) = Len(s) + 1
                   /\ Append(s, x)[Len(s) + 1] = x
                   /\ \A i \in 1..Len(s) : Append(s, x)[i] = s[i]
         /\ s # <<>> => /\ Head(s) = s[1] /\ 1 \in 1..Len(s)
                        /\ Tail(s) \in Seq(S) /\ Len(Tail(s)) = Len(s) - 1
                        /\ \A i \in 1..Len(s) - 1 : i + 1 \in 1..Len(s) /\ Tail(s)[i] = s[i + 1]
<1>1. Len(s) \in Nat /\ DOMAIN s = 1..Len(s) /\ \A i \in 1..Len(s) : s[i] \in S
  OBVIOUS
<1>2. ASSUME NEW x
      PROVE  /\ Len(Append(s, x)) = Len(s) + 1
             /\ Append(s, x)[Len(s) + 1] = x
             /\ \A i \in 1..Len(s) : Append(s, x)[i] = s[i]
  OBVIOUS
<1>3. ASSUME s # <<>>
      PROVE  /\ Head(s) = s[1] /\ 1 \in 1..Len(s)
             /\ Tail(s) \in Seq(S) /\ Len(Tail(s)) = Len(s) - 1
             /\ \A i \in 1..Len(s) - 1 : i + 1 \in 1..Len(s) /\ Tail(s)[i] = s[i + 1]
  BY <1>3, HeadTailProperties
<1> QED
  BY <1>1, <1>2, <1>3

(* A response stays justified while the histories grow.                    *)
LEMMA JustifiedStays ==
  ASSUME AnswerInv, answers \in Seq(Answered), decisions \in Seq(Opinions),
         NEW r, NEW v, Justified(r, v),
         requests'[r] = requests[r],
         \A i \in 1..Len(answers) : i \in 1..Len(answers)' /\ answers'[i] = answers[i],
         \A i \in 1..Len(decisions) : decisions'[i] = decisions[i]
  PROVE  Justified(r, v)'
<1>1. CASE requests[r].kind = "unsupported" /\ v = "error"
  BY <1>1 DEF Justified
<1>2. CASE \E i \in 1..Len(answers) :
             /\ answers[i].request = r
             /\ v = Response(requests[r].kind, decisions[answers[i].by].decision)
  <2>1. PICK i \in 1..Len(answers) :
               /\ answers[i].request = r
               /\ v = Response(requests[r].kind, decisions[answers[i].by].decision)
    BY <1>2
  <2>2. i \in 1..Len(answers)' /\ answers'[i] = answers[i]
    OBVIOUS
  <2>3. decisions'[answers[i].by] = decisions[answers[i].by]
    BY DEF AnswerInv
  <2>4. answers'[i].request = r
    BY <2>1, <2>2
  <2>5. v = Response(requests'[r].kind, decisions'[answers'[i].by].decision)
    BY <2>1, <2>2, <2>3
  <2> QED
    BY <2>2, <2>4, <2>5 DEF Justified
<1> QED
  BY <1>1, <1>2 DEF Justified

(* The initial states satisfy the invariant.                               *)
LEMMA Initially == Init => IInv
<1> SUFFICES ASSUME Init PROVE IInv
  OBVIOUS
<1>1. /\ DOMAIN pendingApprovals = {} /\ DOMAIN shown = {} /\ DOMAIN effects = {}
      /\ pendingApprovals \in [{} -> Entries] /\ shown \in [{} -> Nat]
      /\ effects \in [{} -> Responses]
  BY DEF Init, Nothing
<1>2. /\ requests \in Seq(Questions) /\ stdout \in Seq(Lines) /\ stdin \in Seq(Replies)
      /\ decisions \in Seq(Opinions) /\ answers \in Seq(Answered)
      /\ Len(requests) = 0 /\ Len(stdout) = 0 /\ Len(stdin) = 0 /\ Len(answers) = 0
      /\ DOMAIN answers = {}
  BY DEF Init
<1>3. TypeOK
  BY <1>1, <1>2 DEF Init, TypeOK
<1>4. EntryInv /\ IdInv /\ StdoutInv /\ StdinInv /\ EffectInv
  BY <1>1, <1>2 DEF Init, EntryInv, IdInv, StdoutInv, StdinInv, EffectInv, Request
<1>5. AnswerInv
  BY <1>2 DEF AnswerInv, AnswersAreDecisions
<1>6. OkMeansAnswered
  BY <1>2 DEF Init, OkMeansAnswered
<1> QED
  BY <1>3, <1>4, <1>5, <1>6 DEF IInv

(* Steps that leave the histories, the entries and the responses alone.    *)
Still == UNCHANGED <<earlier, requests, pendingApprovals, shown, answers, results,
                     decisions, effects>>

(* They keep everything the invariant says of these.                       *)
LEMMA StillKeeps ==
  ASSUME IInv, Still
  PROVE  /\ EntryInv' /\ EffectInv' /\ AnswerInv' /\ OkMeansAnswered'
         /\ \A r, v : Justified(r, v) => Justified(r, v)'
         /\ (Request = Request)'  /\ Request' = Request
<1>1. EntryInv'
  BY DEF IInv, Still, EntryInv, Digest
<1>2. ASSUME NEW r, NEW v, Justified(r, v) PROVE Justified(r, v)'
  BY <1>2 DEF Still, Justified
<1>3. EffectInv'
  BY <1>2 DEF IInv, Still, EffectInv
<1>4. AnswerInv'
  BY DEF IInv, Still, AnswerInv, AnswersAreDecisions, Digest, Request
<1>5. OkMeansAnswered'
  BY DEF IInv, Still, OkMeansAnswered
<1> QED
  BY <1>1, <1>2, <1>3, <1>4, <1>5 DEF Still, Request

(* Time, the end of App Server, and steps that change nothing.             *)
LEMMA IdlePreserves == IInv /\ (Tick \/ ChildExit \/ UNCHANGED vars) => IInv'
<1> SUFFICES ASSUME IInv, Tick \/ ChildExit \/ UNCHANGED vars PROVE IInv'
  OBVIOUS
<1>1. Still /\ UNCHANGED <<runs, stdout, over>>
  BY DEF Tick, ChildExit, vars, process, pipes, adapter, Still
<1>2. /\ waiting' \subseteq waiting /\ (stdin' = stdin \/ stdin' = <<>>)
      /\ now' \in Nat /\ child' \in BOOLEAN
  <2>1. now \in Nat /\ child \in BOOLEAN
    BY DEF IInv, TypeOK
  <2>2. CASE Tick
    BY <2>1, <2>2 DEF Tick, process, pipes
  <2>3. CASE ChildExit
    BY <2>1, <2>3 DEF ChildExit
  <2>4. CASE UNCHANGED vars
    BY <2>1, <2>4 DEF vars, process, pipes
  <2> QED
    BY <2>2, <2>3, <2>4
<1>3. TypeOK'
  <2>1. stdin' \in Seq(Replies)
    <3>1. stdin \in Seq(Replies)
      BY DEF IInv, TypeOK
    <3>2. <<>> \in Seq(Replies)
      OBVIOUS
    <3> QED
      BY <1>2, <3>1, <3>2
  <2> QED
    BY <1>1, <1>2, <2>1 DEF IInv, TypeOK, Still, Request
<1>4. IdInv' /\ StdoutInv'
  BY <1>1, <1>2 DEF IInv, IdInv, StdoutInv, Still, Request, Unread
<1>5. StdinInv'
  <2>1. CASE stdin' = stdin
    BY <1>1, <2>1, StillKeeps DEF IInv, StdinInv, Still
  <2>2. CASE stdin' = <<>>
    BY <2>2 DEF StdinInv
  <2> QED
    BY <1>2, <2>1, <2>2
<1> QED
  BY <1>1, <1>3, <1>4, <1>5, StillKeeps DEF IInv

(* App Server ends a turn, and the adapter reads of it.                    *)
LEMMA TurnEndPreserves == IInv /\ (EndTurn \/ HandleTurnCompleted) => IInv'
<1> SUFFICES ASSUME IInv, EndTurn \/ HandleTurnCompleted PROVE IInv'
  OBVIOUS
<1>1. Still /\ UNCHANGED <<now, runs, child, stdin>>
  BY DEF EndTurn, HandleTurnCompleted, process, pipes, adapter, Still
<1>2. waiting' \subseteq waiting
  BY DEF EndTurn, HandleTurnCompleted
<1>3. stdout \in Seq(Lines)
  BY DEF IInv, TypeOK
<1>4. /\ stdout' \in Seq(Lines)
      /\ \E n \in Nat : \A i \in 1..Len(stdout)' : Unread(i)' =>
           i + n \in 1..Len(stdout) /\ stdout[i + n] = stdout'[i]
      /\ over' \subseteq Nat
  <2>1. CASE EndTurn
    <3>1. PICK gone \in SUBSET waiting : stdout' = Append(stdout, Ending(gone))
      BY <2>1 DEF EndTurn
    <3>2. Ending(gone) \in Lines /\ Ending(gone).asks = 0
      BY <3>1 DEF Ending, Lines, IInv, TypeOK, Request
    <3>3. stdout' \in Seq(Lines)
      BY <1>3, <3>1, <3>2, AppendProperties
    <3>4. ASSUME NEW i \in 1..Len(stdout)', stdout'[i].asks # 0
          PROVE  i + 0 \in 1..Len(stdout) /\ stdout[i + 0] = stdout'[i]
      BY <1>3, <3>1, <3>2, <3>4, Indices
    <3>5. over' \subseteq Nat
      BY <2>1 DEF EndTurn, adapter, IInv, TypeOK
    <3> QED
      BY <3>3, <3>4, <3>5 DEF Unread
  <2>2. CASE HandleTurnCompleted
    <3>1. stdout # <<>> /\ stdout' = Tail(stdout) /\ over' = over \cup Head(stdout).ends
      BY <2>2 DEF HandleTurnCompleted
    <3>2. stdout' \in Seq(Lines) /\ Len(stdout') = Len(stdout) - 1
          /\ Head(stdout) \in Lines
          /\ \A i \in 1..Len(stdout) - 1 : i + 1 \in 1..Len(stdout) /\ stdout'[i] = stdout[i + 1]
      BY <1>3, <3>1, Indices
    <3>3. over' \subseteq Nat
      BY <3>1, <3>2 DEF Lines, IInv, TypeOK
    <3> QED
      BY <3>2, <3>3
  <2> QED
    BY <2>1, <2>2
<1>5. TypeOK'
  BY <1>1, <1>2, <1>4 DEF IInv, TypeOK, Still, Request
<1>6. IdInv' /\ StdinInv'
  BY <1>1, <1>2, StillKeeps DEF IInv, IdInv, StdinInv, Still, Request
<1>7. StdoutInv'
  <2>1. Request' = Request /\ shown' = shown /\ earlier' = earlier
    BY <1>1, StillKeeps DEF Still
  <2>2. PICK n \in Nat : \A i \in 1..Len(stdout)' : Unread(i)' =>
               i + n \in 1..Len(stdout) /\ stdout[i + n] = stdout'[i]
    BY <1>4
  <2>3. Len(stdout)' \in Nat /\ \A i \in 1..Len(stdout)' : Unread(i)' => Unread(i + n)
    BY <1>4, <2>2 DEF Unread
  <2>4. ASSUME NEW i \in 1..Len(stdout)', Unread(i)'
        PROVE  /\ stdout'[i].asks \in Request
               /\ earlier < stdout'[i].asks
               /\ stdout'[i].asks \notin DOMAIN shown
    <3>1. i + n \in 1..Len(stdout) /\ stdout[i + n] = stdout'[i] /\ Unread(i + n)
      BY <2>2, <2>3, <2>4
    <3> QED
      BY <3>1 DEF IInv, StdoutInv
  <2>5. ASSUME NEW i \in 1..Len(stdout)', NEW j \in 1..Len(stdout)',
               i # j, Unread(i)', Unread(j)'
        PROVE  stdout'[i].asks # stdout'[j].asks
    <3>1. /\ i + n \in 1..Len(stdout) /\ stdout[i + n] = stdout'[i] /\ Unread(i + n)
          /\ j + n \in 1..Len(stdout) /\ stdout[j + n] = stdout'[j] /\ Unread(j + n)
      BY <2>2, <2>3, <2>5
    <3>2. i + n # j + n
      BY <2>3, <2>5
    <3> QED
      BY <3>1, <3>2 DEF IInv, StdoutInv
  <2> QED
    BY <2>1, <2>4, <2>5 DEF StdoutInv
<1> QED
  BY <1>1, <1>5, <1>6, <1>7, StillKeeps DEF IInv

(* App Server asks: the request is new, and so is its number.              *)
LEMMA AskPreserves == IInv /\ Ask => IInv'
<1> SUFFICES ASSUME IInv, Ask PROVE IInv'
  OBVIOUS
<1> DEFINE N == Len(requests)
<1>1. PICK q : /\ q \in Questions /\ q.id = N + 1 - earlier
               /\ requests' = Append(requests, q)
  <2>1. PICK s \in Sessions, m \in Materials, k \in Kinds :
          requests' = Append(requests, [id |-> N + 1 - earlier,
                                        session |-> s, material |-> m, kind |-> k])
    BY DEF Ask
  <2>2. N + 1 - earlier \in Nat
    BY DEF IInv, TypeOK, IdInv
  <2> QED
    BY <2>1, <2>2 DEF Questions
<1>2. /\ stdout' = Append(stdout, Question(N + 1))
      /\ waiting' = waiting \cup {N + 1}
      /\ UNCHANGED <<now, runs, earlier, child, stdin, pendingApprovals, over, shown,
                     answers, results, decisions, effects>>
  BY DEF Ask, process, adapter
<1>3. /\ N \in Nat /\ Len(requests)' = N + 1 /\ requests' \in Seq(Questions)
      /\ requests'[N + 1] = q
      /\ \A r \in Request : r \in Request' /\ requests'[r] = requests[r]
      /\ \A r \in Request' : r \in Request \/ r = N + 1
      /\ N + 1 \notin Request /\ N + 1 \in Request'
  <2>1. requests \in Seq(Questions)
    BY DEF IInv, TypeOK
  <2>2. N \in Nat /\ Len(requests)' = N + 1 /\ requests'[N + 1] = q
        /\ \A r \in 1..N : requests'[r] = requests[r]
    BY <1>1, <2>1, Indices
  <2>3. requests' \in Seq(Questions)
    BY <1>1, <2>1, AppendProperties
  <2> QED
    BY <2>2, <2>3 DEF Request
<1>4. stdout \in Seq(Lines) /\ Question(N + 1) \in Lines /\ Question(N + 1).asks = N + 1
  BY <1>3 DEF IInv, TypeOK, Question, Lines
<1>5. /\ stdout' \in Seq(Lines) /\ Len(stdout) \in Nat /\ Len(stdout)' = Len(stdout) + 1
      /\ stdout'[Len(stdout) + 1].asks = N + 1
      /\ \A i \in 1..Len(stdout) : stdout'[i] = stdout[i]
  BY <1>2, <1>4, Indices, AppendProperties
<1>6. TypeOK'
  <2>1. TypeOK
    BY DEF IInv
  <2> HIDE DEF N
  <2> QED
    BY <1>2, <1>3, <1>5, <2>1 DEF TypeOK
<1>7. EntryInv'
  <2>1. DOMAIN pendingApprovals \subseteq Request
    BY DEF IInv, TypeOK
  <2>2. ASSUME NEW r \in DOMAIN pendingApprovals
        PROVE  requests'[r] = requests[r] /\ Digest(r)' = Digest(r)
    BY <1>3, <2>1 DEF Digest
  <2> QED
    BY <1>2, <2>2 DEF IInv, EntryInv
<1>8. IdInv'
  <2>1. earlier \in Nat /\ earlier <= N /\ \A r \in waiting : earlier < r
    BY DEF IInv, IdInv, TypeOK
  <2>2. earlier' <= Len(requests)' /\ \A r \in waiting' : earlier' < r
    BY <1>2, <1>3, <2>1
  <2>3. ASSUME NEW r \in Request', earlier' < r
        PROVE  requests'[r].id = r - earlier'
    <3>1. CASE r \in Request
      BY <1>2, <1>3, <2>3, <3>1 DEF IInv, IdInv
    <3>2. CASE r = N + 1
      <4>1. requests'[r] = q
        BY <1>3, <3>2
      <4>2. r - earlier = N + 1 - earlier
        <5> HIDE DEF N
        <5> QED
          BY <1>3, <2>1, <3>2
      <4> QED
        BY <1>1, <1>2, <4>1, <4>2
    <3> QED
      BY <1>3, <3>1, <3>2
  <2> QED
    BY <2>2, <2>3 DEF IdInv
<1>9. StdoutInv'
  <2>1. ASSUME NEW i \in 1..Len(stdout)', Unread(i)'
        PROVE  \/ i = Len(stdout) + 1 /\ stdout'[i].asks = N + 1
               \/ /\ i \in 1..Len(stdout) /\ stdout'[i].asks = stdout[i].asks
                  /\ stdout[i].asks \in Request /\ earlier < stdout[i].asks
                  /\ stdout[i].asks \notin DOMAIN shown
                  /\ Unread(i)
    <3>1. i = Len(stdout) + 1 \/ i \in 1..Len(stdout)
      BY <1>5
    <3>2. CASE i \in 1..Len(stdout)
      <4>1. Unread(i)
        BY <1>5, <2>1, <3>2 DEF Unread
      <4> QED
        BY <1>5, <3>2, <4>1 DEF IInv, StdoutInv
    <3> QED
      BY <1>5, <3>1, <3>2
  <2>2. earlier < N + 1 /\ N + 1 \notin DOMAIN shown
    BY <1>3 DEF IInv, IdInv, TypeOK
  <2>3. ASSUME NEW i \in 1..Len(stdout)', Unread(i)'
        PROVE  /\ stdout'[i].asks \in Request'
               /\ earlier' < stdout'[i].asks
               /\ stdout'[i].asks \notin DOMAIN shown'
    BY <1>2, <1>3, <2>1, <2>2, <2>3
  <2>4. ASSUME NEW i \in 1..Len(stdout)', NEW j \in 1..Len(stdout)',
               i # j, Unread(i)', Unread(j)'
        PROVE  stdout'[i].asks # stdout'[j].asks
    <3>1. CASE i = Len(stdout) + 1 \/ j = Len(stdout) + 1
      BY <1>3, <2>1, <2>4, <3>1
    <3>2. CASE i \in 1..Len(stdout) /\ j \in 1..Len(stdout)
      BY <1>5, <2>1, <2>4, <3>2 DEF IInv, StdoutInv
    <3> QED
      BY <1>5, <3>1, <3>2
  <2> QED
    BY <2>3, <2>4 DEF StdoutInv
<1>10. ASSUME NEW r \in Request, NEW v, Justified(r, v) PROVE Justified(r, v)'
  BY <1>2, <1>3, <1>10 DEF Justified
<1>11. StdinInv' /\ EffectInv'
  BY <1>2, <1>3, <1>10 DEF IInv, StdinInv, EffectInv, TypeOK
<1>12. AnswerInv'
  <2>1. DOMAIN answers = 1..Len(answers)
    BY DEF IInv, TypeOK
  <2>2. \A r \in Request : Digest(r)' = Digest(r)
    BY <1>3 DEF Digest
  <2> QED
    BY <1>2, <1>3, <2>1, <2>2 DEF IInv, AnswerInv, AnswersAreDecisions
<1>13. OkMeansAnswered'
  <2>1. \A i \in DOMAIN answers : requests'[answers[i].request] = requests[answers[i].request]
    <3>1. DOMAIN answers = 1..Len(answers)
      BY DEF IInv, TypeOK
    <3> QED
      BY <1>3, <3>1 DEF IInv, AnswerInv
  <2> QED
    BY <1>2, <2>1 DEF IInv, OkMeansAnswered
<1> QED
  BY <1>6, <1>7, <1>8, <1>9, <1>11, <1>12, <1>13 DEF IInv

(* App Server takes a response: it was meant for the request it finds.     *)
LEMMA TakeResponsePreserves == IInv /\ TakeResponse => IInv'
<1> SUFFICES ASSUME IInv, TakeResponse PROVE IInv'
  OBVIOUS
<1> DEFINE r == earlier + Head(stdin).id
           v == Head(stdin).response
<1>1. /\ stdin # <<>> /\ stdin' = Tail(stdin)
      /\ waiting' \subseteq waiting
      /\ effects' = effects \/ effects' = Put(effects, r, v)
      /\ UNCHANGED <<now, runs, earlier, child, requests, stdout, pendingApprovals, over,
                     shown, answers, results, decisions>>
  BY DEF TakeResponse, process, adapter
<1>2. /\ stdin' \in Seq(Replies) /\ Len(stdin)' = Len(stdin) - 1
      /\ v \in Responses /\ 1 \in 1..Len(stdin) /\ stdin[1] = Head(stdin)
      /\ \A i \in 1..Len(stdin) - 1 : i + 1 \in 1..Len(stdin) /\ stdin'[i] = stdin[i + 1]
  <2>1. stdin \in Seq(Replies)
    BY DEF IInv, TypeOK
  <2>2. stdin[1] \in Replies
    BY <1>1, <2>1, Indices
  <2> QED
    BY <1>1, <2>1, <2>2, Indices DEF Replies
<1>3. Request' = Request
  BY <1>1 DEF Request
<1>4. r \in Request /\ Justified(r, v)
  BY <1>2 DEF IInv, StdinInv
<1>5. /\ effects' \in [DOMAIN effects' -> Responses] /\ DOMAIN effects' \subseteq Request
      /\ \A x \in DOMAIN effects' : \/ x = r /\ effects'[x] = v
                                    \/ x \in DOMAIN effects /\ effects'[x] = effects[x]
  <2>1. effects \in [DOMAIN effects -> Responses] /\ DOMAIN effects \subseteq Request
    BY DEF IInv, TypeOK
  <2>2. CASE effects' = effects
    BY <2>1, <2>2
  <2>3. CASE effects' = Put(effects, r, v)
    <3> HIDE DEF r, v
    <3> QED
      BY <1>2, <1>4, <2>1, <2>3 DEF Put
  <2> QED
    BY <1>1, <2>2, <2>3
<1>6. TypeOK'
  BY <1>1, <1>2, <1>3, <1>5 DEF IInv, TypeOK
<1>7. \A x, y : Justified(x, y) => Justified(x, y)'
  BY <1>1 DEF Justified
<1>8. EntryInv' /\ IdInv' /\ StdoutInv'
  BY <1>1, <1>3 DEF IInv, EntryInv, IdInv, StdoutInv, Digest, Unread
<1>9. StdinInv'
  BY <1>1, <1>2, <1>3, <1>7 DEF IInv, StdinInv
<1>10. EffectInv'
  BY <1>4, <1>5, <1>7 DEF IInv, EffectInv
<1>11. AnswerInv' /\ OkMeansAnswered'
  BY <1>1, <1>3 DEF IInv, AnswerInv, AnswersAreDecisions, OkMeansAnswered, Digest
<1> QED
  BY <1>6, <1>8, <1>9, <1>10, <1>11 DEF IInv

(* A client decides.                                                       *)
LEMMA DecidePreserves == IInv /\ Decide => IInv'
<1> SUFFICES ASSUME IInv, Decide PROVE IInv'
  OBVIOUS
<1>1. PICK a \in DOMAIN shown, d \in Decisions :
        decisions' = Append(decisions,
          [digest |-> Digest(a), decision |-> d, expiresAt |-> now + CommandTtl])
  BY DEF Decide
<1>2. UNCHANGED <<now, runs, earlier, child, requests, waiting, stdout, stdin,
                  pendingApprovals, over, shown, answers, results, effects>>
  BY DEF Decide, process, pipes, adapter
<1>3. [digest |-> Digest(a), decision |-> d, expiresAt |-> now + CommandTtl] \in Opinions
  <2>1. requests[a] \in Questions /\ a \in Nat
    BY DEF IInv, TypeOK, Request
  <2>2. Digest(a) \in Digests
    BY <2>1 DEF Digest, Digests, Questions
  <2>3. now + CommandTtl \in Nat
    BY LifeAssumption DEF IInv, TypeOK
  <2> QED
    BY <2>2, <2>3 DEF Opinions
<1>4. /\ decisions' \in Seq(Opinions) /\ Len(decisions) \in Nat
      /\ Len(decisions)' = Len(decisions) + 1
      /\ \A i \in 1..Len(decisions) : i \in 1..Len(decisions)' /\ decisions'[i] = decisions[i]
  <2>1. decisions \in Seq(Opinions)
    BY DEF IInv, TypeOK
  <2>2. decisions' \in Seq(Opinions)
    BY <1>1, <1>3, <2>1, AppendProperties
  <2> QED
    BY <1>1, <2>1, <2>2, Indices
<1>5. Request' = Request
  BY <1>2 DEF Request
<1>6. TypeOK'
  BY <1>2, <1>4, <1>5 DEF IInv, TypeOK
<1>7. EntryInv' /\ IdInv' /\ StdoutInv' /\ OkMeansAnswered'
  BY <1>2, <1>5 DEF IInv, EntryInv, IdInv, StdoutInv, OkMeansAnswered, Digest, Unread
<1>8. ASSUME NEW x, NEW y, Justified(x, y) PROVE Justified(x, y)'
  BY <1>2, <1>4, <1>8, JustifiedStays DEF IInv, TypeOK
<1>9. StdinInv' /\ EffectInv'
  BY <1>2, <1>5, <1>8 DEF IInv, StdinInv, EffectInv
<1>10. AnswerInv'
  <2>1. DOMAIN answers = 1..Len(answers)
    BY DEF IInv, TypeOK
  <2>2. \A x : Digest(x)' = Digest(x)
    BY <1>2 DEF Digest
  <2> QED
    BY <1>2, <1>4, <1>5, <2>1, <2>2 DEF IInv, AnswerInv, AnswersAreDecisions
<1> QED
  BY <1>6, <1>7, <1>9, <1>10 DEF IInv

(* A new process: nothing is pending, and all requests are of earlier runs. *)
LEMMA RestartPreserves == IInv /\ (Restart \/ RejectRequestThrows) => IInv'
<1> SUFFICES ASSUME IInv, Restart \/ RejectRequestThrows PROVE IInv'
  OBVIOUS
<1>1. /\ runs' = runs + 1 /\ earlier' = Len(requests) /\ child' = TRUE
      /\ waiting' = {} /\ stdout' = <<>> /\ stdin' = <<>> /\ pendingApprovals' = Nothing
      /\ UNCHANGED <<now, requests, over, shown, answers, results, decisions, effects>>
  BY DEF Restart, RejectRequestThrows, NewProcess
<1>2. /\ DOMAIN pendingApprovals' = {} /\ pendingApprovals' \in [{} -> Entries]
      /\ <<>> \in Seq(Lines) /\ <<>> \in Seq(Replies)
      /\ Len(stdout') = 0 /\ Len(stdin') = 0 /\ Len(requests) \in Nat
      /\ Request' = Request
  BY <1>1 DEF Nothing, IInv, TypeOK, Request
<1>3. TypeOK'
  BY <1>1, <1>2 DEF IInv, TypeOK
<1>4. EntryInv' /\ IdInv' /\ StdoutInv' /\ StdinInv'
  BY <1>1, <1>2 DEF EntryInv, IdInv, StdoutInv, StdinInv, Request
<1>5. EffectInv' /\ OkMeansAnswered'
  BY <1>1 DEF IInv, EffectInv, OkMeansAnswered, Justified
<1>6. AnswerInv'
  BY <1>1, <1>2 DEF IInv, AnswerInv, AnswersAreDecisions, Digest
<1> QED
  BY <1>3, <1>4, <1>5, <1>6 DEF IInv

(* Reading a request takes it off the output, and no other request.        *)
LEMMA ReadRequest ==
  ASSUME IInv, Asked, stdout' = Tail(stdout)
  PROVE  LET r == Head(stdout).asks
         IN  /\ r \in Request /\ earlier < r /\ r \notin DOMAIN shown
             /\ stdout' \in Seq(Lines)
             /\ \A i \in 1..Len(stdout)' :
                  /\ i + 1 \in 1..Len(stdout) /\ stdout'[i] = stdout[i + 1]
                  /\ stdout[i + 1].asks # 0 => stdout[i + 1].asks # r
             /\ StdoutInv => \A i, j \in 1..Len(stdout)' :
                  i # j /\ Unread(i)' /\ Unread(j)' => stdout'[i].asks # stdout'[j].asks
<1>1. stdout \in Seq(Lines) /\ stdout # <<>> /\ Head(stdout).asks # 0
  BY DEF IInv, TypeOK, Asked
<1>2. /\ Head(stdout) = stdout[1] /\ 1 \in 1..Len(stdout) /\ Unread(1)
      /\ stdout' \in Seq(Lines) /\ Len(stdout)' = Len(stdout) - 1 /\ Len(stdout) \in Nat
      /\ \A i \in 1..Len(stdout) - 1 : i + 1 \in 1..Len(stdout) /\ stdout'[i] = stdout[i + 1]
  BY <1>1, Indices DEF Unread
<1>3. ASSUME NEW i \in 1..Len(stdout)'
      PROVE  /\ i + 1 \in 1..Len(stdout) /\ stdout'[i] = stdout[i + 1] /\ i + 1 # 1
  BY <1>2
<1>4. ASSUME NEW i \in 1..Len(stdout)', stdout[i + 1].asks # 0
      PROVE  stdout[i + 1].asks # Head(stdout).asks
  BY <1>2, <1>3, <1>4 DEF IInv, StdoutInv, Unread
<1>5. ASSUME NEW i \in 1..Len(stdout)', NEW j \in 1..Len(stdout)',
             i # j, Unread(i)', Unread(j)'
      PROVE  stdout'[i].asks # stdout'[j].asks
  <2>1. i + 1 # j + 1
    BY <1>2, <1>5
  <2> QED
    BY <1>3, <1>5, <2>1 DEF IInv, StdoutInv, Unread
<1> QED
  BY <1>2, <1>3, <1>4, <1>5 DEF IInv, StdoutInv

(* The adapter keeps and publishes a request it never published before.    *)
LEMMA HandleRequestPreserves == IInv /\ HandleRequest => IInv'
<1> SUFFICES ASSUME IInv, HandleRequest PROVE IInv'
  OBVIOUS
<1> DEFINE r == Head(stdout).asks
           e == [digest |-> Digest(r), expiresAt |-> now + Timeout,
                 requestId |-> requests[r].id, kind |-> requests[r].kind,
                 sessionId |-> requests[r].session]
<1>1. /\ Asked /\ stdout' = Tail(stdout)
      /\ pendingApprovals' = Put(pendingApprovals, r, e)
      /\ shown' = Put(shown, r, now + Timeout)
      /\ UNCHANGED <<now, runs, earlier, child, requests, waiting, stdin, over, answers,
                     results, decisions, effects>>
  BY DEF HandleRequest, process
<1>2. /\ r \in Request /\ earlier < r /\ r \notin DOMAIN shown
      /\ stdout' \in Seq(Lines)
      /\ \A i \in 1..Len(stdout)' :
           /\ i + 1 \in 1..Len(stdout) /\ stdout'[i] = stdout[i + 1]
           /\ stdout[i + 1].asks # 0 => stdout[i + 1].asks # r
      /\ \A i, j \in 1..Len(stdout)' :
           i # j /\ Unread(i)' /\ Unread(j)' => stdout'[i].asks # stdout'[j].asks
  BY <1>1, ReadRequest DEF IInv
<1>3. e \in Entries /\ now + Timeout \in Nat
  <2>1. requests[r] \in Questions /\ r \in Nat
    BY <1>2 DEF IInv, TypeOK, Request
  <2>2. now + Timeout \in Nat
    BY LifeAssumption DEF IInv, TypeOK
  <2>3. Digest(r) \in Digests
    BY <2>1 DEF Digest, Digests, Questions
  <2> HIDE DEF r
  <2> QED
    BY <2>1, <2>2, <2>3 DEF Questions, Entries
<1> HIDE DEF e
<1>4. /\ DOMAIN pendingApprovals' = DOMAIN pendingApprovals \cup {r}
      /\ pendingApprovals'[r] = e
      /\ \A x \in DOMAIN pendingApprovals \ {r} : pendingApprovals'[x] = pendingApprovals[x]
      /\ pendingApprovals' \in [DOMAIN pendingApprovals' -> Entries]
  <2>1. pendingApprovals \in [DOMAIN pendingApprovals -> Entries]
    BY DEF IInv, TypeOK
  <2> HIDE DEF r
  <2> QED
    BY <1>1, <1>3, <2>1 DEF Put
<1>5. /\ DOMAIN shown' = DOMAIN shown \cup {r}
      /\ shown'[r] = now + Timeout
      /\ \A x \in DOMAIN shown : shown'[x] = shown[x]
      /\ shown' \in [DOMAIN shown' -> Nat]
  <2>1. shown \in [DOMAIN shown -> Nat]
    BY DEF IInv, TypeOK
  <2>2. shown' = Put(shown, r, now + Timeout) /\ r \notin DOMAIN shown
    BY <1>1, <1>2
  <2> HIDE DEF r
  <2> QED
    BY <1>3, <2>1, <2>2 DEF Put
<1>6. Request' = Request /\ \A x : Digest(x)' = Digest(x)
  BY <1>1 DEF Request, Digest
<1>7. TypeOK'
  <2> HIDE DEF r
  <2> QED
    BY <1>1, <1>2, <1>4, <1>5, <1>6 DEF IInv, TypeOK
<1>8. EntryInv'
  <2> SUFFICES ASSUME NEW x \in DOMAIN pendingApprovals'
               PROVE  /\ earlier' < x
                      /\ pendingApprovals'[x].digest = Digest(x)'
                      /\ pendingApprovals'[x].requestId = requests'[x].id
                      /\ pendingApprovals'[x].kind = requests'[x].kind
                      /\ pendingApprovals'[x].sessionId = requests'[x].session
                      /\ pendingApprovals'[x].expiresAt = shown'[x]
                      /\ \A i \in 1..Len(answers)' : answers'[i].request # x
    BY DEF EntryInv
  <2>1. CASE x \in DOMAIN pendingApprovals
    <3>1. x \in DOMAIN shown
      BY <2>1 DEF IInv, TypeOK
    <3>2. x # r
      BY <1>2, <3>1
    <3> QED
      BY <1>1, <1>4, <1>5, <1>6, <2>1, <3>1, <3>2 DEF IInv, EntryInv
  <2>2. CASE x = r
    <3>1. \A i \in 1..Len(answers) : answers[i].request # r
      <4>1. DOMAIN answers = 1..Len(answers)
        BY DEF IInv, TypeOK
      <4> QED
        BY <1>2, <4>1 DEF IInv, AnswerInv, AnswersAreDecisions
    <3> HIDE DEF r
    <3> QED
      BY <1>1, <1>2, <1>4, <1>5, <1>6, <2>2, <3>1 DEF e
  <2> QED
    BY <1>4, <2>1, <2>2
<1>9. IdInv'
  BY <1>1, <1>6 DEF IInv, IdInv
<1>10. StdoutInv'
  <2>1. ASSUME NEW i \in 1..Len(stdout)', Unread(i)'
        PROVE  /\ stdout'[i].asks \in Request'
               /\ earlier' < stdout'[i].asks
               /\ stdout'[i].asks \notin DOMAIN shown'
    <3>1. /\ i + 1 \in 1..Len(stdout) /\ stdout'[i] = stdout[i + 1] /\ Unread(i + 1)
          /\ stdout[i + 1].asks # r
      BY <1>2, <2>1 DEF Unread
    <3> QED
      BY <1>1, <1>5, <1>6, <3>1 DEF IInv, StdoutInv
  <2> QED
    BY <1>2, <2>1 DEF StdoutInv
<1>11. StdinInv' /\ EffectInv' /\ OkMeansAnswered'
  BY <1>1, <1>6 DEF IInv, StdinInv, EffectInv, OkMeansAnswered, Justified
<1>12. AnswerInv'
  BY <1>1, <1>5, <1>6 DEF IInv, AnswerInv, AnswersAreDecisions
<1> QED
  BY <1>7, <1>8, <1>9, <1>10, <1>11, <1>12 DEF IInv

(* The adapter answers a request it does not support with an error.        *)
LEMMA RejectRequestPreserves == IInv /\ RejectRequest => IInv'
<1> SUFFICES ASSUME IInv, RejectRequest PROVE IInv'
  OBVIOUS
<1> DEFINE r == Head(stdout).asks
           e == [id |-> requests[r].id, response |-> "error"]
<1>1. /\ Asked /\ stdout' = Tail(stdout) /\ requests[r].kind = "unsupported"
      /\ stdin' = Append(stdin, e)
      /\ Still /\ UNCHANGED <<now, runs, child, waiting, over>>
  BY DEF RejectRequest, process, adapter, Still
<1>2. /\ r \in Request /\ earlier < r /\ stdout' \in Seq(Lines)
      /\ \A i \in 1..Len(stdout)' :
           i + 1 \in 1..Len(stdout) /\ stdout'[i] = stdout[i + 1]
      /\ \A i, j \in 1..Len(stdout)' :
           i # j /\ Unread(i)' /\ Unread(j)' => stdout'[i].asks # stdout'[j].asks
  BY <1>1, ReadRequest DEF IInv
<1>3. e \in Replies /\ earlier + e.id = r
  <2>1. requests[r] \in Questions /\ r \in Nat /\ earlier \in Nat
    BY <1>2 DEF IInv, TypeOK, Request
  <2>2. requests[r].id = r - earlier
    BY <1>2 DEF IInv, IdInv
  <2> QED
    BY <1>2, <2>1, <2>2 DEF Replies, Responses, Questions
<1>4. /\ stdin' \in Seq(Replies) /\ Len(stdin) \in Nat /\ Len(stdin)' = Len(stdin) + 1
      /\ stdin'[Len(stdin) + 1] = e /\ \A i \in 1..Len(stdin) : stdin'[i] = stdin[i]
  <2>1. stdin \in Seq(Replies)
    BY DEF IInv, TypeOK
  <2>2. stdin' \in Seq(Replies)
    BY <1>1, <1>3, <2>1, AppendProperties
  <2> HIDE DEF e
  <2> QED
    BY <1>1, <2>1, <2>2, Indices
<1>5. /\ EntryInv' /\ EffectInv' /\ AnswerInv' /\ OkMeansAnswered'
      /\ \A x, y : Justified(x, y) => Justified(x, y)'
      /\ Request' = Request
  BY <1>1, StillKeeps
<1>6. TypeOK'
  BY <1>1, <1>2, <1>4, <1>5 DEF IInv, TypeOK, Still
<1>7. IdInv'
  BY <1>1, <1>5 DEF IInv, IdInv, Still
<1>8. StdoutInv'
  <2>1. ASSUME NEW i \in 1..Len(stdout)', Unread(i)'
        PROVE  /\ stdout'[i].asks \in Request'
               /\ earlier' < stdout'[i].asks
               /\ stdout'[i].asks \notin DOMAIN shown'
    <3>1. i + 1 \in 1..Len(stdout) /\ stdout'[i] = stdout[i + 1] /\ Unread(i + 1)
      BY <1>2, <2>1 DEF Unread
    <3> QED
      BY <1>1, <1>5, <3>1 DEF IInv, StdoutInv, Still
  <2> QED
    BY <1>2, <2>1 DEF StdoutInv
<1>9. StdinInv'
  <2>1. Justified(r, "error")
    BY <1>1 DEF Justified
  <2>2. ASSUME NEW i \in 1..Len(stdin)'
        PROVE  /\ earlier' + stdin'[i].id \in Request'
               /\ Justified(earlier + stdin'[i].id, stdin'[i].response)
    <3>1. CASE i \in 1..Len(stdin)
      BY <1>1, <1>4, <1>5, <3>1 DEF IInv, StdinInv, Still
    <3>2. CASE i = Len(stdin) + 1
      BY <1>1, <1>2, <1>3, <1>4, <1>5, <2>1, <3>2 DEF Still
    <3> QED
      BY <1>4, <3>1, <3>2
  <2> QED
    BY <1>1, <1>5, <2>2 DEF StdinInv, Still
<1> QED
  BY <1>5, <1>6, <1>7, <1>8, <1>9 DEF IInv

(* A command that is refused, or that finds its approval expired.          *)
LEMMA RefusalPreserves ==
  ASSUME IInv, Still \/ \E a : /\ pendingApprovals' = Without(pendingApprovals, a)
                               /\ UNCHANGED <<earlier, requests, shown, answers, results,
                                              decisions, effects>>,
         UNCHANGED <<now, runs, child, waiting, stdout, stdin, over>>
  PROVE  IInv'
<1>1. UNCHANGED <<earlier, requests, shown, answers, results, decisions, effects>>
  BY DEF Still
<1>2. /\ DOMAIN pendingApprovals' \subseteq DOMAIN pendingApprovals
      /\ \A x \in DOMAIN pendingApprovals' : pendingApprovals'[x] = pendingApprovals[x]
      /\ pendingApprovals' \in [DOMAIN pendingApprovals' -> Entries]
  <2>1. pendingApprovals \in [DOMAIN pendingApprovals -> Entries]
    BY DEF IInv, TypeOK
  <2> QED
    BY <2>1 DEF Still, Without
<1>3. Request' = Request /\ (\A x : Digest(x)' = Digest(x))
      /\ \A x, y : Justified(x, y) => Justified(x, y)'
  BY <1>1 DEF Request, Digest, Justified
<1>4. TypeOK'
  BY <1>1, <1>2, <1>3 DEF IInv, TypeOK
<1>5. EntryInv'
  BY <1>1, <1>2, <1>3 DEF IInv, EntryInv
<1>6. IdInv' /\ StdoutInv'
  BY <1>1, <1>3 DEF IInv, IdInv, StdoutInv, Unread
<1>7. StdinInv' /\ EffectInv' /\ OkMeansAnswered'
  BY <1>1, <1>3 DEF IInv, StdinInv, EffectInv, OkMeansAnswered
<1>8. AnswerInv'
  BY <1>1, <1>3 DEF IInv, AnswerInv, AnswersAreDecisions
<1> QED
  BY <1>4, <1>5, <1>6, <1>7, <1>8 DEF IInv

(* A command that is accepted while App Server is there.                   *)
LEMMA AnswerPreserves ==
  ASSUME IInv, NEW c \in Command, Answer(c), child,
         UNCHANGED <<now, process, requests, waiting, stdout, over, shown, decisions, effects>>
  PROVE  IInv'
<1> DEFINE r == c.approvalId
           d == c.decision
           entry == pendingApprovals[r]
           reply == [id |-> entry.requestId,
                     response |-> Response(entry.kind, decisions[d].decision)]
           a == [request |-> r, by |-> d, at |-> now]
           N == Len(answers)
<1>1. /\ decisions[d].expiresAt > now /\ r \in DOMAIN pendingApprovals
      /\ entry.sessionId = c.sessionId
      /\ ~(entry.expiresAt <= now)
      /\ entry.digest = decisions[d].digest
      /\ pendingApprovals' = Without(pendingApprovals, r)
      /\ stdin' = Append(stdin, reply)
      /\ answers' = Append(answers, a)
      /\ results' = results \cup {[decision |-> d, approvalId |-> r, sessionId |-> c.sessionId]}
      /\ UNCHANGED <<now, runs, earlier, child, requests, waiting, stdout, over, shown,
                     decisions, effects>>
  BY DEF Answer, Admissible, Expired, Matches, process
<1>2. /\ d \in 1..Len(decisions) /\ d \in Nat /\ r \in Request /\ r \in Nat
      /\ c.sessionId \in Sessions /\ decisions[d] \in Opinions
      /\ requests[r] \in Questions /\ r \in DOMAIN shown /\ shown[r] \in Nat /\ now \in Nat
  <2>1. d \in 1..Len(decisions) /\ r \in Request /\ c.sessionId \in Sessions
    BY DEF Command
  <2>2. decisions \in Seq(Opinions) /\ requests \in Seq(Questions) /\ now \in Nat
        /\ DOMAIN pendingApprovals \subseteq DOMAIN shown /\ shown \in [DOMAIN shown -> Nat]
    BY DEF IInv, TypeOK
  <2> HIDE DEF r, d
  <2> QED
    BY <1>1, <2>1, <2>2 DEF Request
<1>3. /\ earlier < r /\ entry.digest = Digest(r) /\ entry.requestId = requests[r].id
      /\ entry.kind = requests[r].kind /\ entry.sessionId = requests[r].session
      /\ entry.expiresAt = shown[r]
      /\ \A i \in 1..N : answers[i].request # r
  BY <1>1 DEF IInv, EntryInv
<1> HIDE DEF r, d, entry
<1>4. reply \in Replies /\ earlier + reply.id = r
  <2>1. earlier \in Nat /\ requests[r].id = r - earlier
    BY <1>2, <1>3 DEF IInv, IdInv, TypeOK
  <2>2. Response(entry.kind, decisions[d].decision) \in Responses
    BY <1>2 DEF Response, Responses, Opinions, Decisions
  <2>3. entry.requestId \in Nat /\ earlier + entry.requestId = r
    BY <1>2, <1>3, <2>1 DEF Questions
  <2> QED
    BY <2>2, <2>3 DEF Replies
<1>5. a \in Answered
  BY <1>2 DEF Answered
<1>6. /\ answers' \in Seq(Answered) /\ N \in Nat /\ Len(answers)' = N + 1
      /\ answers'[N + 1] = a
      /\ \A i \in 1..N : i \in 1..Len(answers)' /\ answers'[i] = answers[i]
      /\ DOMAIN answers = 1..N /\ DOMAIN answers' = 1..N + 1
  <2>1. answers \in Seq(Answered)
    BY DEF IInv, TypeOK
  <2>2. answers' \in Seq(Answered)
    BY <1>1, <1>5, <2>1, AppendProperties
  <2> HIDE DEF a
  <2> QED
    BY <1>1, <2>1, <2>2, Indices
<1>7. /\ stdin' \in Seq(Replies) /\ Len(stdin) \in Nat /\ Len(stdin)' = Len(stdin) + 1
      /\ stdin'[Len(stdin) + 1] = reply
      /\ \A i \in 1..Len(stdin) : stdin'[i] = stdin[i]
  <2>1. stdin \in Seq(Replies)
    BY DEF IInv, TypeOK
  <2>2. stdin' \in Seq(Replies)
    BY <1>1, <1>4, <2>1, AppendProperties
  <2> HIDE DEF reply
  <2> QED
    BY <1>1, <2>1, <2>2, Indices
<1>8. /\ DOMAIN pendingApprovals' = DOMAIN pendingApprovals \ {r}
      /\ \A x \in DOMAIN pendingApprovals' : pendingApprovals'[x] = pendingApprovals[x]
      /\ pendingApprovals' \in [DOMAIN pendingApprovals' -> Entries]
  <2>1. pendingApprovals \in [DOMAIN pendingApprovals -> Entries]
    BY DEF IInv, TypeOK
  <2> QED
    BY <1>1, <2>1 DEF Without
<1>9. Request' = Request /\ \A x : Digest(x)' = Digest(x)
  BY <1>1 DEF Request, Digest
<1>10. TypeOK'
  <2>1. results' \subseteq [decision : Nat, approvalId : Nat, sessionId : Sessions]
    BY <1>1, <1>2 DEF IInv, TypeOK
  <2> HIDE DEF reply, a, N
  <2> QED
    BY <1>1, <1>6, <1>7, <1>8, <1>9, <2>1 DEF IInv, TypeOK
<1>11. EntryInv'
  <2> SUFFICES ASSUME NEW x \in DOMAIN pendingApprovals'
               PROVE  /\ earlier' < x
                      /\ pendingApprovals'[x].digest = Digest(x)'
                      /\ pendingApprovals'[x].requestId = requests'[x].id
                      /\ pendingApprovals'[x].kind = requests'[x].kind
                      /\ pendingApprovals'[x].sessionId = requests'[x].session
                      /\ pendingApprovals'[x].expiresAt = shown'[x]
                      /\ \A i \in 1..Len(answers)' : answers'[i].request # x
    BY DEF EntryInv
  <2>1. x \in DOMAIN pendingApprovals /\ x # r
    BY <1>8
  <2>2. \A i \in 1..Len(answers)' : answers'[i].request # x
    BY <1>6, <2>1 DEF IInv, EntryInv
  <2> QED
    BY <1>1, <1>8, <1>9, <2>1, <2>2 DEF IInv, EntryInv
<1>12. IdInv' /\ StdoutInv'
  BY <1>1, <1>9 DEF IInv, IdInv, StdoutInv, Unread
<1>13. ASSUME NEW x, NEW y, Justified(x, y) PROVE Justified(x, y)'
  BY <1>1, <1>6, <1>13, JustifiedStays DEF IInv, TypeOK
<1>14. ASSUME NEW x, NEW y, x = r, y = reply.response PROVE Justified(x, y)'
  <2>1. N + 1 \in 1..Len(answers)' /\ answers'[N + 1].request = r /\ answers'[N + 1].by = d
    BY <1>6
  <2>2. y = Response(requests'[x].kind, decisions'[d].decision)
    BY <1>1, <1>3, <1>14
  <2> QED
    BY <1>14, <2>1, <2>2 DEF Justified, Response
<1>15. StdinInv'
  <2>1. ASSUME NEW i \in 1..Len(stdin)', NEW x, NEW y,
               x = earlier + stdin'[i].id, y = stdin'[i].response
        PROVE  x \in Request /\ Justified(x, y)'
    <3>1. CASE i \in 1..Len(stdin)
      BY <1>7, <1>13, <2>1, <3>1 DEF IInv, StdinInv
    <3>2. CASE i = Len(stdin) + 1
      <4>1. x = r /\ y = reply.response
        <5> HIDE DEF reply
        <5> QED
          BY <1>4, <1>7, <2>1, <3>2
      <4> QED
        BY <1>2, <1>14, <4>1
    <3> QED
      BY <1>7, <3>1, <3>2
  <2> QED
    BY <1>1, <1>9, <2>1 DEF StdinInv
<1>16. EffectInv'
  BY <1>1, <1>13 DEF IInv, EffectInv
<1>17. AnswerInv'
  <2>1. ASSUME NEW i \in 1..N + 1
        PROVE  /\ answers'[i].by \in 1..Len(decisions)
               /\ answers'[i].request \in Request
               /\ decisions[answers'[i].by].digest = Digest(answers'[i].request)
               /\ answers'[i].request \in DOMAIN shown
               /\ answers'[i].at < shown[answers'[i].request]
               /\ answers'[i].at < decisions[answers'[i].by].expiresAt
    <3>1. CASE i \in 1..N
      BY <1>6, <3>1 DEF IInv, AnswerInv, AnswersAreDecisions
    <3>2. CASE i = N + 1
      <4>1. answers'[i].by = d /\ answers'[i].request = r /\ answers'[i].at = now
        BY <1>6, <3>2
      <4>2. now < shown[r] /\ now < decisions[d].expiresAt
        BY <1>1, <1>2, <1>3 DEF Opinions
      <4> QED
        BY <1>1, <1>2, <1>3, <4>1, <4>2
    <3> QED
      BY <1>6, <3>1, <3>2
  <2>2. ASSUME NEW i \in 1..N + 1, NEW j \in 1..N + 1, i # j
        PROVE  answers'[i].request # answers'[j].request
    <3>1. CASE i \in 1..N /\ j \in 1..N
      BY <1>6, <2>2, <3>1 DEF IInv, AnswerInv, AnswersAreDecisions
    <3>2. CASE i = N + 1 \/ j = N + 1
      BY <1>3, <1>6, <2>2, <3>2
    <3> QED
      BY <1>6, <3>1, <3>2
  <2> HIDE DEF N, a
  <2> QED
    BY <1>1, <1>6, <1>9, <2>1, <2>2 DEF AnswerInv, AnswersAreDecisions
<1>18. OkMeansAnswered'
  <2> DEFINE Row(i) == [decision |-> answers[i].by, approvalId |-> answers[i].request,
                        sessionId |-> requests[answers[i].request].session]
             New == [decision |-> d, approvalId |-> r, sessionId |-> requests[r].session]
  <2>1. results = {Row(i) : i \in 1..N} /\ results' = results \cup {New}
    BY <1>1, <1>3, <1>6 DEF IInv, OkMeansAnswered
  <2>2. PICK n \in Nat : n = N
    BY <1>6
  <2>3. (\A i \in 1..n : Row(i)' = Row(i)) /\ Row(n + 1)' = New
    BY <1>1, <1>6, <2>2
  <2>4. DOMAIN answers' = 1..n \cup {n + 1}
    BY <1>6, <2>2
  <2>5. results' = {Row(i)' : i \in 1..n \cup {n + 1}}
    <3>1. results' = {Row(i) : i \in 1..n} \cup {New}
      BY <2>1, <2>2
    <3>2. {Row(i)' : i \in 1..n \cup {n + 1}} = {Row(i)' : i \in 1..n} \cup {Row(n + 1)'}
      OBVIOUS
    <3>3. {Row(i)' : i \in 1..n} = {Row(i) : i \in 1..n}
      BY <2>3
    <3> QED
      BY <2>3, <3>1, <3>2, <3>3
  <2> QED
    BY <2>4, <2>5 DEF OkMeansAnswered
<1> QED
  BY <1>10, <1>11, <1>12, <1>15, <1>16, <1>17, <1>18 DEF IInv

(* Every command.                                                          *)
LEMMA HandleCommandPreserves == IInv /\ HandleCommand => IInv'
<1> SUFFICES ASSUME IInv, HandleCommand PROVE IInv'
  OBVIOUS
<1>1. /\ UNCHANGED <<now, process, requests, waiting, stdout, over, shown, decisions, effects>>
      /\ UNCHANGED <<now, runs, earlier, child>>
  BY DEF HandleCommand, process
<1>2. CASE Refuse
  BY <1>1, <1>2, RefusalPreserves DEF Refuse, Still
<1>3. ASSUME NEW c \in Command, Expire(c) PROVE IInv'
  BY <1>1, <1>3, RefusalPreserves DEF Expire
<1>4. ASSUME NEW c \in Command, Answer(c) PROVE IInv'
  <2>1. CASE child
    BY <1>1, <1>4, <2>1, AnswerPreserves
  <2>2. CASE ~child
    <3>1. /\ pendingApprovals' = Without(pendingApprovals, c.approvalId)
          /\ UNCHANGED <<stdin, answers, results>>
      BY <1>4, <2>2 DEF Answer
    <3> QED
      BY <1>1, <3>1, RefusalPreserves
  <2> QED
    BY <2>1, <2>2
<1> QED
  BY <1>2, <1>3, <1>4 DEF HandleCommand

-----------------------------------------------------------------------------
(* The theorems.                                                           *)

(* Every reachable state of the adapter satisfies the invariant.           *)
THEOREM InductiveInvariant == Spec => []IInv
<1>1. IInv /\ [Next]_vars => IInv'
  BY IdlePreserves, TurnEndPreserves, AskPreserves, TakeResponsePreserves, DecidePreserves,
     RestartPreserves, HandleRequestPreserves, RejectRequestPreserves, HandleCommandPreserves
  DEF Next
<1> QED
  BY Initially, <1>1, PTL DEF Spec

(* Every variable of the adapter and its environment keeps its type.       *)
THEOREM TypeCorrect == Spec => []TypeOK
<1>1. IInv => TypeOK
  BY DEF IInv
<1> QED
  BY <1>1, InductiveInvariant, PTL

(* Whatever the relay does with the decisions of clients, and however App  *)
(* Server and the agent stop and start, a request is answered once at most *)
(* and by a decision made on what it displays, in time.                    *)
THEOREM EveryAnswerIsADecision == Spec => []AnswersAreDecisions
<1>1. IInv => AnswersAreDecisions
  BY DEF IInv, AnswerInv
<1> QED
  BY <1>1, InductiveInvariant, PTL

(* App Server does nothing with a request but what the answer to it says.  *)
THEOREM EveryEffectIsAnAnswer == Spec => []EffectsAreAnswers
<1>1. IInv => EffectsAreAnswers
  <2> SUFFICES ASSUME IInv PROVE EffectsAreAnswers
    OBVIOUS
  <2>1. DOMAIN answers = 1..Len(answers)
    BY DEF IInv, TypeOK
  <2> QED
    BY <2>1 DEF IInv, EffectInv, Justified, EffectsAreAnswers
<1> QED
  BY <1>1, InductiveInvariant, PTL

(* Clients hear `ok' of exactly the decisions that answered.               *)
THEOREM EveryOkIsAnAnswer == Spec => []OkMeansAnswered
<1>1. IInv => OkMeansAnswered
  BY DEF IInv
<1> QED
  BY <1>1, InductiveInvariant, PTL
=============================================================================
