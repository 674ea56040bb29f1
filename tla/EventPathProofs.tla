--------------------------- MODULE EventPathProofs ---------------------------
(***************************************************************************)
(* Proofs about EventPath: its types, what the client's view says of the   *)
(* events it was handed, that a subscribed client follows the relay's      *)
(* history without a gap or a repetition, that it ignores only what was    *)
(* overtaken, and that a client that heard a whole run shows what waits.   *)
(***************************************************************************)
EXTENDS EventPath, SequenceTheorems, FiniteSetTheorems, WellFoundedInduction, TLAPS

-----------------------------------------------------------------------------
(* Induction, from the well-foundedness of the natural numbers.            *)

(* Every set of natural numbers that is not empty has a least.             *)
LEMMA Least ==
  ASSUME NEW S, S \subseteq Nat, S # {}
  PROVE  \E n \in S : \A m \in S : n <= m
<1> DEFINE R == OpToRel(<, Nat)
<1>1. IsWellFoundedOn(R, Nat)
  BY NatLessThanWellFounded
<1>2. \A m, n \in Nat : <<m, n>> \in R <=> m < n
  BY DEF OpToRel
<1> HIDE DEF R
<1>3. PICK n \in S : \A m \in S : ~(<<m, n>> \in R)
  BY <1>1, WFMin
<1>4. ASSUME NEW m \in S PROVE n <= m
  <2>1. m \in Nat /\ n \in Nat /\ ~(<<m, n>> \in R)
    BY <1>3
  <2>2. ~(m < n)
    BY <1>2, <2>1
  <2> QED
    BY <2>1, <2>2
<1> QED
  BY <1>4

(* A set that has zero and the successor of each of its members has all.   *)
LEMMA Induct ==
  ASSUME NEW S, 0 \in S, \A n \in Nat : n \in S => n + 1 \in S
  PROVE  Nat \subseteq S
<1> SUFFICES ASSUME ~(Nat \subseteq S) PROVE FALSE
  OBVIOUS
<1>1. PICK n \in Nat \ S : \A m \in Nat \ S : n <= m
  BY Least
<1>2. n # 0 /\ n - 1 \in Nat /\ n - 1 \in S
  BY <1>1
<1> QED
  BY <1>1, <1>2

-----------------------------------------------------------------------------
(* Sequences.                                                              *)

(* The first events of a sequence, and its end.                            *)
LEMMA Fronts ==
  ASSUME NEW S, NEW s \in Seq(S), NEW n \in 0..Len(s)
  PROVE  /\ SubSeq(s, 1, n) \in Seq(S) /\ Len(SubSeq(s, 1, n)) = n
         /\ \A i \in 1..n : SubSeq(s, 1, n)[i] = s[i]
         /\ SubSeq(s, 1, Len(s)) = s
<1>1. Len(s) \in Nat /\ n \in Nat
  OBVIOUS
<1>2. \A i \in 1..n : s[i] \in S
  BY <1>1
<1>3. SubSeq(s, 1, n) \in Seq(S) /\ Len(SubSeq(s, 1, n)) = n
  BY <1>1, <1>2, SubSeqProperties
<1>4. \A i \in 1..n : SubSeq(s, 1, n)[i] = s[i]
  BY <1>1, SubSeqProperties
<1>5. SubSeq(s, 1, Len(s)) = s
  <2>1. SubSeq(s, 1, Len(s)) \in Seq(S) /\ Len(SubSeq(s, 1, Len(s))) = Len(s)
    BY <1>1, SubSeqProperties
  <2>2. \A i \in 1..Len(s) : SubSeq(s, 1, Len(s))[i] = s[i]
    BY <1>1, SubSeqProperties
  <2> QED
    BY <2>1, <2>2, SeqEqual
<1> QED
  BY <1>3, <1>4, <1>5

(* What is newest in a sequence is its end.                                *)
CutBy(t, s, k) ==
  k \in 0..Len(s) /\ Len(t) = Len(s) - k /\ \A i \in 1..Len(s) - k : t[i] = s[i + k]

LEMMA NewestIs ==
  ASSUME NEW S, NEW s \in Seq(S), NEW n \in Nat
  PROVE  /\ Newest(s, n) \in Seq(S) /\ Len(Newest(s, n)) <= n
         /\ \E k \in Nat : CutBy(Newest(s, n), s, k)
<1>1. Len(s) \in Nat
  OBVIOUS
<1>2. CASE Len(s) <= n
  <2>1. Newest(s, n) = s
    BY <1>2 DEF Newest
  <2>2. 0 \in Nat /\ CutBy(s, s, 0)
    BY <1>1 DEF CutBy
  <2> QED
    BY <1>2, <2>1, <2>2
<1>3. CASE ~(Len(s) <= n)
  <2> DEFINE k == Len(s) - n
             b == k + 1
             t == SubSeq(s, b, Len(s))
  <2>1. k \in 0..Len(s) /\ b \in Nat /\ b >= 1 /\ Len(s) - b + 1 = Len(s) - k /\ Len(s) - k = n /\ b <= Len(s) + 1
    BY <1>1, <1>3
  <2>2. Newest(s, n) = t
    BY <1>1, <1>3 DEF Newest
  <2>3. \A i \in b..Len(s) : i \in 1..Len(s) /\ s[i] \in S
    BY <1>1, <2>1
  <2>4. t \in Seq(S) /\ Len(t) = Len(s) - k
    BY <1>1, <2>1, <2>3, SubSeqProperties
  <2>5. \A i \in 1..Len(s) - k : t[i] = s[i + k]
    BY <1>1, <2>1, SubSeqProperties
  <2> HIDE DEF t, b, k
  <2>6. k \in Nat /\ CutBy(t, s, k)
    BY <1>1, <2>1, <2>4, <2>5 DEF CutBy
  <2>7. Len(t) <= n
    BY <2>1, <2>4
  <2> QED
    BY <2>2, <2>4, <2>6, <2>7
<1> QED
  BY <1>2, <1>3

(* The rest of a sequence.                                                 *)
LEMMA Rests ==
  ASSUME NEW S, NEW s \in Seq(S), s # <<>>
  PROVE  /\ Head(s) \in S /\ Head(s) = s[1] /\ Len(s) \in Nat /\ Len(s) >= 1
         /\ Tail(s) \in Seq(S) /\ Len(Tail(s)) = Len(s) - 1
         /\ \A i \in 1..Len(s) - 1 : Tail(s)[i] = s[i + 1]
<1>1. Len(s) \in Nat /\ Len(s) >= 1
  OBVIOUS
<1>2. Head(s) \in S /\ Head(s) = s[1]
  BY <1>1
<1>3. Tail(s) \in Seq(S) /\ Len(Tail(s)) = Len(s) - 1
  BY <1>1
<1> QED
  BY <1>1, <1>2, <1>3

-----------------------------------------------------------------------------
(* The view of a client, event by event.                                   *)

(* f has the views of the first n of the events.                           *)
Views(f, events, n) ==
  f = [i \in 0..n |-> IF i = 0 THEN createEmptyState ELSE reduceEvent(f[i - 1], events[i])]

(* There are such views.                                                  *)
LEMMA ViewsExist ==
  ASSUME NEW events, NEW n \in Nat
  PROVE  \E f : Views(f, events, n)
<1> DEFINE S == {k \in Nat : \E f : Views(f, events, k)}
<1>1. 0 \in S
  <2>1. Views([i \in 0..0 |-> createEmptyState], events, 0)
    BY DEF Views
  <2> QED
    BY <2>1
<1>2. ASSUME NEW k \in Nat, k \in S PROVE k + 1 \in S
  <2>1. PICK f : Views(f, events, k)
    BY <1>2
  <2> DEFINE g == [i \in 0..k + 1 |-> IF i = k + 1 THEN reduceEvent(f[k], events[k + 1]) ELSE f[i]]
  <2>2. \A i \in 0..k : g[i] = f[i] /\ f[i] = IF i = 0 THEN createEmptyState ELSE reduceEvent(f[i - 1], events[i])
    BY <2>1 DEF Views
  <2>3. ASSUME NEW i \in 0..k + 1
        PROVE  g[i] = IF i = 0 THEN createEmptyState ELSE reduceEvent(g[i - 1], events[i])
    <3>1. CASE i = 0
      <4>1. 0 \in 0..k
        OBVIOUS
      <4>2. g[0] = createEmptyState
        BY <2>2, <4>1
      <4> QED
        BY <3>1, <4>2
    <3>2. CASE i \in 1..k
      <4>1. i \in 0..k /\ i - 1 \in 0..k /\ i # 0
        BY <3>2
      <4>2. g[i] = f[i] /\ g[i - 1] = f[i - 1] /\ f[i] = reduceEvent(f[i - 1], events[i])
        BY <2>2, <4>1
      <4> QED
        BY <4>1, <4>2
    <3>3. CASE i = k + 1
      <4>1. g[i] = reduceEvent(f[k], events[i]) /\ g[i - 1] = f[i - 1] /\ i - 1 = k /\ i # 0
        BY <2>2, <3>3
      <4> QED
        BY <4>1
    <3> QED
      BY <3>1, <3>2, <3>3
  <2>4. g = [i \in 0..k + 1 |-> IF i = 0 THEN createEmptyState ELSE reduceEvent(g[i - 1], events[i])]
    <3>1. g = [i \in 0..k + 1 |-> g[i]]
      OBVIOUS
    <3> HIDE DEF g
    <3> QED
      BY <2>3, <3>1
  <2>5. Views(g, events, k + 1)
    BY <2>4 DEF Views
  <2> QED
    BY <2>5
<1> QED
  BY <1>1, <1>2, Induct

(* The same events make the same view.                                     *)
LEMMA ViewsAgree ==
  ASSUME NEW s, NEW t, NEW m \in Nat, NEW n \in Nat, NEW f, NEW g,
         Views(f, s, m), Views(g, t, n), m <= n, \A i \in 1..m : s[i] = t[i]
  PROVE  f[m] = g[m]
<1> DEFINE S == {k \in Nat : k <= m => f[k] = g[k]}
<1>1. /\ \A i \in 0..m : f[i] = IF i = 0 THEN createEmptyState ELSE reduceEvent(f[i - 1], s[i])
      /\ \A i \in 0..n : g[i] = IF i = 0 THEN createEmptyState ELSE reduceEvent(g[i - 1], t[i])
  BY DEF Views
<1>2. 0 \in S
  BY <1>1
<1>3. ASSUME NEW k \in Nat, k \in S PROVE k + 1 \in S
  <2>1. SUFFICES ASSUME k + 1 <= m PROVE f[k + 1] = g[k + 1]
    OBVIOUS
  <2>2. k + 1 \in 0..m /\ k + 1 \in 0..n /\ k + 1 \in 1..m /\ k + 1 # 0 /\ (k + 1) - 1 = k /\ f[k] = g[k]
    BY <1>3, <2>1
  <2>3. f[k + 1] = reduceEvent(f[k], s[k + 1]) /\ g[k + 1] = reduceEvent(g[k], t[k + 1]) /\ s[k + 1] = t[k + 1]
    BY <1>1, <2>2
  <2> QED
    BY <2>2, <2>3
<1>4. m \in S
  BY <1>2, <1>3, Induct
<1> QED
  BY <1>4

(* reduceEvents is the last of them.                                       *)
LEMMA ViewIs ==
  ASSUME NEW events, Len(events) \in Nat
  PROVE  \E f : Views(f, events, Len(events)) /\ reduceEvents(events) = f[Len(events)]
<1> DEFINE n == Len(events)
<1>1. \E f : f = [i \in 0..n |-> IF i = 0 THEN createEmptyState ELSE reduceEvent(f[i - 1], events[i])]
  BY ViewsExist DEF Views
<1> QED
  BY <1>1 DEF reduceEvents, Views

(* No events, no view.                                                     *)
LEMMA ViewOfNone == reduceEvents(<<>>) = createEmptyState
<1>1. PICK f : Views(f, <<>>, 0) /\ reduceEvents(<<>>) = f[0]
  BY ViewIs
<1> QED
  BY <1>1 DEF Views

(* One event more is reduced into the view of those before.                *)
LEMMA ViewOfMore ==
  ASSUME NEW S, NEW events \in Seq(S), NEW e \in S
  PROVE  reduceEvents(Append(events, e)) = reduceEvent(reduceEvents(events), e)
<1> DEFINE n == Len(events)
           all == Append(events, e)
<1>1. n \in Nat /\ Len(all) = n + 1 /\ all[n + 1] = e /\ \A i \in 1..n : events[i] = all[i]
  BY AppendProperties
<1> HIDE DEF all, n
<1>2. PICK f : Views(f, events, n) /\ reduceEvents(events) = f[n]
  BY <1>1, ViewIs DEF n
<1>3. PICK g : Views(g, all, n + 1) /\ reduceEvents(all) = g[n + 1]
  BY <1>1, ViewIs
<1>4. f[n] = g[n]
  BY <1>1, <1>2, <1>3, ViewsAgree
<1>5. g[n + 1] = reduceEvent(g[n], all[n + 1])
  BY <1>1, <1>3 DEF Views
<1> QED
  BY <1>1, <1>2, <1>3, <1>4, <1>5 DEF all

-----------------------------------------------------------------------------
(* The types.                                                              *)

(* An event as the agent makes it: named by its run and its number.  The   *)
(* first of a run connects the host, a request is its own subject, and     *)
(* the subject of a decision is an earlier event of its run.               *)
Spoken ==
  {e \in Event :
     /\ e.eventId = <<e.at, e.sequence>>
     /\ e.type = "host.connected" <=> e.sequence = 1
     /\ e.type = "approval.requested" => e.session = Session /\ e.subject = e.eventId
     /\ e.type = "approval.resolved" => /\ e.subject[1] = e.at
                                        /\ e.subject[2] < e.sequence
                                        /\ e.value \in Decisions
     /\ e.type \in ReportTypes => \E r \in Reports : r.value = e.value}

(* It has been made by now.                                                *)
Said == {e \in Spoken : e.at < run \/ (e.at = run /\ e.sequence <= sequence)}

SaidWire == [run : 1..run, frames : Seq(Said), open : BOOLEAN]
Frame    == [kind : {"snapshot", "event"}, events : Seq(Said)]

AgentTypes ==
  /\ run \in 0..MaxRuns /\ up \in BOOLEAN
  /\ emitted \in 0..MaxEvents /\ sequence \in 0..emitted
  /\ up => run >= 1 /\ sequence >= 1
  /\ queue \in Seq(Said) /\ Len(queue) <= MaxQueue
  /\ pending \subseteq {<<run, n>> : n \in 1..sequence}
  /\ forgotten \subseteq {<<run, n>> : n \in 1..sequence}
  /\ pending \cap forgotten = {} /\ (~up => pending = {} /\ forgotten = {})

WireTypes ==
  /\ wires \in Seq(SaidWire) /\ Len(wires) <= MaxLinks
  /\ link \in 0..Len(wires) /\ (link # 0 => up /\ queue = <<>>)

RelayTypes ==
  /\ journal \in Journals /\ inbox \in Seq(Said)
  /\ written \in BOOLEAN /\ (written => journal /\ inbox # <<>>)
  /\ file \in Seq(Said) /\ Len(file) <= MaxHistory
  /\ kept \in Seq(Said) /\ Len(kept) <= MaxHistory
  /\ history \in Seq(Said) /\ Len(history) <= MaxHistory
  /\ restarts \in Nat /\ faults \in Nat /\ restarts + faults <= MaxFailures

ClientTypes ==
  /\ snapshots \in 0..MaxSnapshots
  /\ attached \in BOOLEAN /\ (~attached => downlink = <<>>)
  /\ downlink \in Seq(Frame)
  /\ \A n \in DOMAIN downlink : /\ downlink[n].kind = "snapshot" => n = 1
                                /\ downlink[n].kind = "event" => Len(downlink[n].events) = 1
  /\ given \in Seq(Said)
  /\ state = reduceEvents(given)

TypeInv == AgentTypes /\ WireTypes /\ RelayTypes /\ ClientTypes

(* What is bounded is a natural number.                                    *)
LEMMA Numbers ==
  ASSUME AgentTypes
  PROVE  /\ run \in Nat /\ sequence \in Nat /\ emitted \in Nat /\ sequence <= emitted
         /\ emitted <= MaxEvents /\ run <= MaxRuns /\ MaxEvents \in Nat /\ MaxRuns \in Nat
         /\ MaxQueue \in Nat /\ MaxHistory \in Nat /\ MaxQueue >= 1 /\ MaxHistory >= 1
BY SizeAssumption, BoundAssumption DEF AgentTypes

(* The fields of an event.                                                 *)
LEMMA EventIs ==
  ASSUME NEW e \in Spoken
  PROVE  /\ e \in Event
         /\ e.at \in 1..MaxRuns /\ e.sequence \in 1..MaxEvents
         /\ e.at \in Nat /\ e.sequence \in Nat /\ e.at >= 1 /\ e.sequence >= 1
         /\ e.host = Host /\ e.type \in EventTypes /\ e.session \in {Session, NoSession}
         /\ e.eventId \in (1..MaxRuns) \X (1..MaxEvents) /\ e.eventId = <<e.at, e.sequence>>
<1>1. e \in Event /\ e.eventId = <<e.at, e.sequence>>
  BY DEF Spoken
<1>2. /\ e.at \in 1..MaxRuns /\ e.sequence \in 1..MaxEvents
      /\ e.host \in {Host} /\ e.type \in EventTypes /\ e.session \in {Session, NoSession}
      /\ e.eventId \in (1..MaxRuns) \X (1..MaxEvents)
  BY <1>1 DEF Event
<1> QED
  BY <1>1, <1>2, BoundAssumption

(* What has been said stays said.                                          *)
LEMMA SaidStays ==
  ASSUME AgentTypes, run' \in Nat, sequence' \in Nat,
         run' = run + 1 \/ (run' = run /\ sequence' >= sequence)
  PROVE  /\ Said \subseteq Said' /\ Seq(Said) \subseteq Seq(Said')
         /\ SaidWire \subseteq SaidWire' /\ Seq(SaidWire) \subseteq Seq(SaidWire')
         /\ Seq(Frame) \subseteq Seq(Frame')
<1>1. Said \subseteq Said'
  <2>1. ASSUME NEW e \in Said PROVE e \in Said'
    <3>1. e \in Spoken /\ e.at \in Nat /\ e.sequence \in Nat
      BY EventIs DEF Said
    <3> QED
      BY <3>1, Numbers DEF Said
  <2> QED
    BY <2>1
<1>2. Seq(Said) \subseteq Seq(Said')
  BY <1>1
<1>3. 1..run \subseteq 1..run'
  BY Numbers
<1>4. SaidWire \subseteq SaidWire' /\ Frame \subseteq Frame'
  BY <1>2, <1>3 DEF SaidWire, Frame
<1> QED
  BY <1>1, <1>2, <1>4

(* The event the agent makes next.                                         *)
LEMMA Created ==
  ASSUME AgentTypes, up, emitted < MaxEvents, NEW session, NEW type, NEW subject, NEW value,
         session \in {Session, NoSession}, type \in EventTypes, type # "host.connected",
         subject \in {<<>>} \cup ((1..MaxRuns) \X (1..MaxEvents)),
         value \in {"none"} \cup Decisions \cup {r.value : r \in Reports},
         type = "approval.requested" => session = Session /\ subject = <<run, sequence + 1>>,
         type = "approval.resolved" => /\ subject \in pending /\ value \in Decisions,
         type \in ReportTypes => \E r \in Reports : r.value = value,
         sequence' = sequence + 1, run' = run
  PROVE  /\ create(run, sequence + 1, session, type, subject, value) \in Said'
         /\ Said \subseteq Said' /\ Seq(Said) \subseteq Seq(Said')
<1> DEFINE e == create(run, sequence + 1, session, type, subject, value)
<1>1. /\ run \in 1..MaxRuns /\ sequence + 1 \in 1..MaxEvents /\ sequence >= 1 /\ sequence \in Nat
      /\ run \in Nat
  <2>1. run >= 1 /\ sequence >= 1
    BY DEF AgentTypes
  <2> QED
    BY <2>1, Numbers
<1>2. /\ e.eventId = <<run, sequence + 1>> /\ e.host = Host /\ e.sequence = sequence + 1 /\ e.at = run
      /\ e.session = session /\ e.type = type /\ e.subject = subject /\ e.value = value
  BY DEF create
<1>3. e \in Event
  <2>1. <<run, sequence + 1>> \in (1..MaxRuns) \X (1..MaxEvents)
    BY <1>1
  <2> QED
    BY <1>1, <2>1 DEF create, Event
<1>4. type = "approval.resolved" => subject[1] = run /\ subject[2] < sequence + 1
  <2>1. SUFFICES ASSUME type = "approval.resolved"
                 PROVE  subject[1] = run /\ subject[2] < sequence + 1
    OBVIOUS
  <2>2. PICK n \in 1..sequence : subject = <<run, n>>
    BY <2>1 DEF AgentTypes
  <2> QED
    BY <1>1, <2>2
<1> HIDE DEF e
<1>5. type = "host.connected" <=> sequence + 1 = 1
  BY <1>1
<1>6. e \in Spoken
  BY <1>2, <1>3, <1>4, <1>5 DEF Spoken
<1>7. e \in Said'
  BY <1>1, <1>2, <1>6 DEF Said
<1>8. Said \subseteq Said' /\ Seq(Said) \subseteq Seq(Said')
  BY <1>1, SaidStays, Numbers
<1> QED
  BY <1>7, <1>8 DEF e

(* What nobody touches keeps its type as events are made.                  *)
LEMMA RelayStays ==
  ASSUME RelayTypes, UNCHANGED relay, Seq(Said) \subseteq Seq(Said')
  PROVE  RelayTypes'
BY DEF RelayTypes, relay

(* And what the client's types are made of.                                *)
LEMMA ClientStays ==
  ASSUME ClientTypes, UNCHANGED <<attached, downlink, client>>,
         Seq(Said) \subseteq Seq(Said'), Seq(Frame) \subseteq Seq(Frame')
  PROVE  ClientTypes'
BY DEF ClientTypes, client

(* A frame sent on a connection.                                           *)
LEMMA CarriedTypes ==
  ASSUME AgentTypes, WireTypes, NEW c \in 1..Len(wires), NEW e, e \in Said',
         Seq(Said) \subseteq Seq(Said'), Seq(SaidWire) \subseteq Seq(SaidWire'),
         SaidWire \subseteq SaidWire'
  PROVE  Carried(c, e) \in Seq(SaidWire') /\ Len(Carried(c, e)) = Len(wires)
<1>1. wires \in Seq(SaidWire') /\ wires \in Seq(SaidWire)
  BY DEF WireTypes
<1>2. CASE ~wires[c].open
  BY <1>1, <1>2 DEF Carried
<1>3. CASE wires[c].open
  <2> DEFINE w == [wires[c] EXCEPT !.frames = Append(@, e)]
  <2>1. wires[c] \in SaidWire /\ wires[c].frames \in Seq(Said')
    <3>1. wires[c] \in SaidWire
      BY <1>1, ElementOfSeq
    <3> QED
      BY <3>1 DEF SaidWire
  <2>2. w \in SaidWire'
    <3>1. Append(wires[c].frames, e) \in Seq(Said')
      BY <2>1, AppendProperties
    <3>2. wires[c] \in SaidWire'
      BY <2>1
    <3> QED
      BY <3>1, <3>2 DEF SaidWire
  <2>3. Carried(c, e) = [wires EXCEPT ![c] = w]
    BY <1>3 DEF Carried
  <2> HIDE DEF w
  <2>4. [wires EXCEPT ![c] = w] \in Seq(SaidWire') /\ Len([wires EXCEPT ![c] = w]) = Len(wires)
    BY <1>1, <2>2, ExceptSeq
  <2> QED
    BY <2>3, <2>4
<1> QED
  BY <1>2, <1>3

(* An event is queued, and the oldest are dropped.                         *)
LEMMA QueuedTypes ==
  ASSUME NEW S, queue \in Seq(S), NEW e \in S
  PROVE  /\ Newest(Append(queue, e), MaxQueue) \in Seq(S)
         /\ Len(Newest(Append(queue, e), MaxQueue)) <= MaxQueue
BY AppendProperties, NewestIs, SizeAssumption

(* Every event the agent makes.                                            *)
LEMMA EmitTypes ==
  ASSUME TypeInv, NEW session, NEW type, NEW subject, NEW value,
         session \in {Session, NoSession}, type \in EventTypes, type # "host.connected",
         subject \in {<<>>} \cup ((1..MaxRuns) \X (1..MaxEvents)),
         value \in {"none"} \cup Decisions \cup {r.value : r \in Reports},
         type = "approval.requested" => session = Session /\ subject = <<run, sequence + 1>>,
         type = "approval.resolved" => subject \in pending /\ value \in Decisions,
         type \in ReportTypes => \E r \in Reports : r.value = value,
         Emit(session, type, subject, value),
         UNCHANGED <<run, up, link, forgotten, relay, attached, downlink, client>>,
         pending' \subseteq pending \cup {<<run, sequence + 1>>}
  PROVE  TypeInv'
<1> DEFINE e == create(run, sequence + 1, session, type, subject, value)
<1> USE DEF TypeInv
<1>1. /\ up /\ emitted < MaxEvents /\ publish(e) /\ sequence' = sequence + 1
      /\ emitted' = emitted + 1 /\ run' = run /\ up' = up /\ link' = link
  BY DEF Emit
<1>2. e \in Said' /\ Said \subseteq Said' /\ Seq(Said) \subseteq Seq(Said')
  BY <1>1, Created
<1>3. /\ SaidWire \subseteq SaidWire' /\ Seq(SaidWire) \subseteq Seq(SaidWire')
      /\ Seq(Frame) \subseteq Seq(Frame')
  BY <1>1, SaidStays, Numbers
<1>4. RelayTypes' /\ ClientTypes'
  BY <1>2, <1>3, RelayStays, ClientStays
<1> HIDE DEF e
<1>5. queue' \in Seq(Said') /\ Len(queue') <= MaxQueue /\ (link # 0 => queue' = queue)
  BY <1>1, <1>2, QueuedTypes DEF publish, AgentTypes
<1>6. /\ pending' \subseteq {<<run, n>> : n \in 1..sequence + 1}
      /\ forgotten' \subseteq {<<run, n>> : n \in 1..sequence + 1}
      /\ pending' \cap forgotten' = {}
  <2>1. 1..sequence \subseteq 1..sequence + 1 /\ sequence + 1 \in 1..sequence + 1
        /\ sequence + 1 \notin 1..sequence
    BY Numbers
  <2>2. <<run, sequence + 1>> \notin forgotten
    BY <2>1 DEF AgentTypes
  <2> QED
    BY <2>1, <2>2 DEF AgentTypes
<1>7. AgentTypes'
  BY <1>1, <1>5, <1>6, Numbers DEF AgentTypes
<1>8. wires' \in Seq(SaidWire') /\ Len(wires') = Len(wires)
  <2>1. CASE link = 0
    BY <1>1, <1>3, <2>1 DEF publish, WireTypes
  <2>2. CASE link # 0
    BY <1>1, <1>2, <1>3, <2>2, CarriedTypes DEF publish, WireTypes
  <2> QED
    BY <2>1, <2>2
<1>9. WireTypes'
  BY <1>1, <1>5, <1>8 DEF WireTypes
<1> QED
  BY <1>4, <1>7, <1>9

(* What the adapter reports.                                               *)
LEMMA ReportTypesKept == TypeInv /\ Report => TypeInv'
<1> SUFFICES ASSUME TypeInv, Report PROVE TypeInv'
  OBVIOUS
<1>1. PICK r \in Reports : Emit(r.session, r.type, <<>>, r.value)
  BY DEF Report
<1>2. /\ r.session \in {Session, NoSession} /\ r.type \in EventTypes /\ r.type # "host.connected"
      /\ r.type # "approval.requested" /\ r.type # "approval.resolved"
      /\ r.value \in {x.value : x \in Reports}
  BY ReportAssumption DEF ReportTypes, EventTypes
<1> QED
  BY <1>1, <1>2, EmitTypes DEF Report

(* What it asks for and what is decided.                                   *)
LEMMA RequestTypes == TypeInv /\ Request => TypeInv'
<1> SUFFICES ASSUME TypeInv, Request PROVE TypeInv'
  OBVIOUS
<1>1. <<run, sequence + 1>> \in (1..MaxRuns) \X (1..MaxEvents)
  BY Numbers DEF Request, Emit, TypeInv, AgentTypes
<1> QED
  BY <1>1, EmitTypes DEF Request, EventTypes, ReportTypes

LEMMA ResolveTypes == TypeInv /\ Resolve => TypeInv'
<1> SUFFICES ASSUME TypeInv, Resolve PROVE TypeInv'
  OBVIOUS
<1>1. PICK a \in pending, d \in Decisions :
        Emit(Session, "approval.resolved", a, d) /\ pending' = pending \ {a}
  BY DEF Resolve
<1>2. a \in (1..MaxRuns) \X (1..MaxEvents)
  BY Numbers DEF TypeInv, AgentTypes
<1> QED
  BY <1>1, <1>2, EmitTypes DEF Resolve, EventTypes, ReportTypes

(* What it gives up without an event.                                      *)
LEMMA ForgetTypes == TypeInv /\ Forget => TypeInv'
<1> SUFFICES ASSUME TypeInv, Forget PROVE TypeInv'
  OBVIOUS
<1> USE DEF TypeInv
<1>1. /\ UNCHANGED <<run, up, sequence, queue, link, wires, relay, attached, downlink, client>>
      /\ emitted < MaxEvents /\ emitted' = emitted + 1
      /\ \E a \in pending : pending' = pending \ {a} /\ forgotten' = forgotten \cup {a}
  BY DEF Forget
<1>2. Said' = Said /\ SaidWire' = SaidWire /\ Frame' = Frame
  BY <1>1 DEF Said, SaidWire, Frame
<1>3. emitted' \in 0..MaxEvents /\ sequence' \in 0..emitted'
  BY <1>1, Numbers
<1>4. AgentTypes'
  BY <1>1, <1>2, <1>3 DEF AgentTypes
<1>5. WireTypes'
  BY <1>1, <1>2 DEF WireTypes
<1> QED
  BY <1>1, <1>2, <1>4, <1>5, RelayStays, ClientStays

(* The first event of a run is all that is queued.                         *)
LEMMA StartTypes == TypeInv /\ StartAgent => TypeInv'
<1> SUFFICES ASSUME TypeInv, StartAgent PROVE TypeInv'
  OBVIOUS
<1> USE DEF TypeInv
<1> DEFINE e == create(run + 1, 1, NoSession, "host.connected", <<>>, "none")
<1>1. run' = run + 1 /\ sequence' = 1 /\ run + 1 \in 1..MaxRuns /\ 1 \in 1..MaxEvents
  BY Numbers DEF StartAgent
<1>2. /\ Said \subseteq Said' /\ Seq(Said) \subseteq Seq(Said')
      /\ Seq(SaidWire) \subseteq Seq(SaidWire') /\ Seq(Frame) \subseteq Seq(Frame')
  BY <1>1, SaidStays, Numbers
<1>3. e \in Said'
  <2>1. e \in Event
    BY <1>1 DEF create, Event, EventTypes
  <2>2. e \in Spoken
    BY <2>1 DEF create, Spoken, ReportTypes
  <2> QED
    BY <1>1, <2>2 DEF create, Said
<1>4. queue' = <<e>>
  BY DEF StartAgent
<1> HIDE DEF e
<1>5. queue' \in Seq(Said') /\ Len(queue') <= MaxQueue
  BY <1>3, <1>4, Numbers
<1>6. AgentTypes'
  BY <1>1, <1>5, Numbers DEF AgentTypes, StartAgent
<1>7. WireTypes'
  BY <1>2 DEF WireTypes, StartAgent
<1>8. RelayTypes' /\ ClientTypes'
  BY <1>2, RelayStays, ClientStays DEF StartAgent
<1> QED
  BY <1>6, <1>7, <1>8

(* A graceful end says goodbye.                                            *)
LEMMA StopTypes == TypeInv /\ StopAgent => TypeInv'
<1> SUFFICES ASSUME TypeInv, StopAgent PROVE TypeInv'
  OBVIOUS
<1> USE DEF TypeInv
<1> DEFINE e == create(run, sequence + 1, NoSession, "host.disconnected", <<>>, "none")
<1>1. /\ up /\ emitted < MaxEvents /\ sequence' = sequence + 1 /\ emitted' = emitted + 1
      /\ run' = run /\ up' = FALSE /\ link' = 0 /\ queue' = <<>>
      /\ pending' = {} /\ forgotten' = {}
      /\ wires' = IF link # 0 THEN Carried(link, e) ELSE wires
      /\ UNCHANGED <<relay, attached, downlink, client>>
  BY DEF StopAgent, Ended
<1>2. e \in Said' /\ Said \subseteq Said' /\ Seq(Said) \subseteq Seq(Said')
  <2> DEFINE type == "host.disconnected"
             value == "none"
  <2>1. /\ type \in EventTypes /\ type \notin ReportTypes /\ type # "host.connected"
        /\ type # "approval.requested" /\ type # "approval.resolved"
        /\ value \in {"none"} \cup Decisions \cup {r.value : r \in Reports}
    BY DEF EventTypes, ReportTypes
  <2>2. AgentTypes /\ NoSession \in {Session, NoSession}
    OBVIOUS
  <2> HIDE DEF TypeInv, type, value
  <2>3. /\ create(run, sequence + 1, NoSession, type, <<>>, value) \in Said'
        /\ Said \subseteq Said' /\ Seq(Said) \subseteq Seq(Said')
    BY <1>1, <2>1, <2>2, Created
  <2> QED
    BY <2>3 DEF type, value
<1>3. /\ SaidWire \subseteq SaidWire' /\ Seq(SaidWire) \subseteq Seq(SaidWire')
      /\ Seq(Frame) \subseteq Seq(Frame')
  BY <1>1, SaidStays, Numbers
<1> HIDE DEF e
<1>4. wires' \in Seq(SaidWire') /\ Len(wires') = Len(wires)
  <2>1. CASE link = 0
    BY <1>1, <1>3, <2>1 DEF WireTypes
  <2>2. CASE link # 0
    BY <1>1, <1>2, <1>3, <2>2, CarriedTypes DEF WireTypes
  <2> QED
    BY <2>1, <2>2
<1>5. AgentTypes'
  <2>1. queue' \in Seq(Said') /\ Len(queue') <= MaxQueue
    BY <1>1, Numbers
  <2>2. sequence' \in 0..emitted' /\ emitted' \in 0..MaxEvents
    BY <1>1, Numbers
  <2> QED
    BY <1>1, <2>1, <2>2 DEF AgentTypes
<1>6. WireTypes'
  BY <1>1, <1>4 DEF WireTypes
<1>7. RelayTypes' /\ ClientTypes'
  BY <1>1, <1>2, <1>3, RelayStays, ClientStays
<1> QED
  BY <1>5, <1>6, <1>7

(* As long as no event is made, what may have been said is the same.       *)
LEMMA NothingSaid ==
  ASSUME UNCHANGED <<run, sequence>>
  PROVE  /\ Said' = Said /\ SaidWire' = SaidWire /\ Frame' = Frame
BY DEF Said, SaidWire, Frame

(* A process that is killed says nothing.                                  *)
LEMMA KillTypes == TypeInv /\ KillAgent => TypeInv'
<1> SUFFICES ASSUME TypeInv, KillAgent PROVE TypeInv'
  OBVIOUS
<1> USE DEF TypeInv
<1>1. UNCHANGED <<run, sequence, emitted, wires, relay, attached, downlink, client>>
  BY DEF KillAgent, Ended
<1>2. AgentTypes' /\ WireTypes'
  <2>1. /\ queue' = <<>> /\ up' = FALSE /\ link' = 0 /\ pending' = {} /\ forgotten' = {}
        /\ Said' = Said /\ SaidWire' = SaidWire
    BY <1>1, NothingSaid DEF KillAgent, Ended
  <2>2. queue' \in Seq(Said') /\ Len(queue') <= MaxQueue
    BY <2>1, Numbers
  <2>3. AgentTypes'
    BY <1>1, <2>1, <2>2 DEF AgentTypes
  <2>4. WireTypes'
    BY <1>1, <2>1 DEF WireTypes
  <2> QED
    BY <2>3, <2>4
<1> QED
  BY <1>1, <1>2, NothingSaid, RelayStays, ClientStays

(* A connection takes the queue with it.                                   *)
LEMMA ConnectTypes == TypeInv /\ (Connect \/ Disconnect) => TypeInv'
<1> SUFFICES ASSUME TypeInv, Connect \/ Disconnect PROVE TypeInv'
  OBVIOUS
<1> USE DEF TypeInv
<1>1. UNCHANGED <<run, up, sequence, pending, forgotten, emitted, relay, attached, downlink, client>>
  BY DEF Connect, Disconnect
<1>2. RelayTypes' /\ ClientTypes'
  BY <1>1, NothingSaid, RelayStays, ClientStays
<1>3. queue' \in {queue, <<>>}
  BY DEF Connect, Disconnect
<1>4. AgentTypes'
  <2>1. Said' = Said
    BY <1>1, NothingSaid
  <2>2. queue' \in Seq(Said') /\ Len(queue') <= MaxQueue
    <3>1. CASE queue' = queue
      BY <2>1, <3>1 DEF AgentTypes
    <3>2. CASE queue' = <<>>
      BY <3>2, SizeAssumption
    <3> QED
      BY <1>3, <3>1, <3>2
  <2>3. /\ pending' \subseteq {<<run', n>> : n \in 1..sequence'}
        /\ forgotten' \subseteq {<<run', n>> : n \in 1..sequence'}
        /\ pending' \cap forgotten' = {} /\ (~up' => pending' = {} /\ forgotten' = {})
    BY <1>1 DEF AgentTypes
  <2> HIDE DEF TypeInv
  <2>4. /\ run' \in 0..MaxRuns /\ up' \in BOOLEAN /\ emitted' \in 0..MaxEvents
        /\ sequence' \in 0..emitted' /\ (up' => run' >= 1 /\ sequence' >= 1)
    BY <1>1 DEF AgentTypes, TypeInv
  <2> QED
    BY <2>2, <2>3, <2>4 DEF AgentTypes
<1>5. CASE Connect
  <2> DEFINE w == [run |-> run, frames |-> queue, open |-> TRUE]
  <2>1. w \in SaidWire
    BY <1>5, Numbers DEF Connect, SaidWire, AgentTypes
  <2>2. wires' = Append(wires, w) /\ up /\ up' /\ link' = Len(wires) + 1 /\ queue' = <<>> /\ Len(wires) < MaxLinks
    BY <1>1, <1>5 DEF Connect
  <2> HIDE DEF w
  <2>3. wires' \in Seq(SaidWire) /\ Len(wires') = Len(wires) + 1 /\ Len(wires) \in Nat
    BY <2>1, <2>2, AppendProperties DEF WireTypes
  <2>4. WireTypes'
    BY <1>1, <2>2, <2>3, NothingSaid, BoundAssumption DEF WireTypes
  <2> QED
    BY <1>2, <1>4, <2>4
<1>6. CASE Disconnect
  <2>1. WireTypes'
    BY <1>1, <1>6, NothingSaid DEF WireTypes, Disconnect
  <2> QED
    BY <1>2, <1>4, <2>1
<1> QED
  BY <1>5, <1>6

(* A connection that breaks, or whose first frame arrives.                 *)
LEMMA CutTypes ==
  ASSUME NEW w \in SaidWire
  PROVE  /\ Cut(w) \in SaidWire /\ Cut(w).frames = <<>> /\ Cut(w).run = w.run
         /\ w.frames # <<>> => [w EXCEPT !.frames = Tail(@)] \in SaidWire
<1>1. <<>> \in Seq(Said)
  OBVIOUS
<1>2. w.frames # <<>> => Tail(w.frames) \in Seq(Said)
  BY Rests DEF SaidWire
<1> QED
  BY <1>1, <1>2 DEF Cut, SaidWire

(* It breaks, and frames at its end are lost.                              *)
LEMMA BreakTypes == TypeInv /\ Break => TypeInv'
<1> SUFFICES ASSUME TypeInv, Break PROVE TypeInv'
  OBVIOUS
<1> USE DEF TypeInv
<1>1. UNCHANGED <<agent, relay, attached, downlink, client>> /\ UNCHANGED <<run, sequence, link, queue, up>>
  BY DEF Break, agent
<1>2. PICK c \in DOMAIN wires : wires' = [wires EXCEPT ![c] = Cut(@)]
  BY DEF Break
<1>3. wires \in Seq(SaidWire) /\ c \in 1..Len(wires) /\ wires[c] \in SaidWire
  BY ElementOfSeq DEF WireTypes
<1>4. wires' \in Seq(SaidWire) /\ Len(wires') = Len(wires)
  BY <1>2, <1>3, CutTypes, ExceptSeq
<1>5. WireTypes'
  BY <1>1, <1>4, NothingSaid DEF WireTypes
<1>6. AgentTypes'
  BY <1>1, NothingSaid DEF AgentTypes, agent
<1> QED
  BY <1>1, <1>5, <1>6, NothingSaid, RelayStays, ClientStays

(* A frame arrives at the relay.                                           *)
LEMMA ArriveTypes == TypeInv /\ Arrive => TypeInv'
<1> SUFFICES ASSUME TypeInv, Arrive PROVE TypeInv'
  OBVIOUS
<1> USE DEF TypeInv
<1>1. UNCHANGED <<run, sequence, link, queue, up, pending, forgotten, emitted>>
      /\ UNCHANGED <<attached, downlink, client>>
  BY DEF Arrive, agent
<1>2. PICK c \in DOMAIN wires : /\ wires[c].frames # <<>>
                                /\ inbox' = Append(inbox, Head(wires[c].frames))
                                /\ wires' = [wires EXCEPT ![c].frames = Tail(@)]
  BY DEF Arrive
<1>3. wires \in Seq(SaidWire) /\ c \in 1..Len(wires) /\ wires[c] \in SaidWire
  BY ElementOfSeq DEF WireTypes
<1> DEFINE w == [wires[c] EXCEPT !.frames = Tail(@)]
<1>4. w \in SaidWire /\ wires' = [wires EXCEPT ![c] = w]
  BY <1>2, <1>3, CutTypes
<1> HIDE DEF w
<1>5. wires' \in Seq(SaidWire) /\ Len(wires') = Len(wires)
  BY <1>3, <1>4, ExceptSeq
<1>6. WireTypes' /\ AgentTypes'
  BY <1>1, <1>5, NothingSaid DEF WireTypes, AgentTypes
<1>7. inbox' \in Seq(Said) /\ inbox' # <<>>
  <2>1. Head(wires[c].frames) \in Said /\ inbox \in Seq(Said)
    BY <1>2, <1>3, Rests DEF SaidWire, RelayTypes
  <2> QED
    BY <1>2, <2>1, AppendProperties
<1>8. UNCHANGED <<journal, written, file, kept, history, restarts, faults>>
  BY DEF Arrive
<1>9. RelayTypes'
  BY <1>1, <1>7, <1>8, NothingSaid DEF RelayTypes
<1> QED
  BY <1>1, <1>6, <1>9, NothingSaid, ClientStays

(* What an event is appended to is cut to the size of the history.         *)
LEMMA WindowTypes ==
  ASSUME NEW S, NEW s \in Seq(S), NEW e \in S
  PROVE  Window(Append(s, e)) \in Seq(S) /\ Len(Window(Append(s, e))) <= MaxHistory
BY AppendProperties, NewestIs, SizeAssumption DEF Window

(* A broadcast adds one frame of one event for a client that is attached.  *)
LEMMA BroadcastTypes ==
  ASSUME ClientTypes, NEW e \in Said, broadcastToClients(e),
         UNCHANGED <<run, sequence, attached, client>>
  PROVE  ClientTypes'
<1> DEFINE f == [kind |-> "event", events |-> <<e>>]
<1>1. f \in Frame /\ f.kind = "event" /\ Len(f.events) = 1
  BY DEF Frame
<1>2. downlink' = IF attached THEN Append(downlink, f) ELSE downlink
  BY DEF broadcastToClients
<1> HIDE DEF f
<1>3. /\ downlink' \in Seq(Frame)
      /\ \A n \in DOMAIN downlink' : /\ downlink'[n].kind = "snapshot" => n = 1
                                     /\ downlink'[n].kind = "event" => Len(downlink'[n].events) = 1
  <2>1. CASE ~attached
    BY <1>2, <2>1 DEF ClientTypes
  <2>2. CASE attached
    <3>1. /\ downlink' \in Seq(Frame) /\ Len(downlink') = Len(downlink) + 1 /\ Len(downlink) \in Nat
          /\ \A n \in 1..Len(downlink) : downlink'[n] = downlink[n]
          /\ downlink'[Len(downlink) + 1] = f
      BY <1>1, <1>2, <2>2, AppendProperties DEF ClientTypes
    <3>2. ASSUME NEW n \in DOMAIN downlink'
          PROVE  /\ downlink'[n].kind = "snapshot" => n = 1
                 /\ downlink'[n].kind = "event" => Len(downlink'[n].events) = 1
      <4>1. n \in 1..Len(downlink) \/ n = Len(downlink) + 1
        BY <3>1
      <4>2. CASE n \in 1..Len(downlink)
        BY <3>1, <4>2 DEF ClientTypes
      <4>3. CASE n = Len(downlink) + 1
        BY <1>1, <3>1, <4>3
      <4> QED
        BY <4>1, <4>2, <4>3
    <3> QED
      BY <3>1, <3>2
  <2> QED
    BY <2>1, <2>2
<1>4. attached' = attached /\ (~attached => downlink' = downlink)
  BY <1>2
<1> QED
  BY <1>3, <1>4, NothingSaid DEF ClientTypes, client

(* The relay and its clients do not change what the agent keeps.           *)
LEMMA AgentStays ==
  ASSUME AgentTypes, UNCHANGED agent
  PROVE  AgentTypes' /\ UNCHANGED <<run, sequence>>
BY NothingSaid DEF AgentTypes, agent

(* Nor those of the connections.                                           *)
LEMMA WiresStay ==
  ASSUME WireTypes, UNCHANGED <<agent, wires>>
  PROVE  WireTypes'
BY NothingSaid DEF WireTypes, agent

(* The relay's handling of an event.                                       *)
LEMMA HandleTypes == TypeInv /\ (HandleEvent \/ WriteEvent \/ PublishEvent \/ AppendFails) => TypeInv'
<1> SUFFICES ASSUME TypeInv, HandleEvent \/ WriteEvent \/ PublishEvent \/ AppendFails
             PROVE  TypeInv'
  OBVIOUS
<1> USE DEF TypeInv
<1>1. UNCHANGED <<agent, wires, attached, client>> /\ inbox # <<>> /\ journal' = journal
  BY DEF HandleEvent, WriteEvent, PublishEvent, AppendFails, RelayTypes
<1>2. AgentTypes' /\ WireTypes' /\ UNCHANGED <<run, sequence>> /\ Said' = Said
  BY <1>1, AgentStays, WiresStay, NothingSaid
<1>3. Head(inbox) \in Said /\ Tail(inbox) \in Seq(Said)
  BY <1>1, Rests DEF RelayTypes
<1>4. CASE HandleEvent
  <2>1. /\ UNCHANGED <<written, file, kept, restarts, faults>> /\ ~journal
        /\ history' = Window(Append(history, Head(inbox))) /\ broadcastToClients(Head(inbox))
        /\ inbox' = Tail(inbox)
    BY <1>4 DEF HandleEvent
  <2>2. RelayTypes'
    BY <1>1, <1>2, <1>3, <2>1, WindowTypes DEF RelayTypes
  <2> QED
    BY <1>1, <1>2, <1>3, <2>1, <2>2, BroadcastTypes
<1>5. CASE WriteEvent
  <2>1. /\ UNCHANGED <<inbox, kept, history, restarts, faults, downlink>> /\ journal
        /\ file' = Window(Append(file, Head(inbox))) /\ written' = TRUE
    BY <1>5 DEF WriteEvent
  <2>2. RelayTypes'
    BY <1>1, <1>2, <1>3, <2>1, WindowTypes DEF RelayTypes
  <2> QED
    BY <1>1, <1>2, <2>1, <2>2, NothingSaid, ClientStays
<1>6. CASE PublishEvent
  <2>1. /\ UNCHANGED <<file, restarts, faults>> /\ written' = FALSE
        /\ kept' = Window(Append(kept, Head(inbox))) /\ history' = kept'
        /\ broadcastToClients(Head(inbox)) /\ inbox' = Tail(inbox)
    BY <1>6 DEF PublishEvent
  <2>2. RelayTypes'
    BY <1>1, <1>2, <1>3, <2>1, WindowTypes DEF RelayTypes
  <2> QED
    BY <1>1, <1>2, <1>3, <2>1, <2>2, BroadcastTypes
<1>7. CASE AppendFails
  <2>1. /\ UNCHANGED <<file, history, restarts, downlink>> /\ written' = FALSE
        /\ kept' = kept \/ kept' = Window(Append(kept, Head(inbox)))
        /\ inbox' = Tail(inbox) /\ faults' = faults + 1 /\ restarts + faults < MaxFailures
    BY <1>7 DEF AppendFails
  <2>2. restarts' \in Nat /\ faults' \in Nat /\ restarts' + faults' <= MaxFailures
    BY <2>1, BoundAssumption DEF RelayTypes
  <2>3. RelayTypes'
    BY <1>1, <1>2, <1>3, <2>1, <2>2, WindowTypes DEF RelayTypes
  <2> QED
    BY <1>1, <1>2, <2>1, <2>3, NothingSaid, ClientStays
<1> QED
  BY <1>4, <1>5, <1>6, <1>7

(* The relay restarts from its file.                                       *)
LEMMA RestartTypes == TypeInv /\ RestartRelay => TypeInv'
<1> SUFFICES ASSUME TypeInv, RestartRelay PROVE TypeInv'
  OBVIOUS
<1> USE DEF TypeInv
<1>1. UNCHANGED <<agent, journal, file, faults, client>>
  BY DEF RestartRelay
<1>2. AgentTypes' /\ UNCHANGED <<run, sequence, up, link, queue>> /\ Said' = Said
      /\ SaidWire' = SaidWire /\ Frame' = Frame
  BY <1>1, AgentStays, NothingSaid DEF agent
<1>3. wires' \in Seq(SaidWire) /\ Len(wires') = Len(wires)
  <2>1. wires \in Seq(SaidWire) /\ wires' = [c \in 1..Len(wires) |-> Cut(wires[c])] /\ Len(wires) \in Nat
    BY DEF RestartRelay, WireTypes
  <2>2. \A c \in 1..Len(wires) : Cut(wires[c]) \in SaidWire
    BY <2>1, CutTypes, ElementOfSeq
  <2> QED
    BY <2>1, <2>2
<1>4. WireTypes'
  BY <1>2, <1>3 DEF WireTypes
<1>5. RelayTypes'
  <2>1. restarts' \in Nat /\ faults' \in Nat /\ restarts' + faults' <= MaxFailures
    BY <1>1, BoundAssumption DEF RestartRelay, RelayTypes
  <2>2. inbox' = <<>> /\ written' = FALSE /\ kept' = file /\ history' = file
    BY DEF RestartRelay
  <2>3. inbox' \in Seq(Said')
    BY <2>2
  <2> QED
    BY <1>1, <1>2, <2>1, <2>2, <2>3 DEF RelayTypes
<1>6. ClientTypes'
  <2>1. downlink' = <<>> /\ attached' = FALSE
    BY DEF RestartRelay
  <2>2. downlink' \in Seq(Frame') /\ DOMAIN downlink' = {}
    BY <2>1
  <2> QED
    BY <1>1, <1>2, <2>1, <2>2 DEF ClientTypes, client
<1> QED
  BY <1>2, <1>4, <1>5, <1>6

(* The client comes and goes,                                              *)
LEMMA SubscribeTypes == TypeInv /\ (Subscribe \/ Unsubscribe) => TypeInv'
<1> SUFFICES ASSUME TypeInv, Subscribe \/ Unsubscribe PROVE TypeInv'
  OBVIOUS
<1> USE DEF TypeInv
<1>1. UNCHANGED <<agent, wires, relay, state, given>>
  BY DEF Subscribe, Unsubscribe, client
<1>2. AgentTypes' /\ WireTypes' /\ UNCHANGED <<run, sequence>>
  BY <1>1, AgentStays, WiresStay
<1>3. RelayTypes'
  BY <1>1, <1>2, NothingSaid, RelayStays
<1>4. CASE Subscribe
  <2> DEFINE f == [kind |-> "snapshot", events |-> history]
  <2>1. f \in Frame /\ f.kind = "snapshot"
    BY DEF Frame, RelayTypes
  <2>2. downlink' = <<f>> /\ attached' /\ snapshots' = snapshots + 1 /\ snapshots < MaxSnapshots
        /\ attached' \in BOOLEAN
    BY <1>4 DEF Subscribe
  <2> HIDE DEF f
  <2>3. downlink' \in Seq(Frame) /\ DOMAIN downlink' = {1} /\ downlink'[1] = f
    BY <2>1, <2>2
  <2>4. snapshots' \in 0..MaxSnapshots
    BY <2>2, BoundAssumption DEF ClientTypes
  <2> QED
    BY <1>1, <1>2, <1>3, <2>1, <2>2, <2>3, <2>4, NothingSaid DEF ClientTypes
<1>5. CASE Unsubscribe
  <2>1. downlink' = <<>> /\ attached' = FALSE /\ snapshots' = snapshots
    BY <1>5 DEF Unsubscribe, client
  <2>2. downlink' \in Seq(Frame) /\ DOMAIN downlink' = {}
    BY <2>1
  <2> QED
    BY <1>1, <1>2, <1>3, <2>1, <2>2, NothingSaid DEF ClientTypes
<1> QED
  BY <1>4, <1>5

(* A frame of one event adds it to what was given; a snapshot is all that  *)
(* is given.                                                               *)
LEMMA Received ==
  ASSUME ClientTypes, Receive
  PROVE  /\ Head(downlink) = downlink[1] /\ Head(downlink) \in Frame
         /\ downlink' = Tail(downlink) /\ downlink # <<>>
         /\ Head(downlink).kind = "snapshot" => /\ given' = Head(downlink).events
                                                /\ state' = reduceEvents(given')
         /\ Head(downlink).kind = "event" =>
              /\ Head(downlink).events[1] \in Said
              /\ Head(downlink).events = <<Head(downlink).events[1]>>
              /\ given' = Append(given, Head(downlink).events[1])
              /\ state' = reduceEvent(state, Head(downlink).events[1])
         /\ given' \in Seq(Said) /\ state' = reduceEvents(given')
<1> DEFINE f == Head(downlink)
<1>1. f \in Frame /\ f = downlink[1] /\ downlink # <<>> /\ downlink' = Tail(downlink) /\ 1 \in DOMAIN downlink
  BY Rests DEF ClientTypes, Receive
<1>2. CASE f.kind = "snapshot"
  <2>1. given' = f.events /\ state' = reduceEvents(f.events)
    BY <1>2 DEF Receive
  <2> QED
    BY <1>1, <1>2, <2>1 DEF Frame
<1>3. CASE f.kind = "event"
  <2>1. Len(f.events) = 1 /\ f.events \in Seq(Said)
    BY <1>1, <1>3 DEF ClientTypes, Frame
  <2>2. f.events[1] \in Said /\ f.events = <<f.events[1]>>
    BY <2>1
  <2>3. given' = given \o f.events /\ state' = reduceEvent(state, f.events[1])
    BY <1>3 DEF Receive
  <2> DEFINE e == f.events[1]
  <2>4. e \in Said /\ f.events = <<e>>
    BY <2>2
  <2> HIDE DEF e
  <2>5. given' = Append(given, e)
    <3>1. given \in Seq(Said) /\ given' = given \o <<e>>
      BY <2>3, <2>4 DEF ClientTypes
    <3> QED
      BY <2>4, <3>1, AppendIsConcat
  <2>6. reduceEvents(given') = reduceEvent(state, e)
    BY <2>4, <2>5, ViewOfMore DEF ClientTypes
  <2>7. given' \in Seq(Said)
    BY <2>4, <2>5, AppendProperties DEF ClientTypes
  <2> QED
    BY <1>1, <1>3, <2>2, <2>3, <2>5, <2>6, <2>7 DEF e
<1> QED
  BY <1>1, <1>2, <1>3 DEF Frame

(* and reduces what it receives.                                           *)
LEMMA ReceiveTypes == TypeInv /\ Receive => TypeInv'
<1> SUFFICES ASSUME TypeInv, Receive PROVE TypeInv'
  OBVIOUS
<1> USE DEF TypeInv
<1>1. UNCHANGED <<agent, wires, relay, attached, snapshots>> /\ downlink # <<>> /\ downlink' = Tail(downlink)
  BY DEF Receive
<1>2. AgentTypes' /\ WireTypes' /\ UNCHANGED <<run, sequence>>
  BY <1>1, AgentStays, WiresStay
<1>3. RelayTypes'
  BY <1>1, <1>2, NothingSaid, RelayStays
<1>4. given' \in Seq(Said) /\ state' = reduceEvents(given')
  BY Received
<1>5. /\ downlink' \in Seq(Frame) /\ Len(downlink') = Len(downlink) - 1 /\ Len(downlink) \in Nat
      /\ \A n \in 1..Len(downlink) - 1 : downlink'[n] = downlink[n + 1]
  BY <1>1, Rests DEF ClientTypes
<1>6. ASSUME NEW n \in DOMAIN downlink'
      PROVE  /\ downlink'[n].kind = "snapshot" => n = 1
             /\ downlink'[n].kind = "event" => Len(downlink'[n].events) = 1
  <2>1. n \in 1..Len(downlink) - 1 /\ n + 1 \in DOMAIN downlink /\ n + 1 # 1
    BY <1>5
  <2> QED
    BY <1>5, <2>1 DEF ClientTypes
<1>7. attached
  BY <1>1 DEF ClientTypes
<1> QED
  BY <1>1, <1>2, <1>3, <1>4, <1>5, <1>6, <1>7, NothingSaid DEF ClientTypes

(* The types are kept.                                                     *)
LEMMA TypeStep == TypeInv /\ [Next]_vars => TypeInv'
<1> SUFFICES ASSUME TypeInv, [Next]_vars PROVE TypeInv'
  OBVIOUS
<1>1. CASE UNCHANGED vars
  BY <1>1, NothingSaid
     DEF vars, agent, relay, client, TypeInv, AgentTypes, WireTypes, RelayTypes, ClientTypes
<1>2. CASE Next
  BY <1>2, StartTypes, ReportTypesKept, RequestTypes, ResolveTypes, ForgetTypes, StopTypes, KillTypes,
     ConnectTypes, BreakTypes, ArriveTypes, HandleTypes, RestartTypes, SubscribeTypes, ReceiveTypes
     DEF Next, AgentNext, RelayNext
<1> QED
  BY <1>1, <1>2

(* Nothing has been said at first.                                         *)
LEMMA TypeInit == Init => TypeInv
<1> SUFFICES ASSUME Init PROVE TypeInv
  OBVIOUS
<1>1. /\ queue \in Seq(Said) /\ Len(queue) = 0 /\ wires \in Seq(SaidWire) /\ Len(wires) = 0
      /\ downlink \in Seq(Frame) /\ given \in Seq(Said)
  BY DEF Init
<1>2. MaxEvents \in Nat /\ MaxRuns \in Nat /\ MaxLinks \in Nat /\ MaxSnapshots \in Nat
      /\ MaxFailures \in Nat /\ MaxQueue \in Nat /\ MaxHistory \in Nat
  BY SizeAssumption, BoundAssumption
<1>3. AgentTypes
  <2>1. /\ run = 0 /\ up = FALSE /\ sequence = 0 /\ pending = {} /\ forgotten = {} /\ emitted = 0
    BY DEF Init
  <2>2. run \in 0..MaxRuns /\ emitted \in 0..MaxEvents /\ sequence \in 0..emitted
        /\ Len(queue) <= MaxQueue /\ pending \subseteq {<<run, n>> : n \in 1..sequence}
        /\ forgotten \subseteq {<<run, n>> : n \in 1..sequence}
    BY <1>1, <1>2, <2>1
  <2>3. /\ up \in BOOLEAN /\ (up => run >= 1 /\ sequence >= 1)
        /\ pending \cap forgotten = {} /\ (~up => pending = {} /\ forgotten = {})
    BY <2>1
  <2> QED
    BY <1>1, <2>2, <2>3 DEF AgentTypes
<1>4. WireTypes
  BY <1>1, <1>2 DEF Init, WireTypes
<1>5. RelayTypes
  <2>1. /\ journal \in Journals /\ written \in BOOLEAN /\ (written => journal /\ inbox # <<>>)
    BY DEF Init
  <2>2. /\ inbox \in Seq(Said) /\ file \in Seq(Said) /\ kept \in Seq(Said) /\ history \in Seq(Said)
        /\ Len(file) = 0 /\ Len(kept) = 0 /\ Len(history) = 0
    BY DEF Init
  <2>3. restarts \in Nat /\ faults \in Nat /\ restarts + faults <= MaxFailures
    BY <1>2 DEF Init
  <2> QED
    BY <1>2, <2>1, <2>2, <2>3 DEF RelayTypes
<1>6. ClientTypes
  <2>1. DOMAIN downlink = {} /\ attached = FALSE /\ downlink = <<>> /\ snapshots = 0
    BY DEF Init
  <2>2. state = reduceEvents(given)
    BY ViewOfNone DEF Init
  <2>3. attached \in BOOLEAN /\ (~attached => downlink = <<>>)
    BY <2>1
  <2>4. snapshots \in 0..MaxSnapshots
    BY <1>2, <2>1
  <2> QED
    BY <1>1, <2>1, <2>2, <2>3, <2>4 DEF ClientTypes
<1> QED
  BY <1>3, <1>4, <1>5, <1>6 DEF TypeInv

(* TypeInv says more than TypeOK.                                          *)
LEMMA TypeImplies == TypeInv => TypeOK
<1> SUFFICES ASSUME TypeInv PROVE TypeOK
  OBVIOUS
<1> USE DEF TypeInv
<1>1. Said \subseteq Event /\ Seq(Said) \subseteq Seq(Event)
  BY DEF Said, Spoken
<1>2. 1..run \subseteq 1..MaxRuns /\ 1..sequence \subseteq 1..MaxEvents
  BY Numbers
<1> DEFINE Sent == [kind : {"snapshot", "event"}, events : Seq(Event)]
<1>3. SaidWire \subseteq Wire /\ Seq(SaidWire) \subseteq Seq(Wire)
  <2>1. SaidWire \subseteq Wire
    BY <1>1, <1>2 DEF SaidWire, Wire
  <2> QED
    BY <2>1
<1>4. Frame \subseteq Sent
  BY <1>1 DEF Frame
<1>5. downlink \in Seq(Sent)
  <2> HIDE DEF Sent
  <2> QED
    BY <1>4 DEF ClientTypes
<1>6. pending \cup forgotten \subseteq (1..MaxRuns) \X (1..MaxEvents)
  <2>1. CASE up
    <3>1. run \in 1..MaxRuns
      BY <2>1, Numbers DEF AgentTypes
    <3> QED
      BY <1>2, <3>1 DEF AgentTypes
  <2>2. CASE ~up
    BY <2>2 DEF AgentTypes
  <2> QED
    BY <2>1, <2>2
<1>7. restarts \in 0..MaxFailures /\ faults \in 0..MaxFailures
  BY BoundAssumption DEF RelayTypes
<1>8. sequence \in 0..MaxEvents
  BY Numbers
<1> QED
  BY <1>1, <1>3, <1>5, <1>6, <1>7, <1>8
     DEF TypeOK, AgentTypes, WireTypes, RelayTypes, ClientTypes

(* Every variable keeps its type and every buffer its size, whatever the   *)
(* order of frames, failures and restarts.                                 *)
THEOREM PathTypes == Spec => []TypeOK
<1>1. Spec => []TypeInv
  BY TypeInit, TypeStep, PTL DEF Spec
<1> QED
  BY <1>1, TypeImplies, PTL

-----------------------------------------------------------------------------
(* What a client's view says of the events it was handed.                  *)

(* The names of events, and the shape of a view of one host.              *)
Ids == (1..MaxRuns) \X (1..MaxEvents)

ViewTypes(v) ==
  /\ DOMAIN v = {"hosts", "sessions", "approvals", "lastSequenceByHost", "recentEventIds"}
  /\ v.recentEventIds \in Seq(Ids)
  /\ DOMAIN v.hosts \subseteq {Host}
  /\ \A k \in DOMAIN v.sessions : /\ DOMAIN v.sessions[k] = {"host", "status"}
                                  /\ v.sessions[k].host = Host
  /\ \A a \in DOMAIN v.approvals : /\ DOMAIN v.approvals[a] = {"host", "session", "status"}
                                   /\ v.approvals[a].host = Host
                                   /\ v.approvals[a].session = Session

(* A start of the host that is taken for one; what is then left.           *)
Cleared(v, e) ==
  IF HostRestarted(v, e) THEN Restarted(Recorded(v, e), e.host) ELSE Recorded(v, e)

(* Two functions with the same domain and values.                          *)
LEMMA PutIs ==
  ASSUME NEW f, NEW k, NEW x
  PROVE  /\ DOMAIN Put(f, k, x) = DOMAIN f \cup {k} /\ Put(f, k, x)[k] = x
         /\ \A j \in DOMAIN f : j # k => Put(f, k, x)[j] = f[j]
BY DEF Put

(* What Recorded and Restarted do to a view.                               *)
LEMMA ClearedIs ==
  ASSUME NEW v, ViewTypes(v), NEW e \in Spoken
  PROVE  LET r == Cleared(v, e)
         IN  /\ ViewTypes(r)
             /\ r.hosts = v.hosts
             /\ r.lastSequenceByHost = Put(v.lastSequenceByHost, Host, e.sequence)
             /\ r.recentEventIds = Newest(Append(v.recentEventIds, e.eventId), MaxEventIds)
             /\ DOMAIN r.sessions = DOMAIN v.sessions /\ DOMAIN r.approvals = DOMAIN v.approvals
             /\ ~HostRestarted(v, e) => r.sessions = v.sessions /\ r.approvals = v.approvals
             /\ HostRestarted(v, e) =>
                  /\ \A k \in DOMAIN r.sessions : r.sessions[k].status = "offline"
                  /\ \A a \in DOMAIN r.approvals :
                       r.approvals[a].status =
                         IF v.approvals[a].status = "pending" THEN "cancel"
                         ELSE v.approvals[a].status
<1> DEFINE p == Recorded(v, e)
<1>1. e.host = Host /\ e.eventId \in Ids
  BY EventIs DEF Ids
<1>2. /\ DOMAIN p = DOMAIN v /\ p.hosts = v.hosts /\ p.sessions = v.sessions /\ p.approvals = v.approvals
      /\ p.lastSequenceByHost = Put(v.lastSequenceByHost, Host, e.sequence)
      /\ p.recentEventIds = Newest(Append(v.recentEventIds, e.eventId), MaxEventIds)
  BY <1>1 DEF Recorded, ViewTypes
<1>3. p.recentEventIds \in Seq(Ids)
  <2> DEFINE q == Append(v.recentEventIds, e.eventId)
  <2>1. q \in Seq(Ids)
    BY <1>1, AppendProperties DEF ViewTypes
  <2>2. MaxEventIds \in Nat
    BY SizeAssumption
  <2> HIDE DEF q
  <2>3. Newest(q, MaxEventIds) \in Seq(Ids)
    BY <2>1, <2>2, NewestIs
  <2> QED
    BY <1>2, <2>3 DEF q
<1>4. ViewTypes(p)
  BY <1>2, <1>3 DEF ViewTypes
<1> HIDE DEF p
<1>5. CASE ~HostRestarted(v, e)
  BY <1>2, <1>4, <1>5 DEF Cleared, p
<1>6. CASE HostRestarted(v, e)
  <2> DEFINE q == SessionsOffline(p, Host)
             r == PendingCancelled(q, Host)
  <2>1. Cleared(v, e) = r
    BY <1>1, <1>6 DEF Cleared, Restarted, p
  <2>2. /\ DOMAIN q = DOMAIN p /\ q.hosts = p.hosts /\ q.approvals = p.approvals
        /\ q.lastSequenceByHost = p.lastSequenceByHost /\ q.recentEventIds = p.recentEventIds
        /\ q.sessions = [k \in DOMAIN p.sessions |->
                           IF p.sessions[k].host = Host
                           THEN [p.sessions[k] EXCEPT !.status = "offline"] ELSE p.sessions[k]]
    BY <1>4 DEF SessionsOffline, ViewTypes
  <2> HIDE DEF q
  <2>3. \A k \in DOMAIN p.sessions :
          /\ q.sessions[k].status = "offline" /\ q.sessions[k].host = Host
          /\ DOMAIN q.sessions[k] = {"host", "status"}
    BY <1>4, <2>2 DEF ViewTypes
  <2>4. /\ DOMAIN r = DOMAIN q /\ r.hosts = q.hosts /\ r.sessions = q.sessions
        /\ r.lastSequenceByHost = q.lastSequenceByHost /\ r.recentEventIds = q.recentEventIds
        /\ r.approvals = [k \in DOMAIN q.approvals |->
             IF q.approvals[k].host = Host /\ q.approvals[k].status = "pending"
             THEN [q.approvals[k] EXCEPT !.status = "cancel"] ELSE q.approvals[k]]
    BY <1>4, <2>2 DEF PendingCancelled, ViewTypes
  <2> HIDE DEF r
  <2>5. \A a \in DOMAIN p.approvals :
          /\ r.approvals[a].status = IF p.approvals[a].status = "pending" THEN "cancel"
                                     ELSE p.approvals[a].status
          /\ r.approvals[a].host = Host /\ r.approvals[a].session = Session
          /\ DOMAIN r.approvals[a] = {"host", "session", "status"}
    BY <1>4, <2>2, <2>4 DEF ViewTypes
  <2>6. DOMAIN r.sessions = DOMAIN p.sessions /\ DOMAIN r.approvals = DOMAIN p.approvals
    BY <2>2, <2>4
  <2>7. ViewTypes(r)
    BY <1>4, <2>2, <2>3, <2>4, <2>5, <2>6 DEF ViewTypes
  <2>8. /\ r.hosts = v.hosts
        /\ r.lastSequenceByHost = Put(v.lastSequenceByHost, Host, e.sequence)
        /\ r.recentEventIds = Newest(Append(v.recentEventIds, e.eventId), MaxEventIds)
        /\ DOMAIN r.sessions = DOMAIN v.sessions /\ DOMAIN r.approvals = DOMAIN v.approvals
    BY <1>2, <2>2, <2>4, <2>6
  <2>9. \A k \in DOMAIN r.sessions : r.sessions[k].status = "offline"
    BY <2>3, <2>4, <2>6
  <2>10. \A a \in DOMAIN r.approvals :
           r.approvals[a].status =
             IF v.approvals[a].status = "pending" THEN "cancel" ELSE v.approvals[a].status
    BY <1>2, <2>5, <2>6
  <2> QED
    BY <1>6, <2>1, <2>7, <2>8, <2>9, <2>10
<1> QED
  BY <1>5, <1>6

(* The session an event changes, as it is or new.                          *)
LEMMA ExistingIs ==
  ASSUME NEW r, ViewTypes(r), NEW e \in Spoken
  PROVE  /\ DOMAIN existingSession(r, e) = {"host", "status"}
         /\ existingSession(r, e).host = Host
         /\ e.session \in DOMAIN r.sessions => existingSession(r, e) = r.sessions[e.session]
         /\ e.session \notin DOMAIN r.sessions => existingSession(r, e).status = "idle"
BY DEF existingSession, ViewTypes, Spoken, Event

(* A view in which only one session has another status.                    *)
LEMMA WithStatusIs ==
  ASSUME NEW r, ViewTypes(r), NEW e \in Spoken, NEW status
  PROVE  LET w == WithStatus(r, e, status)
         IN  /\ ViewTypes(w)
             /\ w.hosts = r.hosts /\ w.approvals = r.approvals
             /\ w.lastSequenceByHost = r.lastSequenceByHost /\ w.recentEventIds = r.recentEventIds
             /\ DOMAIN w.sessions = DOMAIN r.sessions \cup {e.session}
             /\ w.sessions[e.session].status = status
             /\ \A k \in DOMAIN r.sessions : k # e.session => w.sessions[k] = r.sessions[k]
<1> DEFINE x == [existingSession(r, e) EXCEPT !.status = status]
           w == WithStatus(r, e, status)
<1>1. DOMAIN x = {"host", "status"} /\ x.host = Host /\ x.status = status
  BY ExistingIs
<1>2. w = [r EXCEPT !.sessions = Put(@, e.session, x)]
  BY DEF WithStatus
<1> HIDE DEF x, w
<1>3. /\ DOMAIN w = DOMAIN r /\ w.hosts = r.hosts /\ w.approvals = r.approvals
      /\ w.lastSequenceByHost = r.lastSequenceByHost /\ w.recentEventIds = r.recentEventIds
      /\ w.sessions = Put(r.sessions, e.session, x)
  BY <1>2 DEF ViewTypes
<1>4. /\ DOMAIN w.sessions = DOMAIN r.sessions \cup {e.session} /\ w.sessions[e.session] = x
      /\ \A k \in DOMAIN r.sessions : k # e.session => w.sessions[k] = r.sessions[k]
  BY <1>3, PutIs DEF Put
<1>5. ViewTypes(w)
  BY <1>1, <1>3, <1>4 DEF ViewTypes
<1> QED
  BY <1>1, <1>3, <1>4, <1>5 DEF w

(* A view in which only the host is seen.                                  *)
LEMMA SeenIs ==
  ASSUME NEW r, ViewTypes(r), NEW e \in Spoken, NEW online
  PROVE  LET w == Seen(r, e, online)
         IN  /\ ViewTypes(w)
             /\ w.sessions = r.sessions /\ w.approvals = r.approvals
             /\ w.lastSequenceByHost = r.lastSequenceByHost /\ w.recentEventIds = r.recentEventIds
             /\ DOMAIN w.hosts = DOMAIN r.hosts
             /\ Host \in DOMAIN r.hosts => w.hosts[Host].lastSeenAt = e.at
<1>1. e.host = Host
  BY DEF Spoken, Event
<1>2. CASE Host \notin DOMAIN r.hosts
  BY <1>1, <1>2 DEF Seen
<1>3. CASE Host \in DOMAIN r.hosts
  <2> DEFINE x == [online |-> online, lastSeenAt |-> e.at]
             w == Seen(r, e, online)
  <2>1. w = [r EXCEPT !.hosts = Put(@, Host, x)] /\ x.lastSeenAt = e.at
    BY <1>1, <1>3 DEF Seen
  <2> HIDE DEF x, w
  <2>2. /\ DOMAIN w = DOMAIN r /\ w.sessions = r.sessions /\ w.approvals = r.approvals
        /\ w.lastSequenceByHost = r.lastSequenceByHost /\ w.recentEventIds = r.recentEventIds
        /\ w.hosts = Put(r.hosts, Host, x)
    BY <2>1 DEF ViewTypes
  <2>3. DOMAIN w.hosts = DOMAIN r.hosts /\ w.hosts[Host] = x
    BY <1>3, <2>2, PutIs DEF Put
  <2>4. ViewTypes(w)
    BY <2>2, <2>3 DEF ViewTypes
  <2> QED
    BY <2>1, <2>2, <2>3, <2>4 DEF w
<1> QED
  BY <1>2, <1>3

(* A host is connected.                                                    *)
LEMMA ConnectedIs ==
  ASSUME NEW r, ViewTypes(r), NEW e \in Spoken
  PROVE  LET w == Connected(r, e)
         IN  /\ ViewTypes(w)
             /\ w.sessions = r.sessions /\ w.approvals = r.approvals
             /\ w.lastSequenceByHost = r.lastSequenceByHost /\ w.recentEventIds = r.recentEventIds
             /\ DOMAIN w.hosts = {Host} /\ w.hosts[Host].lastSeenAt = e.at
<1>1. e.host = Host
  BY DEF Spoken, Event
<1> DEFINE x == [online |-> TRUE, lastSeenAt |-> e.at]
           w == Connected(r, e)
<1>2. w = [r EXCEPT !.hosts = Put(@, Host, x)] /\ x.lastSeenAt = e.at
  BY <1>1 DEF Connected
<1> HIDE DEF x, w
<1>3. /\ DOMAIN w = DOMAIN r /\ w.sessions = r.sessions /\ w.approvals = r.approvals
      /\ w.lastSequenceByHost = r.lastSequenceByHost /\ w.recentEventIds = r.recentEventIds
      /\ w.hosts = Put(r.hosts, Host, x)
  BY <1>2 DEF ViewTypes
<1>4. DOMAIN w.hosts = {Host} /\ w.hosts[Host] = x
  BY <1>3, PutIs DEF Put, ViewTypes
<1>5. ViewTypes(w)
  BY <1>3, <1>4 DEF ViewTypes
<1> QED
  BY <1>2, <1>3, <1>4, <1>5 DEF w

(* The sessions of a host that goes offline.                               *)
LEMMA OfflineIs ==
  ASSUME NEW r, ViewTypes(r)
  PROVE  LET w == SessionsOffline(r, Host)
         IN  /\ ViewTypes(w)
             /\ w.hosts = r.hosts /\ w.approvals = r.approvals
             /\ w.lastSequenceByHost = r.lastSequenceByHost /\ w.recentEventIds = r.recentEventIds
             /\ DOMAIN w.sessions = DOMAIN r.sessions
             /\ \A k \in DOMAIN w.sessions : w.sessions[k].status = "offline"
<1> DEFINE w == SessionsOffline(r, Host)
<1>1. /\ DOMAIN w = DOMAIN r /\ w.hosts = r.hosts /\ w.approvals = r.approvals
      /\ w.lastSequenceByHost = r.lastSequenceByHost /\ w.recentEventIds = r.recentEventIds
      /\ w.sessions = [k \in DOMAIN r.sessions |->
                         IF r.sessions[k].host = Host
                         THEN [r.sessions[k] EXCEPT !.status = "offline"] ELSE r.sessions[k]]
  BY DEF SessionsOffline, ViewTypes
<1> HIDE DEF w
<1>2. \A k \in DOMAIN r.sessions :
        /\ w.sessions[k].status = "offline" /\ w.sessions[k].host = Host
        /\ DOMAIN w.sessions[k] = {"host", "status"}
  BY <1>1 DEF ViewTypes
<1>3. ViewTypes(w)
  BY <1>1, <1>2 DEF ViewTypes
<1> QED
  BY <1>1, <1>2, <1>3 DEF w

(* A session as the host describes it.                                     *)
LEMMA UpsertedIs ==
  ASSUME NEW r, ViewTypes(r), NEW e \in Spoken
  PROVE  LET w == Upserted(r, e)
         IN  /\ ViewTypes(w)
             /\ w.hosts = r.hosts /\ w.approvals = r.approvals
             /\ w.lastSequenceByHost = r.lastSequenceByHost /\ w.recentEventIds = r.recentEventIds
             /\ DOMAIN w.sessions = DOMAIN r.sessions \cup {e.session}
             /\ w.sessions[e.session].status = e.value
             /\ \A k \in DOMAIN r.sessions : k # e.session => w.sessions[k] = r.sessions[k]
<1> DEFINE x == [host |-> e.host, status |-> e.value]
           w == Upserted(r, e)
<1>1. DOMAIN x = {"host", "status"} /\ x.host = Host /\ x.status = e.value
  BY DEF Spoken, Event
<1>2. w = [r EXCEPT !.sessions = Put(@, e.session, x)]
  BY DEF Upserted
<1> HIDE DEF x, w
<1>3. /\ DOMAIN w = DOMAIN r /\ w.hosts = r.hosts /\ w.approvals = r.approvals
      /\ w.lastSequenceByHost = r.lastSequenceByHost /\ w.recentEventIds = r.recentEventIds
      /\ w.sessions = Put(r.sessions, e.session, x)
  BY <1>2 DEF ViewTypes
<1>4. /\ DOMAIN w.sessions = DOMAIN r.sessions \cup {e.session} /\ w.sessions[e.session] = x
      /\ \A k \in DOMAIN r.sessions : k # e.session => w.sessions[k] = r.sessions[k]
  BY <1>3, PutIs DEF Put
<1>5. ViewTypes(w)
  BY <1>1, <1>3, <1>4 DEF ViewTypes
<1> QED
  BY <1>1, <1>3, <1>4, <1>5 DEF w

(* An approval that is asked for, and its session that waits.              *)
LEMMA RequestedIs ==
  ASSUME NEW r, ViewTypes(r), NEW e \in Spoken, e.type = "approval.requested"
  PROVE  LET w == Requested(r, e)
         IN  /\ ViewTypes(w)
             /\ w.hosts = r.hosts
             /\ w.lastSequenceByHost = r.lastSequenceByHost /\ w.recentEventIds = r.recentEventIds
             /\ DOMAIN w.approvals = DOMAIN r.approvals \cup {e.subject}
             /\ w.approvals[e.subject].status = "pending"
             /\ \A a \in DOMAIN r.approvals : a # e.subject => w.approvals[a] = r.approvals[a]
             /\ \A k \in DOMAIN r.sessions : k # Session => w.sessions[k] = r.sessions[k]
             /\ DOMAIN w.sessions = DOMAIN r.sessions \cup {Session}
<1>1. e.host = Host /\ e.session = Session
  BY DEF Spoken, Event
<1> DEFINE x == [host |-> e.host, session |-> e.session, status |-> "pending"]
           p == [r EXCEPT !.approvals = Put(@, e.subject, x)]
           w == WithStatus(p, e, "waiting_approval")
<1>2. DOMAIN x = {"host", "session", "status"} /\ x.host = Host /\ x.session = Session /\ x.status = "pending"
  BY <1>1
<1>3. Requested(r, e) = w
  BY DEF Requested
<1> HIDE DEF x
<1>4. /\ DOMAIN p = DOMAIN r /\ p.hosts = r.hosts /\ p.sessions = r.sessions
      /\ p.lastSequenceByHost = r.lastSequenceByHost /\ p.recentEventIds = r.recentEventIds
      /\ p.approvals = Put(r.approvals, e.subject, x)
  BY DEF ViewTypes
<1> HIDE DEF p
<1>5. /\ DOMAIN p.approvals = DOMAIN r.approvals \cup {e.subject} /\ p.approvals[e.subject] = x
      /\ \A a \in DOMAIN r.approvals : a # e.subject => p.approvals[a] = r.approvals[a]
  BY <1>4, PutIs DEF Put
<1>6. ViewTypes(p)
  BY <1>2, <1>4, <1>5 DEF ViewTypes
<1>7. /\ ViewTypes(w) /\ w.hosts = p.hosts /\ w.approvals = p.approvals
      /\ w.lastSequenceByHost = p.lastSequenceByHost /\ w.recentEventIds = p.recentEventIds
      /\ DOMAIN w.sessions = DOMAIN p.sessions \cup {Session}
      /\ \A k \in DOMAIN p.sessions : k # Session => w.sessions[k] = p.sessions[k]
  BY <1>1, <1>6, WithStatusIs
<1> HIDE DEF w
<1> QED
  BY <1>2, <1>3, <1>4, <1>5, <1>7

(* A decision, and the session that waited for it.                         *)
LEMMA ResolvedIs ==
  ASSUME NEW r, ViewTypes(r), NEW e \in Spoken, e.subject \in DOMAIN r.approvals
  PROVE  LET w == Resolved(r, e)
         IN  /\ ViewTypes(w)
             /\ w.hosts = r.hosts
             /\ w.lastSequenceByHost = r.lastSequenceByHost /\ w.recentEventIds = r.recentEventIds
             /\ DOMAIN w.approvals = DOMAIN r.approvals
             /\ w.approvals[e.subject].status = e.value
             /\ \A a \in DOMAIN r.approvals : a # e.subject => w.approvals[a] = r.approvals[a]
             /\ DOMAIN w.sessions = DOMAIN r.sessions
             /\ \A k \in DOMAIN r.sessions : k # Session => w.sessions[k] = r.sessions[k]
             /\ Session \in DOMAIN r.sessions => w.sessions[Session].status # "waiting_approval"
<1> DEFINE p == [r EXCEPT !.approvals[e.subject].status = e.value]
           waiting == /\ Session \in DOMAIN r.sessions
                      /\ r.sessions[Session].status = "waiting_approval"
           moved == IF e.value = "approve_once" THEN "running" ELSE "interrupted"
           w == IF waiting THEN [p EXCEPT !.sessions[Session].status = moved] ELSE p
<1>1. r.approvals[e.subject].session = Session
  BY DEF ViewTypes
<1>2. Resolved(r, e) = w
  BY <1>1 DEF Resolved
<1>3. /\ DOMAIN p = DOMAIN r /\ p.hosts = r.hosts /\ p.sessions = r.sessions
      /\ p.lastSequenceByHost = r.lastSequenceByHost /\ p.recentEventIds = r.recentEventIds
      /\ p.approvals = [r.approvals EXCEPT ![e.subject].status = e.value]
  BY DEF ViewTypes
<1> HIDE DEF p
<1>4. /\ DOMAIN p.approvals = DOMAIN r.approvals
      /\ p.approvals[e.subject] = [r.approvals[e.subject] EXCEPT !.status = e.value]
      /\ \A a \in DOMAIN r.approvals : a # e.subject => p.approvals[a] = r.approvals[a]
  BY <1>3
<1>5. /\ DOMAIN p.approvals[e.subject] = {"host", "session", "status"}
      /\ p.approvals[e.subject].host = Host /\ p.approvals[e.subject].session = Session
      /\ p.approvals[e.subject].status = e.value
  BY <1>4 DEF ViewTypes
<1>6. ViewTypes(p)
  BY <1>3, <1>4, <1>5 DEF ViewTypes
<1>7. CASE ~waiting
  BY <1>2, <1>3, <1>4, <1>5, <1>6, <1>7
<1>8. CASE waiting
  <2>1. moved # "waiting_approval"
    OBVIOUS
  <2> HIDE DEF moved
  <2> DEFINE q == [p EXCEPT !.sessions[Session].status = moved]
  <2>2. /\ DOMAIN q = DOMAIN p /\ q.hosts = p.hosts /\ q.approvals = p.approvals
        /\ q.lastSequenceByHost = p.lastSequenceByHost /\ q.recentEventIds = p.recentEventIds
        /\ q.sessions = [p.sessions EXCEPT ![Session].status = moved]
    BY <1>6 DEF ViewTypes
  <2>3. w = q
    BY <1>8
  <2> HIDE DEF q
  <2>4. /\ DOMAIN q.sessions = DOMAIN p.sessions
        /\ q.sessions[Session] = [p.sessions[Session] EXCEPT !.status = moved]
        /\ \A k \in DOMAIN p.sessions : k # Session => q.sessions[k] = p.sessions[k]
    BY <1>3, <1>8, <2>2
  <2>5. /\ DOMAIN q.sessions[Session] = {"host", "status"} /\ q.sessions[Session].host = Host
        /\ q.sessions[Session].status = moved
    BY <1>3, <1>6, <1>8, <2>4 DEF ViewTypes
  <2>6. ViewTypes(q)
    BY <1>6, <2>2, <2>4, <2>5 DEF ViewTypes
  <2> QED
    BY <1>2, <1>3, <1>4, <1>5, <2>1, <2>2, <2>3, <2>4, <2>5, <2>6
<1> QED
  BY <1>7, <1>8

(* The reports that tell the status of a session.                          *)
StatusTypes == {"session.upserted", "session.status.changed"}

(* Where a view shows the session k as waiting, r is what it was before.   *)
WaitsFrom(w, r, e, k) ==
  w.sessions[k].status = "waiting_approval" =>
    \/ e.type = "approval.requested" /\ k = Session
    \/ /\ e.type \in StatusTypes /\ e.session = Session /\ k = Session
       /\ e.value = "waiting_approval"
    \/ /\ k \in DOMAIN r.sessions /\ r.sessions[k].status = "waiting_approval"
       /\ e.type # "host.disconnected"
       /\ e.type \in StatusTypes /\ e.session = Session => k # Session
       /\ e.type = "approval.resolved" /\ e.subject \in DOMAIN r.approvals => k # Session

(* The switch over the types of events.                                    *)
LEMMA AppliedIs ==
  ASSUME NEW r, ViewTypes(r), NEW e \in Spoken
  PROVE  LET w == Applied(r, e)
         IN  /\ ViewTypes(w)
             /\ w.lastSequenceByHost = r.lastSequenceByHost /\ w.recentEventIds = r.recentEventIds
             /\ e.type = "host.connected" => DOMAIN w.hosts = {Host} /\ w.hosts[Host].lastSeenAt = e.at
             /\ e.type # "host.connected" =>
                  /\ DOMAIN w.hosts = DOMAIN r.hosts
                  /\ Host \in DOMAIN r.hosts => w.hosts[Host].lastSeenAt \in {r.hosts[Host].lastSeenAt, e.at}
             /\ e.type = "approval.requested" =>
                  /\ DOMAIN w.approvals = DOMAIN r.approvals \cup {e.subject}
                  /\ w.approvals[e.subject].status = "pending"
                  /\ \A a \in DOMAIN r.approvals : a # e.subject => w.approvals[a] = r.approvals[a]
             /\ e.type = "approval.resolved" /\ e.subject \in DOMAIN r.approvals =>
                  /\ DOMAIN w.approvals = DOMAIN r.approvals
                  /\ w.approvals[e.subject].status = e.value
                  /\ \A a \in DOMAIN r.approvals : a # e.subject => w.approvals[a] = r.approvals[a]
             /\ ~(e.type = "approval.requested"
                  \/ (e.type = "approval.resolved" /\ e.subject \in DOMAIN r.approvals))
                  => w.approvals = r.approvals
             /\ \A k \in DOMAIN w.sessions : WaitsFrom(w, r, e, k)
<1> DEFINE w == Applied(r, e)
<1>1. e.host = Host /\ e.type \in EventTypes /\ e.session \in {Session, NoSession}
  BY DEF Spoken, Event
<1>2. CASE e.type = "host.connected"
  <2>1. w = Connected(r, e)
    BY <1>2 DEF Applied
  <2> HIDE DEF w
  <2> QED
    BY <1>2, <2>1, ConnectedIs DEF w, WaitsFrom, StatusTypes
<1>3. CASE e.type = "host.heartbeat"
  <2> DEFINE p == Seen(r, e, TRUE)
  <2>1. w = p
    BY <1>3 DEF Applied
  <2>a. /\ ViewTypes(p) /\ p.sessions = r.sessions /\ p.approvals = r.approvals
        /\ p.lastSequenceByHost = r.lastSequenceByHost /\ p.recentEventIds = r.recentEventIds
        /\ DOMAIN p.hosts = DOMAIN r.hosts
        /\ Host \in DOMAIN r.hosts => p.hosts[Host].lastSeenAt = e.at
    BY SeenIs
  <2> HIDE DEF p
  <2>2. /\ ViewTypes(w) /\ w.sessions = r.sessions /\ w.approvals = r.approvals
        /\ w.lastSequenceByHost = r.lastSequenceByHost /\ w.recentEventIds = r.recentEventIds
        /\ DOMAIN w.hosts = DOMAIN r.hosts
        /\ Host \in DOMAIN r.hosts => w.hosts[Host].lastSeenAt = e.at
    BY <2>1, <2>a
  <2> HIDE DEF w
  <2>3. e.type # "host.connected" /\ e.type # "approval.requested"
        /\ e.type # "approval.resolved" /\ e.type # "host.disconnected"
    BY <1>3
  <2>4. \A k \in DOMAIN w.sessions : WaitsFrom(w, r, e, k)
    BY <1>3, <2>2 DEF WaitsFrom, StatusTypes
  <2> QED
    BY <2>2, <2>3, <2>4 DEF w
<1>4. CASE e.type = "host.disconnected"
  <2> DEFINE p == Seen(r, e, FALSE)
  <2>1. w = SessionsOffline(p, Host)
    BY <1>1, <1>4 DEF Applied
  <2>2. /\ ViewTypes(p)
        /\ p.sessions = r.sessions /\ p.approvals = r.approvals
        /\ p.lastSequenceByHost = r.lastSequenceByHost /\ p.recentEventIds = r.recentEventIds
        /\ DOMAIN p.hosts = DOMAIN r.hosts
        /\ Host \in DOMAIN r.hosts => p.hosts[Host].lastSeenAt = e.at
    BY SeenIs
  <2> HIDE DEF p
  <2>3. /\ ViewTypes(w) /\ w.hosts = p.hosts /\ w.approvals = p.approvals
        /\ w.lastSequenceByHost = p.lastSequenceByHost /\ w.recentEventIds = p.recentEventIds
        /\ \A k \in DOMAIN w.sessions : w.sessions[k].status = "offline"
    BY <2>1, <2>2, OfflineIs
  <2> HIDE DEF w
  <2> QED
    BY <1>4, <2>2, <2>3 DEF w, WaitsFrom, StatusTypes
<1>5. CASE e.type = "session.upserted" /\ e.session # NoSession
  <2>1. w = Upserted(r, e)
    BY <1>5 DEF Applied
  <2>2. e.session = Session
    BY <1>1, <1>5
  <2> HIDE DEF w
  <2>3. /\ ViewTypes(w)
        /\ w.hosts = r.hosts /\ w.approvals = r.approvals
        /\ w.lastSequenceByHost = r.lastSequenceByHost /\ w.recentEventIds = r.recentEventIds
        /\ DOMAIN w.sessions = DOMAIN r.sessions \cup {e.session}
        /\ w.sessions[e.session].status = e.value
        /\ \A k \in DOMAIN r.sessions : k # e.session => w.sessions[k] = r.sessions[k]
    BY <2>1, UpsertedIs
  <2> QED
    BY <1>5, <2>2, <2>3 DEF w, WaitsFrom, StatusTypes
<1>6. CASE e.type = "session.status.changed" /\ e.session # NoSession
  <2>1. w = WithStatus(r, e, e.value)
    BY <1>6 DEF Applied
  <2>2. e.session = Session
    BY <1>1, <1>6
  <2> HIDE DEF w
  <2>3. /\ ViewTypes(w)
        /\ w.hosts = r.hosts /\ w.approvals = r.approvals
        /\ w.lastSequenceByHost = r.lastSequenceByHost /\ w.recentEventIds = r.recentEventIds
        /\ DOMAIN w.sessions = DOMAIN r.sessions \cup {e.session}
        /\ w.sessions[e.session].status = e.value
        /\ \A k \in DOMAIN r.sessions : k # e.session => w.sessions[k] = r.sessions[k]
    BY <2>1, WithStatusIs
  <2> QED
    BY <1>6, <2>2, <2>3 DEF w, WaitsFrom, StatusTypes
<1>7. CASE e.type = "session.content" /\ e.session # NoSession
  <2> DEFINE status == existingSession(r, e).status
  <2>1. w = WithStatus(r, e, status)
    BY <1>7 DEF Applied
  <2>2. status = "waiting_approval" =>
          e.session \in DOMAIN r.sessions /\ r.sessions[e.session].status = "waiting_approval"
    BY ExistingIs
  <2> HIDE DEF w, status
  <2>3. /\ ViewTypes(w)
        /\ w.hosts = r.hosts /\ w.approvals = r.approvals
        /\ w.lastSequenceByHost = r.lastSequenceByHost /\ w.recentEventIds = r.recentEventIds
        /\ DOMAIN w.sessions = DOMAIN r.sessions \cup {e.session}
        /\ w.sessions[e.session].status = status
        /\ \A k \in DOMAIN r.sessions : k # e.session => w.sessions[k] = r.sessions[k]
    BY <2>1, WithStatusIs
  <2> QED
    BY <1>7, <2>2, <2>3 DEF w, WaitsFrom, StatusTypes
<1>8. CASE e.type = "approval.requested"
  <2>1. w = Requested(r, e)
    <3>1. e.session # NoSession
      BY <1>8, NameAssumption DEF Spoken
    <3> QED
      BY <1>8, <3>1 DEF Applied
  <2> HIDE DEF w
  <2>2. /\ ViewTypes(w)
        /\ w.hosts = r.hosts
        /\ w.lastSequenceByHost = r.lastSequenceByHost /\ w.recentEventIds = r.recentEventIds
        /\ DOMAIN w.approvals = DOMAIN r.approvals \cup {e.subject}
        /\ w.approvals[e.subject].status = "pending"
        /\ \A a \in DOMAIN r.approvals : a # e.subject => w.approvals[a] = r.approvals[a]
        /\ \A k \in DOMAIN r.sessions : k # Session => w.sessions[k] = r.sessions[k]
        /\ DOMAIN w.sessions = DOMAIN r.sessions \cup {Session}
    BY <1>8, <2>1, RequestedIs
  <2> QED
    BY <1>8, <2>2 DEF w, WaitsFrom, StatusTypes
<1>9. CASE e.type = "approval.resolved" /\ e.subject \in DOMAIN r.approvals
  <2>1. w = Resolved(r, e)
    BY <1>9 DEF Applied
  <2> HIDE DEF w
  <2>2. /\ ViewTypes(w)
        /\ w.hosts = r.hosts
        /\ w.lastSequenceByHost = r.lastSequenceByHost /\ w.recentEventIds = r.recentEventIds
        /\ DOMAIN w.approvals = DOMAIN r.approvals
        /\ w.approvals[e.subject].status = e.value
        /\ \A a \in DOMAIN r.approvals : a # e.subject => w.approvals[a] = r.approvals[a]
        /\ DOMAIN w.sessions = DOMAIN r.sessions
        /\ \A k \in DOMAIN r.sessions : k # Session => w.sessions[k] = r.sessions[k]
        /\ Session \in DOMAIN r.sessions => w.sessions[Session].status # "waiting_approval"
    BY <1>9, <2>1, ResolvedIs
  <2> QED
    BY <1>9, <2>2 DEF w, WaitsFrom, StatusTypes
<1>10. CASE \/ e.type \in {"session.upserted", "session.status.changed", "session.content"}
                /\ e.session = NoSession
            \/ e.type = "approval.resolved" /\ e.subject \notin DOMAIN r.approvals
  <2>1. w = r
    BY <1>10 DEF Applied
  <2> HIDE DEF w
  <2>2. e.type # "host.disconnected" /\ e.type # "host.connected" /\ e.type # "approval.requested"
        /\ ~(e.type = "approval.resolved" /\ e.subject \in DOMAIN r.approvals)
        /\ ~(e.type \in StatusTypes /\ e.session = Session)
    BY <1>10, NameAssumption DEF StatusTypes
  <2>3. \A k \in DOMAIN w.sessions : WaitsFrom(w, r, e, k)
    BY <2>1, <2>2 DEF WaitsFrom
  <2> QED
    BY <2>1, <2>2, <2>3 DEF w
<1> QED
  BY <1>1, <1>2, <1>3, <1>4, <1>5, <1>6, <1>7, <1>8, <1>9, <1>10 DEF EventTypes

(* An event that is not ignored.                                           *)
LEMMA ReducedIs ==
  ASSUME NEW v, ViewTypes(v), NEW e \in Spoken, ~Ignored(v, e)
  PROVE  LET w == reduceEvent(v, e)
             r == Cleared(v, e)
         IN  /\ ViewTypes(w)
             /\ w.lastSequenceByHost = Put(v.lastSequenceByHost, Host, e.sequence)
             /\ w.recentEventIds = Newest(Append(v.recentEventIds, e.eventId), MaxEventIds)
             /\ e.type = "host.connected" => DOMAIN w.hosts = {Host} /\ w.hosts[Host].lastSeenAt = e.at
             /\ e.type # "host.connected" =>
                  /\ DOMAIN w.hosts = DOMAIN v.hosts
                  /\ Host \in DOMAIN v.hosts => w.hosts[Host].lastSeenAt \in {v.hosts[Host].lastSeenAt, e.at}
             /\ e.type = "approval.requested" =>
                  /\ DOMAIN w.approvals = DOMAIN r.approvals \cup {e.subject}
                  /\ w.approvals[e.subject].status = "pending"
                  /\ \A a \in DOMAIN r.approvals : a # e.subject => w.approvals[a] = r.approvals[a]
             /\ e.type = "approval.resolved" /\ e.subject \in DOMAIN r.approvals =>
                  /\ DOMAIN w.approvals = DOMAIN r.approvals
                  /\ w.approvals[e.subject].status = e.value
                  /\ \A a \in DOMAIN r.approvals : a # e.subject => w.approvals[a] = r.approvals[a]
             /\ ~(e.type = "approval.requested"
                  \/ (e.type = "approval.resolved" /\ e.subject \in DOMAIN r.approvals))
                  => w.approvals = r.approvals
             /\ \A k \in DOMAIN w.sessions : WaitsFrom(w, r, e, k)
<1> DEFINE r == Cleared(v, e)
<1>1. reduceEvent(v, e) = Applied(r, e)
  BY DEF reduceEvent, Cleared
<1>2. /\ ViewTypes(r) /\ r.hosts = v.hosts
      /\ r.lastSequenceByHost = Put(v.lastSequenceByHost, Host, e.sequence)
      /\ r.recentEventIds = Newest(Append(v.recentEventIds, e.eventId), MaxEventIds)
  BY ClearedIs
<1> HIDE DEF r
<1>3. /\ ViewTypes(Applied(r, e))
      /\ Applied(r, e).lastSequenceByHost = Put(v.lastSequenceByHost, Host, e.sequence)
      /\ Applied(r, e).recentEventIds = Newest(Append(v.recentEventIds, e.eventId), MaxEventIds)
  BY <1>2, AppliedIs
<1> QED
  BY <1>1, <1>2, <1>3, AppliedIs DEF r

(* The events of a sequence that a client does not ignore.                 *)
TakenOf(s) == {n \in DOMAIN s : ~Ignored(reduceEvents(SubSeq(s, 1, n - 1)), s[n])}

(* One event more is taken or not, and changes nothing for those before.   *)
LEMMA TakenGrows ==
  ASSUME NEW s \in Seq(Spoken), NEW e \in Spoken
  PROVE  LET t == Append(s, e)
         IN  /\ t \in Seq(Spoken) /\ Len(t) = Len(s) + 1 /\ Len(s) \in Nat
             /\ t[Len(s) + 1] = e /\ \A n \in 1..Len(s) : t[n] = s[n]
             /\ TakenOf(s) \subseteq 1..Len(s)
             /\ Ignored(reduceEvents(s), e) => /\ TakenOf(t) = TakenOf(s)
                                               /\ reduceEvents(t) = reduceEvents(s)
             /\ ~Ignored(reduceEvents(s), e) => /\ TakenOf(t) = TakenOf(s) \cup {Len(s) + 1}
                                                /\ reduceEvents(t) = reduceEvent(reduceEvents(s), e)
<1> DEFINE t == Append(s, e)
           N == Len(s) + 1
<1>1. /\ t \in Seq(Spoken) /\ Len(t) = N /\ Len(s) \in Nat
      /\ t[N] = e /\ \A n \in 1..Len(s) : t[n] = s[n]
  BY AppendProperties
<1>2. reduceEvents(t) = reduceEvent(reduceEvents(s), e)
  BY ViewOfMore
<1> HIDE DEF t
<1>3. ASSUME NEW n \in 1..N PROVE SubSeq(t, 1, n - 1) = SubSeq(s, 1, n - 1)
  <2>1. n - 1 \in 0..Len(s) /\ n - 1 \in 0..Len(t)
    BY <1>1
  <2>2. /\ SubSeq(s, 1, n - 1) \in Seq(Spoken) /\ Len(SubSeq(s, 1, n - 1)) = n - 1
        /\ \A i \in 1..n - 1 : SubSeq(s, 1, n - 1)[i] = s[i]
    BY <2>1, Fronts
  <2>3. /\ SubSeq(t, 1, n - 1) \in Seq(Spoken) /\ Len(SubSeq(t, 1, n - 1)) = n - 1
        /\ \A i \in 1..n - 1 : SubSeq(t, 1, n - 1)[i] = t[i]
    BY <1>1, <2>1, Fronts
  <2>4. \A i \in 1..n - 1 : SubSeq(t, 1, n - 1)[i] = SubSeq(s, 1, n - 1)[i]
    BY <1>1, <2>2, <2>3
  <2> QED
    BY <2>2, <2>3, <2>4, SeqEqual
<1>4. DOMAIN s = 1..Len(s) /\ DOMAIN t = 1..N /\ 1..N = 1..Len(s) \cup {N}
  BY <1>1
<1>5. \A n \in 1..Len(s) : n \in TakenOf(t) <=> n \in TakenOf(s)
  BY <1>1, <1>3, <1>4 DEF TakenOf
<1>6. SubSeq(s, 1, N - 1) = s
  BY <1>1, Fronts
<1>7. N \in TakenOf(t) <=> ~Ignored(reduceEvents(s), e)
  BY <1>1, <1>3, <1>4, <1>6 DEF TakenOf
<1>8. TakenOf(s) \subseteq 1..Len(s) /\ TakenOf(t) \subseteq 1..N
  BY <1>4 DEF TakenOf
<1>9. CASE Ignored(reduceEvents(s), e)
  <2>1. reduceEvents(t) = reduceEvents(s)
    BY <1>2, <1>9 DEF reduceEvent
  <2>2. TakenOf(t) = TakenOf(s)
    BY <1>4, <1>5, <1>7, <1>8, <1>9
  <2> QED
    BY <1>1, <1>8, <1>9, <2>1, <2>2 DEF t
<1>10. CASE ~Ignored(reduceEvents(s), e)
  <2>1. TakenOf(t) = TakenOf(s) \cup {N}
    BY <1>4, <1>5, <1>7, <1>8, <1>10
  <2> QED
    BY <1>1, <1>2, <1>8, <1>10, <2>1 DEF t
<1> QED
  BY <1>9, <1>10

(* What is remembered of the ids, of the numbers and of the host.          *)
IdsKnown(s) ==
  LET ids == reduceEvents(s).recentEventIds
  IN  \A i \in DOMAIN ids : \E n \in DOMAIN s : s[n].eventId = ids[i]

LastKnown(s) ==
  /\ TakenOf(s) = {} => reduceEvents(s) = createEmptyState
  /\ TakenOf(s) # {} =>
       \E n \in TakenOf(s) : /\ \A m \in TakenOf(s) : m <= n
                             /\ LastSequence(reduceEvents(s), Host) = s[n].sequence

HostKnown(s) ==
  LET hosts == reduceEvents(s).hosts
  IN  /\ Host \in DOMAIN hosts <=> \E n \in TakenOf(s) : s[n].type = "host.connected"
      /\ Host \in DOMAIN hosts => \E n \in TakenOf(s) : s[n].at = hosts[Host].lastSeenAt

(* What was taken last of an approval is what is shown of it.              *)
Verdicts(s, n, a) == {m \in TakenOf(s) : /\ m > n
                                         /\ s[m].type = "approval.resolved"
                                         /\ s[m].subject = a}
Starts(s, n)      == {m \in TakenOf(s) : m > n /\ s[m].type = "host.connected"}

Tells(s, n, a, status) ==
  /\ s[n].type = "approval.requested" /\ s[n].subject = a
  /\ Verdicts(s, n, a) # {} => \E m \in Verdicts(s, n, a) : status = s[m].value
  /\ Verdicts(s, n, a) = {} => status = IF Starts(s, n) = {} THEN "pending" ELSE "cancel"

ApprovalsKnown(s) ==
  LET approvals == reduceEvents(s).approvals
  IN  \A a \in DOMAIN approvals : \E n \in TakenOf(s) : Tells(s, n, a, approvals[a].status)

AskedKnown(s) ==
  \A n \in TakenOf(s) :
    s[n].type = "approval.requested" => s[n].subject \in DOMAIN reduceEvents(s).approvals

Moves(s, m, k) ==
  \/ s[m].type \in {"host.connected", "host.disconnected"}
  \/ s[m].type \in StatusTypes \cup {"approval.requested"} /\ s[m].session = k
  \/ /\ s[m].type = "approval.resolved"
     /\ \E j \in TakenOf(s) : /\ j < m
                              /\ s[j].type = "approval.requested"
                              /\ s[j].subject = s[m].subject

SaysItWaits(s, n, k) ==
  /\ s[n].type \in StatusTypes /\ s[n].session = k /\ s[n].value = "waiting_approval"
  /\ \A m \in TakenOf(s) : m > n => ~Moves(s, m, k)

WaitKnown(s) ==
  LET v == reduceEvents(s)
  IN  \A k \in DOMAIN v.sessions :
        v.sessions[k].status = "waiting_approval" =>
          /\ k = Session
          /\ \/ \E a \in DOMAIN v.approvals : v.approvals[a].status = "pending"
             \/ \E n \in TakenOf(s) : SaysItWaits(s, n, k)

ViewFacts(s) ==
  /\ ViewTypes(reduceEvents(s))
  /\ IdsKnown(s) /\ LastKnown(s) /\ HostKnown(s) /\ ApprovalsKnown(s) /\ AskedKnown(s)
  /\ WaitKnown(s)

(* A view of nothing.                                                      *)
LEMMA FactsOfNone == ViewFacts(<<>>)
<1> DEFINE v == createEmptyState
<1>1. reduceEvents(<<>>) = v /\ TakenOf(<<>>) = {}
  BY ViewOfNone DEF TakenOf
<1>2. DOMAIN Nothing = {}
  BY DEF Nothing
<1>3. /\ DOMAIN v = {"hosts", "sessions", "approvals", "lastSequenceByHost", "recentEventIds"}
      /\ DOMAIN v.hosts = {} /\ DOMAIN v.sessions = {} /\ DOMAIN v.approvals = {}
      /\ v.recentEventIds = <<>>
  BY <1>2 DEF createEmptyState
<1>4. DOMAIN v.recentEventIds = {}
  BY <1>3
<1>5. ViewTypes(v)
  BY <1>3 DEF ViewTypes
<1> HIDE DEF v
<1> QED
  BY <1>1, <1>3, <1>4, <1>5
     DEF ViewFacts, IdsKnown, LastKnown, HostKnown, ApprovalsKnown, AskedKnown, WaitKnown, v

(* An event that is ignored changes no fact.                               *)
LEMMA FactsIgnored ==
  ASSUME NEW s \in Seq(Spoken), NEW e \in Spoken, ViewFacts(s), Ignored(reduceEvents(s), e)
  PROVE  ViewFacts(Append(s, e))
<1> DEFINE t == Append(s, e)
<1>1. /\ Len(t) = Len(s) + 1 /\ Len(s) \in Nat /\ \A n \in 1..Len(s) : t[n] = s[n]
      /\ TakenOf(s) \subseteq 1..Len(s)
      /\ TakenOf(t) = TakenOf(s) /\ reduceEvents(t) = reduceEvents(s)
      /\ DOMAIN s = 1..Len(s) /\ DOMAIN t = 1..Len(s) + 1
  BY TakenGrows
<1> HIDE DEF t
<1>2. IdsKnown(t)
  <2>1. DOMAIN s \subseteq DOMAIN t
    BY <1>1
  <2> QED
    BY <1>1, <2>1 DEF ViewFacts, IdsKnown
<1>3. LastKnown(t)
  BY <1>1 DEF ViewFacts, LastKnown
<1>4. HostKnown(t)
  BY <1>1 DEF ViewFacts, HostKnown
<1>5. ApprovalsKnown(t)
  <2>1. \A n, a : Verdicts(t, n, a) = Verdicts(s, n, a) /\ Starts(t, n) = Starts(s, n)
    BY <1>1 DEF Verdicts, Starts
  <2>2. \A n, a : \A m \in Verdicts(s, n, a) : t[m] = s[m]
    BY <1>1 DEF Verdicts
  <2>3. \A n, a, status : n \in TakenOf(s) /\ Tells(s, n, a, status) => Tells(t, n, a, status)
    BY <1>1, <2>1, <2>2 DEF Tells
  <2> QED
    BY <1>1, <2>3 DEF ViewFacts, ApprovalsKnown
<1>6. AskedKnown(t)
  BY <1>1 DEF ViewFacts, AskedKnown
<1>7. WaitKnown(t)
  <2>1. \A n \in TakenOf(s) : t[n] = s[n]
    BY <1>1
  <2>2. \A k : \A n \in TakenOf(s) : SaysItWaits(s, n, k) => SaysItWaits(t, n, k)
    BY <1>1, <2>1 DEF SaysItWaits, Moves
  <2> QED
    BY <1>1, <2>2 DEF ViewFacts, WaitKnown
<1> QED
  BY <1>1, <1>2, <1>3, <1>4, <1>5, <1>6, <1>7 DEF ViewFacts, t

(* A start of the host that is taken after anything else is a restart.     *)
LEMMA StartsRestart ==
  ASSUME NEW s \in Seq(Spoken), NEW e \in Spoken, ViewFacts(s), ~Ignored(reduceEvents(s), e),
         TakenOf(s) # {}
  PROVE  HostRestarted(reduceEvents(s), e) <=> e.type = "host.connected"
<1>1. PICK n \in TakenOf(s) : LastSequence(reduceEvents(s), Host) = s[n].sequence
  BY DEF ViewFacts, LastKnown
<1>2. s[n] \in Spoken
  BY ElementOfSeq, TakenGrows
<1>3. e.host = Host /\ s[n].sequence \in Nat /\ s[n].sequence >= 1
      /\ (e.type = "host.connected" => e.sequence = 1)
  BY <1>2, BoundAssumption DEF Spoken, Event
<1>4. e.type = "host.connected" => e.sequence <= LastSequence(reduceEvents(s), e.host)
  BY <1>1, <1>3
<1> QED
  BY <1>4 DEF Ignored, HostRestarted

(* The remembered identifiers are the last ones of a list.                 *)
LEMMA RecentIs ==
  ASSUME NEW q \in Seq(Ids), NEW n \in Nat
  PROVE  \E k \in 0..Len(q) :
           /\ Newest(q, n) \in Seq(Ids) /\ Len(Newest(q, n)) = Len(q) - k
           /\ \A i \in 1..Len(q) - k : Newest(q, n)[i] = q[i + k]
<1> DEFINE S == Ids
<1>1. q \in Seq(S)
  OBVIOUS
<1> HIDE DEF S
<1> QED
  BY <1>1, NewestIs DEF S, CutBy

(* What an event that is taken changes.                                    *)
LEMMA FactsTaken ==
  ASSUME NEW s \in Seq(Spoken), NEW e \in Spoken, ViewFacts(s), ~Ignored(reduceEvents(s), e)
  PROVE  ViewFacts(Append(s, e))
<1> DEFINE t == Append(s, e)
           N == Len(s) + 1
           v == reduceEvents(s)
           w == reduceEvents(t)
           r == Cleared(v, e)
<1>1. /\ Len(t) = N /\ Len(s) \in Nat /\ t[N] = e /\ \A n \in 1..Len(s) : t[n] = s[n]
      /\ TakenOf(s) \subseteq 1..Len(s) /\ TakenOf(t) = TakenOf(s) \cup {N}
      /\ w = reduceEvent(v, e) /\ t \in Seq(Spoken)
      /\ DOMAIN s = 1..Len(s) /\ DOMAIN t = 1..N
  BY TakenGrows
<1>2. ViewTypes(v)
  BY DEF ViewFacts
<1>3. /\ ViewTypes(w)
      /\ w.lastSequenceByHost = Put(v.lastSequenceByHost, Host, e.sequence)
      /\ w.recentEventIds = Newest(Append(v.recentEventIds, e.eventId), MaxEventIds)
      /\ e.type = "host.connected" => DOMAIN w.hosts = {Host} /\ w.hosts[Host].lastSeenAt = e.at
      /\ e.type # "host.connected" =>
           /\ DOMAIN w.hosts = DOMAIN v.hosts
           /\ Host \in DOMAIN v.hosts => w.hosts[Host].lastSeenAt \in {v.hosts[Host].lastSeenAt, e.at}
  BY <1>1, <1>2, ReducedIs
<1>4. /\ e.type = "approval.requested" =>
           /\ DOMAIN w.approvals = DOMAIN r.approvals \cup {e.subject}
           /\ w.approvals[e.subject].status = "pending"
           /\ \A a \in DOMAIN r.approvals : a # e.subject => w.approvals[a] = r.approvals[a]
      /\ e.type = "approval.resolved" /\ e.subject \in DOMAIN r.approvals =>
           /\ DOMAIN w.approvals = DOMAIN r.approvals
           /\ w.approvals[e.subject].status = e.value
           /\ \A a \in DOMAIN r.approvals : a # e.subject => w.approvals[a] = r.approvals[a]
      /\ ~(e.type = "approval.requested"
           \/ (e.type = "approval.resolved" /\ e.subject \in DOMAIN r.approvals))
           => w.approvals = r.approvals
  BY <1>1, <1>2, ReducedIs
<1>5. \A k \in DOMAIN w.sessions : WaitsFrom(w, r, e, k)
  BY <1>1, <1>2, ReducedIs
<1>6. /\ DOMAIN r.sessions = DOMAIN v.sessions /\ DOMAIN r.approvals = DOMAIN v.approvals
      /\ ~HostRestarted(v, e) => r.sessions = v.sessions /\ r.approvals = v.approvals
      /\ HostRestarted(v, e) =>
           /\ \A k \in DOMAIN r.sessions : r.sessions[k].status = "offline"
           /\ \A a \in DOMAIN r.approvals :
                r.approvals[a].status =
                  IF v.approvals[a].status = "pending" THEN "cancel" ELSE v.approvals[a].status
  BY <1>2, ClearedIs
<1>7. TakenOf(s) # {} => (HostRestarted(v, e) <=> e.type = "host.connected")
  BY StartsRestart
<1>8. e.host = Host /\ e.eventId \in Ids
  BY EventIs DEF Ids
<1>9. HostRestarted(v, e) => e.type = "host.connected"
  BY DEF HostRestarted
<1> HIDE DEF t, w, r
<1>10. IdsKnown(t)
  <2> DEFINE q == Append(v.recentEventIds, e.eventId)
             M == Len(v.recentEventIds)
  <2>1. /\ q \in Seq(Ids) /\ Len(q) = M + 1 /\ M \in Nat
        /\ q[M + 1] = e.eventId /\ \A i \in 1..M : q[i] = v.recentEventIds[i]
    BY <1>2, <1>8, AppendProperties DEF ViewTypes
  <2>2. \A i \in 1..M : \E n \in DOMAIN s : s[n].eventId = v.recentEventIds[i]
    <3>1. DOMAIN v.recentEventIds = 1..M
      BY <1>2 DEF ViewTypes
    <3> QED
      BY <3>1 DEF ViewFacts, IdsKnown
  <2> HIDE DEF q, M
  <2>3. ASSUME NEW i \in 1..M + 1 PROVE \E n \in DOMAIN t : t[n].eventId = q[i]
    <3>1. CASE i = M + 1
      BY <1>1, <2>1, <3>1
    <3>2. CASE i \in 1..M
      <4>1. PICK n \in DOMAIN s : s[n].eventId = v.recentEventIds[i]
        BY <2>2, <3>2
      <4> QED
        BY <1>1, <2>1, <3>2, <4>1
    <3> QED
      BY <2>1, <3>1, <3>2
  <2>4. MaxEventIds \in Nat
    BY SizeAssumption
  <2>5. PICK k \in 0..Len(q) : /\ Len(Newest(q, MaxEventIds)) = Len(q) - k
                               /\ Newest(q, MaxEventIds) \in Seq(Ids)
                               /\ \A i \in 1..Len(q) - k : Newest(q, MaxEventIds)[i] = q[i + k]
    BY <2>1, <2>4, RecentIs
  <2>6. ASSUME NEW i \in DOMAIN w.recentEventIds
        PROVE  \E n \in DOMAIN t : t[n].eventId = w.recentEventIds[i]
    <3>1. w.recentEventIds = Newest(q, MaxEventIds)
      BY <1>3 DEF q
    <3>2. i \in 1..Len(q) - k /\ i + k \in 1..M + 1
      BY <2>1, <2>5, <3>1
    <3> QED
      BY <2>3, <2>5, <3>1, <3>2
  <2> QED
    BY <2>6 DEF IdsKnown, w
<1>11. LastKnown(t)
  <2>1. LastSequence(w, Host) = e.sequence
    BY <1>3, PutIs DEF Put, LastSequence
  <2>2. \A m \in TakenOf(t) : m <= N
    BY <1>1
  <2> QED
    BY <1>1, <2>1, <2>2 DEF LastKnown, w
<1>12. HostKnown(t)
  <2>1. /\ Host \in DOMAIN v.hosts <=> \E n \in TakenOf(s) : s[n].type = "host.connected"
        /\ Host \in DOMAIN v.hosts => \E n \in TakenOf(s) : s[n].at = v.hosts[Host].lastSeenAt
    BY DEF ViewFacts, HostKnown
  <2>2. \A n \in TakenOf(s) : t[n] = s[n] /\ n \in TakenOf(t)
    BY <1>1
  <2>3. N \in TakenOf(t) /\ t[N] = e
    BY <1>1
  <2>4. \A n \in TakenOf(t) : n = N \/ n \in TakenOf(s)
    BY <1>1
  <2>5. Host \in DOMAIN w.hosts <=> \E n \in TakenOf(t) : t[n].type = "host.connected"
    BY <1>3, <2>1, <2>2, <2>3, <2>4
  <2>6. Host \in DOMAIN w.hosts => \E n \in TakenOf(t) : t[n].at = w.hosts[Host].lastSeenAt
    BY <1>3, <2>1, <2>2, <2>3
  <2> QED
    BY <2>5, <2>6 DEF HostKnown, w
<1>13. ApprovalsKnown(t)
  <2> SUFFICES ASSUME NEW a \in DOMAIN w.approvals
               PROVE  \E n \in TakenOf(t) : Tells(t, n, a, w.approvals[a].status)
    BY DEF ApprovalsKnown, w
  <2>1. CASE e.type = "approval.requested" /\ e.subject = a
    <3>1. Verdicts(t, N, a) = {} /\ Starts(t, N) = {}
      BY <1>1 DEF Verdicts, Starts
    <3>2. Tells(t, N, a, w.approvals[a].status)
      BY <1>1, <1>4, <2>1, <3>1 DEF Tells
    <3> QED
      BY <1>1, <3>2
  <2>2. CASE ~(e.type = "approval.requested" /\ e.subject = a)
    <3>1. a \in DOMAIN v.approvals
      BY <1>4, <1>6, <2>2
    <3>2. PICK n \in TakenOf(s) : Tells(s, n, a, v.approvals[a].status)
      BY <3>1 DEF ViewFacts, ApprovalsKnown
    <3>3. n \in TakenOf(t) /\ t[n] = s[n] /\ n < N /\ n \in 1..Len(s)
      BY <1>1
    <3>4. /\ Verdicts(t, n, a) = Verdicts(s, n, a) \cup
               (IF e.type = "approval.resolved" /\ e.subject = a THEN {N} ELSE {})
          /\ Starts(t, n) = Starts(s, n) \cup (IF e.type = "host.connected" THEN {N} ELSE {})
          /\ \A m \in Verdicts(s, n, a) : t[m] = s[m] /\ m \in 1..Len(s) /\ s[m].type = "approval.resolved"
      BY <1>1, <3>3 DEF Verdicts, Starts
    <3>5. \A m \in Verdicts(s, n, a) : s[m].value # "pending"
      <4>1. ASSUME NEW m \in Verdicts(s, n, a) PROVE s[m].value # "pending"
        <5>1. s[m] \in Spoken /\ s[m].type = "approval.resolved"
          BY <3>4, ElementOfSeq
        <5> QED
          BY <5>1, NameAssumption DEF Spoken
      <4> QED
        BY <4>1
    <3>6. CASE e.type = "approval.resolved" /\ e.subject = a
      <4>1. w.approvals[a].status = e.value
        BY <1>4, <1>6, <3>1, <3>6
      <4>2. N \in Verdicts(t, n, a)
        BY <3>4, <3>6
      <4>3. Tells(t, n, a, w.approvals[a].status)
        BY <1>1, <3>2, <3>3, <4>1, <4>2 DEF Tells
      <4> QED
        BY <3>3, <4>3
    <3>7. CASE e.type = "host.connected"
      <4>1. HostRestarted(v, e)
        BY <1>7, <3>7
      <4>2. w.approvals[a].status = IF v.approvals[a].status = "pending" THEN "cancel"
                                    ELSE v.approvals[a].status
        BY <1>4, <1>6, <3>1, <3>7, <4>1
      <4>3. Verdicts(t, n, a) = Verdicts(s, n, a) /\ Starts(t, n) # {}
        BY <3>4, <3>7
      <4>4. Tells(t, n, a, w.approvals[a].status)
        <5>1. CASE Verdicts(s, n, a) = {}
          BY <3>2, <3>3, <4>2, <4>3, <5>1 DEF Tells
        <5>2. CASE Verdicts(s, n, a) # {}
          <6>1. PICK m \in Verdicts(s, n, a) : v.approvals[a].status = s[m].value
            BY <3>2, <5>2 DEF Tells
          <6>2. w.approvals[a].status = t[m].value
            BY <3>4, <3>5, <4>2, <6>1
          <6> QED
            BY <3>2, <3>3, <4>3, <5>2, <6>1, <6>2 DEF Tells
        <5> QED
          BY <5>1, <5>2
      <4> QED
        BY <3>3, <4>4
    <3>8. CASE ~(e.type = "approval.resolved" /\ e.subject = a) /\ e.type # "host.connected"
      <4>1. w.approvals[a] = v.approvals[a]
        BY <1>4, <1>6, <1>9, <2>2, <3>1, <3>8
      <4>2. Verdicts(t, n, a) = Verdicts(s, n, a) /\ Starts(t, n) = Starts(s, n)
        BY <3>4, <3>8
      <4>3. Tells(t, n, a, w.approvals[a].status)
        BY <3>2, <3>3, <3>4, <4>1, <4>2 DEF Tells
      <4> QED
        BY <3>3, <4>3
    <3> QED
      BY <3>6, <3>7, <3>8
  <2> QED
    BY <2>1, <2>2
<1>15. AskedKnown(t)
  <2>1. DOMAIN v.approvals \subseteq DOMAIN w.approvals
    BY <1>4, <1>6
  <2>2. ASSUME NEW n \in TakenOf(t), t[n].type = "approval.requested"
        PROVE  t[n].subject \in DOMAIN w.approvals
    <3>1. CASE n = N
      BY <1>1, <1>4, <2>2, <3>1
    <3>2. CASE n \in TakenOf(s)
      <4>1. t[n] = s[n]
        BY <1>1, <3>2
      <4> QED
        BY <2>1, <2>2, <3>2, <4>1 DEF ViewFacts, AskedKnown
    <3> QED
      BY <1>1, <3>1, <3>2
  <2> QED
    BY <2>2 DEF AskedKnown, w
<1>14. WaitKnown(t)
  <2> SUFFICES ASSUME NEW k \in DOMAIN w.sessions, w.sessions[k].status = "waiting_approval"
               PROVE  /\ k = Session
                      /\ \/ \E a \in DOMAIN w.approvals : w.approvals[a].status = "pending"
                         \/ \E n \in TakenOf(t) : SaysItWaits(t, n, k)
    BY DEF WaitKnown, w
  <2>1. CASE e.type = "approval.requested" /\ k = Session
    BY <1>4, <2>1
  <2>2. CASE /\ e.type \in StatusTypes /\ e.session = Session /\ k = Session
             /\ e.value = "waiting_approval"
    <3>1. SaysItWaits(t, N, k)
      BY <1>1, <2>2 DEF SaysItWaits
    <3> QED
      BY <1>1, <2>2, <3>1
  <2>3. CASE /\ ~(e.type = "approval.requested" /\ k = Session)
             /\ ~(/\ e.type \in StatusTypes /\ e.session = Session /\ k = Session
                  /\ e.value = "waiting_approval")
    <3>1. /\ k \in DOMAIN r.sessions /\ r.sessions[k].status = "waiting_approval"
          /\ e.type # "host.disconnected"
          /\ e.type \in StatusTypes /\ e.session = Session => k # Session
          /\ e.type = "approval.resolved" /\ e.subject \in DOMAIN r.approvals => k # Session
      BY <1>5, <2>3 DEF WaitsFrom
    <3>2. ~HostRestarted(v, e)
      BY <1>6, <3>1
    <3>3. /\ k = Session
          /\ \/ \E a \in DOMAIN v.approvals : v.approvals[a].status = "pending"
             \/ \E n \in TakenOf(s) : SaysItWaits(s, n, k)
      BY <1>6, <3>1, <3>2 DEF ViewFacts, WaitKnown
    <3>4. w.approvals = v.approvals
      BY <1>4, <1>6, <2>3, <3>1, <3>2, <3>3
    <3>5. CASE \E a \in DOMAIN v.approvals : v.approvals[a].status = "pending"
      BY <3>3, <3>4, <3>5
    <3>6. CASE \E n \in TakenOf(s) : SaysItWaits(s, n, k)
      <4>1. PICK n \in TakenOf(s) : SaysItWaits(s, n, k)
        BY <3>6
      <4>2. \A m \in TakenOf(s) : t[m] = s[m] /\ m \in 1..Len(s)
        BY <1>1
      <4>3. e.type # "host.connected"
        BY <1>7, <3>2, <4>1
      <4>4. ~Moves(t, N, k)
        <5>1. e.type \notin StatusTypes \cup {"approval.requested"} \/ e.session # k
          BY <2>3, <3>1, <3>3
        <5>2. ASSUME NEW j \in TakenOf(t), j < N, e.type = "approval.resolved",
                     t[j].type = "approval.requested", t[j].subject = e.subject
              PROVE  FALSE
          <6>1. j \in TakenOf(s) /\ s[j] = t[j]
            BY <1>1, <5>2
          <6>2. e.subject \in DOMAIN v.approvals
            BY <5>2, <6>1 DEF ViewFacts, AskedKnown
          <6> QED
            BY <1>6, <3>1, <3>3, <5>2, <6>2
        <5> QED
          BY <1>1, <3>1, <4>3, <5>1, <5>2 DEF Moves
      <4>5. ASSUME NEW m \in TakenOf(s), m > n PROVE ~Moves(t, m, k)
        <5>1. ~Moves(s, m, k)
          BY <4>1, <4>5 DEF SaysItWaits
        <5>2. \A j \in TakenOf(t) : j < m => j \in TakenOf(s)
          BY <1>1, <4>2
        <5> QED
          BY <4>2, <5>1, <5>2 DEF Moves
      <4>6. \A m \in TakenOf(t) : m > n => ~Moves(t, m, k)
        BY <1>1, <4>4, <4>5
      <4>7. SaysItWaits(t, n, k)
        BY <4>1, <4>2, <4>6 DEF SaysItWaits
      <4> QED
        BY <1>1, <3>3, <4>1, <4>7
    <3> QED
      BY <3>3, <3>5, <3>6
  <2> QED
    BY <2>1, <2>2, <2>3
<1> QED
  BY <1>3, <1>10, <1>11, <1>12, <1>13, <1>14, <1>15 DEF ViewFacts, t, w

(* They hold of the view of any events a host may have made, in any order. *)
LEMMA FactsHold ==
  ASSUME NEW s \in Seq(Spoken)
  PROVE  ViewFacts(s)
<1> DEFINE S == {n \in Nat : \A t \in Seq(Spoken) : Len(t) = n => ViewFacts(t)}
<1>1. 0 \in S
  BY FactsOfNone, EmptySeq
<1>2. ASSUME NEW n \in Nat, n \in S PROVE n + 1 \in S
  <2> SUFFICES ASSUME NEW t \in Seq(Spoken), Len(t) = n + 1 PROVE ViewFacts(t)
    OBVIOUS
  <2> DEFINE u == SubSeq(t, 1, n)
             e == t[n + 1]
  <2>1. u \in Seq(Spoken) /\ Len(u) = n /\ \A i \in 1..n : u[i] = t[i]
    BY Fronts
  <2>2. e \in Spoken
    BY ElementOfSeq
  <2> HIDE DEF u
  <2>3. t = Append(u, e)
    <3>1. /\ Append(u, e) \in Seq(Spoken) /\ Len(Append(u, e)) = n + 1
          /\ Append(u, e)[n + 1] = e /\ \A i \in 1..n : Append(u, e)[i] = u[i]
      BY <2>1, <2>2, AppendProperties
    <3>2. \A i \in 1..n + 1 : Append(u, e)[i] = t[i]
      BY <2>1, <3>1
    <3> QED
      BY <3>1, <3>2, SeqEqual
  <2>4. ViewFacts(u)
    BY <1>2, <2>1
  <2> HIDE DEF e
  <2> QED
    BY <2>1, <2>2, <2>3, <2>4, FactsIgnored, FactsTaken
<1> HIDE DEF S
<1>3. Nat \subseteq S
  BY <1>1, <1>2, Induct
<1> QED
  BY <1>3 DEF S

(* What the client was given is such a sequence.                           *)
LEMMA GivenFacts ==
  ASSUME TypeInv
  PROVE  /\ given \in Seq(Spoken) /\ state = reduceEvents(given) /\ ViewFacts(given)
         /\ Taken = TakenOf(given)
         /\ Dropped = {n \in DOMAIN given : Ignored(View(n - 1), given[n])}
<1>1. Said \subseteq Spoken /\ given \in Seq(Said) /\ state = reduceEvents(given)
  BY DEF TypeInv, ClientTypes, Said
<1>2. given \in Seq(Spoken)
  BY <1>1
<1>3. ViewFacts(given)
  BY <1>2, FactsHold
<1>4. Taken = TakenOf(given)
  BY DEF Taken, Dropped, TakenOf, View
<1> QED
  BY <1>1, <1>2, <1>3, <1>4 DEF Dropped

(* Every approval shown has the event it is shown for.                     *)
LEMMA ShownInv == TypeInv => ShownWasSaid
<1> SUFFICES ASSUME TypeInv, NEW a \in DOMAIN state.approvals
             PROVE  \E n \in Taken :
                      LET status   == state.approvals[a].status
                          later    == {m \in Taken : m > n}
                          verdicts == {m \in later : /\ given[m].type = "approval.resolved"
                                                     /\ given[m].subject = a}
                          starts   == {m \in later : given[m].type = "host.connected"}
                      IN  /\ given[n].type = "approval.requested" /\ given[n].subject = a
                          /\ verdicts # {} => \E m \in verdicts : status = given[m].value
                          /\ verdicts = {} => status = IF starts = {} THEN "pending" ELSE "cancel"
  BY DEF ShownWasSaid
<1>1. PICK n \in TakenOf(given) : Tells(given, n, a, state.approvals[a].status)
  BY GivenFacts DEF ViewFacts, ApprovalsKnown
<1>2. n \in Taken /\ Taken = TakenOf(given)
  BY GivenFacts
<1>3. /\ Verdicts(given, n, a) = {m \in {k \in Taken : k > n} :
                                    given[m].type = "approval.resolved" /\ given[m].subject = a}
      /\ Starts(given, n) = {m \in {k \in Taken : k > n} : given[m].type = "host.connected"}
  BY <1>2 DEF Verdicts, Starts
<1> QED
  BY <1>1, <1>2, <1>3 DEF Tells

(* Whatever is lost, delayed or handed over out of order, and however      *)
(* often the host and the relay start again, a client shows of an approval *)
(* what it took last of it.                                                *)
THEOREM ShownIsLastTaken == Spec => []ShownWasSaid
<1>1. Spec => []TypeInv
  BY TypeInit, TypeStep, PTL DEF Spec
<1> QED
  BY <1>1, ShownInv, PTL

(* Every session shown as waiting has its reason.                          *)
LEMMA WaitingInv == TypeInv => WaitingMeansPending
<1> SUFFICES ASSUME TypeInv, NEW s \in DOMAIN state.sessions,
                    state.sessions[s].status = "waiting_approval"
             PROVE  \/ \E a \in DOMAIN state.approvals :
                         state.approvals[a].session = s /\ state.approvals[a].status = "pending"
                    \/ \E n \in Taken : /\ given[n].type \in StatusTypes
                                        /\ given[n].session = s
                                        /\ given[n].value = "waiting_approval"
                                        /\ \A m \in Taken : m > n => ~SetsStatus(m, s)
  BY DEF WaitingMeansPending, StatusTypes
<1>1. /\ s = Session
      /\ \/ \E a \in DOMAIN state.approvals : state.approvals[a].status = "pending"
         \/ \E n \in TakenOf(given) : SaysItWaits(given, n, s)
  BY GivenFacts DEF ViewFacts, WaitKnown
<1>2. \A a \in DOMAIN state.approvals : state.approvals[a].session = Session
  BY GivenFacts DEF ViewFacts, ViewTypes
<1>3. Taken = TakenOf(given)
  BY GivenFacts
<1>4. \A m : SetsStatus(m, s) <=> Moves(given, m, s)
  BY <1>3 DEF SetsStatus, Moves, StatusTypes
<1> QED
  BY <1>1, <1>2, <1>3, <1>4 DEF SaysItWaits

(* Whatever is lost, delayed or handed over out of order, a session is     *)
(* shown as waiting for an approval that is shown as pending, or because   *)
(* the host reported so last.                                              *)
THEOREM WaitingHasReason == Spec => []WaitingMeansPending
<1>1. Spec => []TypeInv
  BY TypeInit, TypeStep, PTL DEF Spec
<1> QED
  BY <1>1, WaitingInv, PTL

-----------------------------------------------------------------------------
(* What a client has been handed, or is about to be.                       *)

Singles(d) == [n \in DOMAIN d |-> d[n].events[1]]
Fresh      == downlink # <<>> /\ Head(downlink).kind = "snapshot"

(* Frames of one event each.                                               *)
LEMMA SinglesAre ==
  ASSUME NEW S, NEW d \in Seq([kind : {"snapshot", "event"}, events : Seq(S)]),
         \A n \in DOMAIN d : Len(d[n].events) = 1
  PROVE  Singles(d) \in Seq(S) /\ Len(Singles(d)) = Len(d) /\ \A n \in 1..Len(d) : Singles(d)[n] = d[n].events[1]
<1> DEFINE F == [kind : {"snapshot", "event"}, events : Seq(S)]
<1>a. d \in Seq(F) /\ \A x \in F : x.events \in Seq(S)
  OBVIOUS
<1> HIDE DEF F
<1>b. \A n \in 1..Len(d) : d[n] \in F /\ n \in DOMAIN d
  BY <1>a, ElementOfSeq
<1>1. \A n \in 1..Len(d) : d[n].events \in Seq(S) /\ Len(d[n].events) = 1
  BY <1>a, <1>b
<1>2. \A n \in 1..Len(d) : d[n].events[1] \in S
  BY <1>1
<1>3. Singles(d) = [n \in 1..Len(d) |-> d[n].events[1]] /\ Len(d) \in Nat
  BY DEF Singles
<1> QED
  BY <1>2, <1>3

(* A snapshot can only come first, so that what follows it are events.     *)
LEMMA HandedIs ==
  ASSUME ClientTypes
  PROVE  /\ Fresh => /\ downlink[1].events \in Seq(Said) /\ Tail(downlink) \in Seq(Frame)
                     /\ \A n \in DOMAIN Tail(downlink) : /\ Tail(downlink)[n].kind = "event"
                                                         /\ Len(Tail(downlink)[n].events) = 1
                     /\ Handed = downlink[1].events \o Singles(Tail(downlink))
                     /\ Singles(Tail(downlink)) \in Seq(Said)
         /\ ~Fresh => /\ \A n \in DOMAIN downlink : /\ downlink[n].kind = "event"
                                                    /\ Len(downlink[n].events) = 1
                      /\ Handed = given \o Singles(downlink)
                      /\ Singles(downlink) \in Seq(Said)
         /\ Handed \in Seq(Said)
<1>1. downlink \in Seq(Frame) /\ given \in Seq(Said)
  BY DEF ClientTypes
<1>2. CASE Fresh
  <2>1. downlink # <<>> /\ Head(downlink) = downlink[1] /\ downlink[1] \in Frame
    BY <1>1, <1>2, Rests DEF Fresh
  <2>2. /\ Tail(downlink) \in Seq(Frame) /\ Len(Tail(downlink)) = Len(downlink) - 1
        /\ Len(downlink) \in Nat
        /\ \A n \in 1..Len(downlink) - 1 : Tail(downlink)[n] = downlink[n + 1]
    BY <1>1, <2>1, Rests
  <2>3. ASSUME NEW n \in DOMAIN Tail(downlink)
        PROVE  Tail(downlink)[n].kind = "event" /\ Len(Tail(downlink)[n].events) = 1
    <3>1. n + 1 \in DOMAIN downlink /\ n + 1 # 1 /\ Tail(downlink)[n] = downlink[n + 1]
      BY <2>2
    <3>a. downlink[n + 1] \in Frame
      BY <1>1, <3>1
    <3>2. downlink[n + 1].kind \in {"snapshot", "event"}
      BY <3>a DEF Frame
    <3> QED
      BY <3>1, <3>2 DEF ClientTypes
  <2>4. Singles(Tail(downlink)) \in Seq(Said)
    BY <2>2, <2>3, SinglesAre DEF Frame
  <2>5. Handed = downlink[1].events \o Singles(Tail(downlink))
    BY <1>2, <2>1 DEF Handed, Fresh, Singles
  <2>6. downlink[1].events \in Seq(Said)
    BY <2>1 DEF Frame
  <2>7. Handed \in Seq(Said)
    BY <2>4, <2>5, <2>6, ConcatProperties
  <2> QED
    BY <1>2, <2>2, <2>3, <2>4, <2>5, <2>6, <2>7
<1>3. CASE ~Fresh
  <2>1. ASSUME NEW n \in DOMAIN downlink
        PROVE  downlink[n].kind = "event" /\ Len(downlink[n].events) = 1
    <3>a. downlink[n] \in Frame
      BY <1>1
    <3>1. downlink[n].kind \in {"snapshot", "event"}
      BY <3>a DEF Frame
    <3>2. downlink # <<>> /\ Head(downlink) = downlink[1]
      BY <1>1
    <3> QED
      BY <1>3, <3>1, <3>2 DEF ClientTypes, Fresh
  <2>2. Singles(downlink) \in Seq(Said)
    BY <1>1, <2>1, SinglesAre DEF Frame
  <2>3. Handed = given \o Singles(downlink)
    BY <1>3 DEF Handed, Fresh, Singles
  <2>4. Handed \in Seq(Said)
    BY <1>1, <2>2, <2>3, ConcatProperties
  <2> QED
    BY <1>3, <2>1, <2>2, <2>3, <2>4
<1> QED
  BY <1>2, <1>3

(* A concatenation, element by element.                                    *)
LEMMA Joined ==
  ASSUME NEW S, NEW s \in Seq(S), NEW t \in Seq(S)
  PROVE  /\ s \o t \in Seq(S) /\ Len(s \o t) = Len(s) + Len(t) /\ Len(s) \in Nat /\ Len(t) \in Nat
         /\ \A i \in 1..Len(s) : (s \o t)[i] = s[i]
         /\ \A i \in 1..Len(t) : (s \o t)[Len(s) + i] = t[i]
<1>1. Len(s \o t) = Len(s) + Len(t) /\ Len(s) \in Nat /\ Len(t) \in Nat /\ s \o t \in Seq(S)
  BY ConcatProperties
<1>2. \A i \in 1..Len(s) + Len(t) : (s \o t)[i] = IF i <= Len(s) THEN s[i] ELSE t[i - Len(s)]
  BY ConcatProperties
<1>3. ASSUME NEW i \in 1..Len(s) PROVE (s \o t)[i] = s[i]
  <2>1. i \in 1..Len(s) + Len(t) /\ i <= Len(s)
    BY <1>1
  <2> QED
    BY <1>2, <2>1
<1>4. ASSUME NEW i \in 1..Len(t) PROVE (s \o t)[Len(s) + i] = t[i]
  <2>1. Len(s) + i \in 1..Len(s) + Len(t) /\ ~(Len(s) + i <= Len(s)) /\ Len(s) + i - Len(s) = i
    BY <1>1
  <2> QED
    BY <1>2, <2>1
<1> QED
  BY <1>1, <1>3, <1>4

(* A longer end makes a longer whole.                                      *)
LEMMA JoinedAppend ==
  ASSUME NEW S, NEW s \in Seq(S), NEW t \in Seq(S), NEW e \in S
  PROVE  s \o Append(t, e) = Append(s \o t, e)
<1> DEFINE a == s \o Append(t, e)
           b == Append(s \o t, e)
<1>1. /\ Append(t, e) \in Seq(S) /\ Len(Append(t, e)) = Len(t) + 1 /\ Len(t) \in Nat
      /\ Append(t, e)[Len(t) + 1] = e /\ \A i \in 1..Len(t) : Append(t, e)[i] = t[i]
  BY AppendProperties
<1>2. /\ a \in Seq(S) /\ Len(a) = Len(s) + Len(t) + 1 /\ Len(s) \in Nat
      /\ \A i \in 1..Len(s) : a[i] = s[i]
      /\ \A i \in 1..Len(t) + 1 : a[Len(s) + i] = Append(t, e)[i]
  BY <1>1, Joined
<1>3. /\ s \o t \in Seq(S) /\ Len(s \o t) = Len(s) + Len(t)
      /\ \A i \in 1..Len(s) : (s \o t)[i] = s[i]
      /\ \A i \in 1..Len(t) : (s \o t)[Len(s) + i] = t[i]
  BY Joined
<1>4. /\ b \in Seq(S) /\ Len(b) = Len(s) + Len(t) + 1 /\ b[Len(s) + Len(t) + 1] = e
      /\ \A i \in 1..Len(s) + Len(t) : b[i] = (s \o t)[i]
  BY <1>3, AppendProperties
<1> HIDE DEF a, b
<1>5. ASSUME NEW i \in 1..Len(s) + Len(t) + 1 PROVE a[i] = b[i]
  <2>1. CASE i \in 1..Len(s)
    <3>1. i \in 1..Len(s) + Len(t)
      BY <1>1, <1>2, <2>1
    <3> QED
      BY <1>2, <1>3, <1>4, <2>1, <3>1
  <2>2. CASE i - Len(s) \in 1..Len(t)
    <3>1. i \in 1..Len(s) + Len(t) /\ i = Len(s) + (i - Len(s)) /\ i - Len(s) \in 1..Len(t) + 1
      BY <1>1, <1>2, <2>2
    <3>2. a[i] = t[i - Len(s)] /\ b[i] = t[i - Len(s)]
      BY <1>1, <1>2, <1>3, <1>4, <2>2, <3>1
    <3> QED
      BY <3>2
  <2>3. CASE i = Len(s) + Len(t) + 1
    <3>1. Len(t) + 1 \in 1..Len(t) + 1 /\ i = Len(s) + (Len(t) + 1)
      BY <1>1, <1>2, <2>3
    <3>2. a[i] = Append(t, e)[Len(t) + 1]
      BY <1>2, <3>1
    <3> QED
      BY <1>1, <1>4, <2>3, <3>2
  <2>4. Len(s) \in Nat /\ Len(t) \in Nat /\ i \in Int
    BY <1>1, <1>2
  <2>5. i \in 1..Len(s) \/ i - Len(s) \in 1..Len(t) \/ i = Len(s) + Len(t) + 1
    BY <2>4
  <2> QED
    BY <2>1, <2>2, <2>3, <2>5
<1> QED
  BY <1>2, <1>4, <1>5, SeqEqual DEF a, b

(* A frame of one event more is one event more.                            *)
LEMMA SinglesAppend ==
  ASSUME NEW d \in Seq(Frame), NEW f \in Frame
  PROVE  Singles(Append(d, f)) = Append(Singles(d), f.events[1])
<1> DEFINE q == Append(d, f)
           y == f.events[1]
<1>1. /\ Len(q) = Len(d) + 1 /\ Len(d) \in Nat /\ q \in Seq(Frame)
      /\ q[Len(d) + 1] = f /\ \A i \in 1..Len(d) : q[i] = d[i]
  BY AppendProperties
<1> HIDE DEF q
<1>2. /\ Singles(q) = [n \in 1..Len(d) + 1 |-> q[n].events[1]]
      /\ Singles(d) = [n \in 1..Len(d) |-> d[n].events[1]]
  BY <1>1 DEF Singles
<1> DEFINE a == Singles(q)
           b == Singles(d)
<1>3. /\ a = [n \in 1..Len(d) + 1 |-> a[n]] /\ a[Len(d) + 1] = y
      /\ b = [n \in 1..Len(d) |-> b[n]] /\ \A n \in 1..Len(d) : a[n] = b[n]
  BY <1>1, <1>2
<1> HIDE DEF a, b, y
<1> DEFINE T == {a[n] : n \in 1..Len(d) + 1}
<1>4. a \in Seq(T) /\ b \in Seq(T) /\ y \in T /\ Len(a) = Len(d) + 1 /\ Len(b) = Len(d)
  <2>1. Len(d) + 1 \in 1..Len(d) + 1 /\ \A n \in 1..Len(d) : n \in 1..Len(d) + 1
    BY <1>1
  <2>2. y \in T /\ \A n \in 1..Len(d) + 1 : a[n] \in T
    BY <1>1, <1>3, <2>1
  <2>3. \A n \in 1..Len(d) : b[n] \in T
    BY <1>3, <2>1, <2>2
  <2> HIDE DEF T
  <2>4. [n \in 1..Len(d) + 1 |-> a[n]] \in Seq(T) /\ [n \in 1..Len(d) |-> b[n]] \in Seq(T)
    BY <1>1, <2>2, <2>3
  <2> QED
    BY <1>1, <1>3, <2>2, <2>4
<1> HIDE DEF T
<1>5. /\ Append(b, y) \in Seq(T) /\ Len(Append(b, y)) = Len(d) + 1
      /\ Append(b, y)[Len(d) + 1] = y /\ \A n \in 1..Len(d) : Append(b, y)[n] = b[n]
  BY <1>4, AppendProperties
<1>6. \A n \in 1..Len(d) + 1 : n \in 1..Len(d) \/ n = Len(d) + 1
  BY <1>1
<1>7. a = Append(b, y)
  BY <1>3, <1>4, <1>5, <1>6, SeqEqual
<1> QED
  BY <1>7 DEF a, b, q, y

(* A broadcast hands over one event more.                                  *)
LEMMA HandedBroadcast ==
  ASSUME ClientTypes, NEW e \in Said, broadcastToClients(e), attached, given' = given
  PROVE  Handed' = Append(Handed, e)
<1> DEFINE f == [kind |-> "event", events |-> <<e>>]
<1>1. f \in Frame /\ f.kind = "event" /\ f.events[1] = e
  BY DEF Frame
<1>2. downlink' = Append(downlink, f) /\ downlink \in Seq(Frame)
  BY DEF broadcastToClients, ClientTypes
<1> HIDE DEF f
<1>3. /\ downlink' \in Seq(Frame) /\ Len(downlink') = Len(downlink) + 1 /\ Len(downlink) \in Nat
      /\ downlink'[Len(downlink) + 1] = f /\ \A i \in 1..Len(downlink) : downlink'[i] = downlink[i]
  BY <1>1, <1>2, AppendProperties
<1>4. Singles(downlink') = Append(Singles(downlink), e)
  BY <1>1, <1>2, SinglesAppend
<1>5. CASE Fresh
  <2>1. /\ Tail(downlink) \in Seq(Frame) /\ downlink[1].events \in Seq(Said)
        /\ Handed = downlink[1].events \o Singles(Tail(downlink))
        /\ Singles(Tail(downlink)) \in Seq(Said)
    BY <1>5, HandedIs
  <2>2. downlink # <<>> /\ downlink' # <<>> /\ Head(downlink') = downlink'[1] /\ Head(downlink) = downlink[1]
        /\ 1 \in 1..Len(downlink)
    BY <1>2, <1>3, <1>5, Rests DEF Fresh
  <2>3. downlink'[1] = downlink[1] /\ Head(downlink').kind = "snapshot"
    BY <1>3, <1>5, <2>2 DEF Fresh
  <2>4. Handed' = downlink[1].events \o Singles(Tail(downlink'))
    BY <2>2, <2>3 DEF Handed, Singles
  <2>5. Tail(downlink') = Append(Tail(downlink), f)
    BY <1>1, <1>2, <2>2
  <2>6. Singles(Tail(downlink')) = Append(Singles(Tail(downlink)), e)
    <3> DEFINE q == Tail(downlink')
               p == Tail(downlink)
    <3>2. p \in Seq(Frame) /\ q = Append(p, f)
      BY <2>1, <2>5
    <3> HIDE DEF p, q
    <3>4. Singles(q) = Append(Singles(p), e)
      BY <1>1, <3>2, SinglesAppend
    <3> QED
      BY <3>4 DEF p, q
  <2> DEFINE x == downlink[1].events
             y == Singles(Tail(downlink))
  <2>7. x \in Seq(Said) /\ y \in Seq(Said) /\ Handed = x \o y /\ Handed' = x \o Append(y, e)
    BY <2>1, <2>4, <2>6
  <2> HIDE DEF x, y
  <2> QED
    BY <2>7, JoinedAppend
<1>6. CASE ~Fresh
  <2>1. /\ Handed = given \o Singles(downlink) /\ Singles(downlink) \in Seq(Said)
        /\ \A n \in DOMAIN downlink : downlink[n].kind = "event"
    BY <1>6, HandedIs
  <2>2. Head(downlink') = downlink'[1] /\ downlink' # <<>>
    BY <1>3
  <2>3. Head(downlink').kind = "event"
    <3>1. CASE Len(downlink) = 0
      BY <1>1, <1>3, <2>2, <3>1
    <3>2. CASE Len(downlink) > 0
      <4>1. 1 \in 1..Len(downlink) /\ 1 \in DOMAIN downlink
        BY <1>2, <1>3, <3>2
      <4> QED
        BY <1>3, <2>1, <2>2, <4>1
    <3> QED
      BY <1>3, <3>1, <3>2
  <2>4. Handed' = given \o Singles(downlink')
    BY <2>2, <2>3 DEF Handed, Singles
  <2>5. given \in Seq(Said)
    BY DEF ClientTypes
  <2> QED
    BY <1>4, <2>1, <2>4, <2>5, JoinedAppend
<1> QED
  BY <1>5, <1>6

(* What is in a sequence, and that it is there once.                       *)
Elements(s) == {s[i] : i \in DOMAIN s}
Once(s)     == \A i, j \in DOMAIN s : s[i] = s[j] => i = j

(* One more at the end,                                                    *)
LEMMA ElementsAppend ==
  ASSUME NEW S, NEW s \in Seq(S), NEW e \in S
  PROVE  /\ Elements(Append(s, e)) = Elements(s) \cup {e}
         /\ Once(s) /\ e \notin Elements(s) => Once(Append(s, e))
<1> DEFINE a == Append(s, e)
           N == Len(s)
<1>1. /\ DOMAIN a = 1..N + 1 /\ DOMAIN s = 1..N /\ N \in Nat
      /\ a[N + 1] = e /\ \A i \in 1..N : a[i] = s[i]
  BY AppendProperties
<1> HIDE DEF a, N
<1>2. \A i \in 1..N + 1 : i \in 1..N \/ i = N + 1
  BY <1>1
<1>3. 1..N \subseteq 1..N + 1 /\ N + 1 \in 1..N + 1
  BY <1>1
<1>4. Elements(a) = Elements(s) \cup {e}
  BY <1>1, <1>2, <1>3 DEF Elements
<1>5. Once(s) /\ e \notin Elements(s) => Once(a)
  BY <1>1, <1>2 DEF Once, Elements
<1> QED
  BY <1>4, <1>5 DEF a

(* one less at the front,                                                  *)
LEMMA ElementsTail ==
  ASSUME NEW S, NEW s \in Seq(S), s # <<>>
  PROVE  /\ Head(s) \in Elements(s) /\ Elements(Tail(s)) \subseteq Elements(s)
         /\ Elements(s) \subseteq Elements(Tail(s)) \cup {Head(s)}
         /\ Once(s) => Once(Tail(s)) /\ Head(s) \notin Elements(Tail(s))
<1> DEFINE t == Tail(s)
           N == Len(s)
<1>1. /\ DOMAIN t = 1..N - 1 /\ DOMAIN s = 1..N /\ N \in Nat /\ N >= 1
      /\ Head(s) = s[1] /\ \A i \in 1..N - 1 : t[i] = s[i + 1]
  BY Rests
<1> HIDE DEF t, N
<1>2. /\ 1 \in 1..N /\ \A i \in 1..N - 1 : i + 1 \in 1..N /\ i + 1 # 1
      /\ \A i \in 1..N : i = 1 \/ (i - 1 \in 1..N - 1 /\ (i - 1) + 1 = i)
      /\ \A i, j \in 1..N - 1 : i + 1 = j + 1 => i = j
  BY <1>1
<1>3. Head(s) \in Elements(s) /\ Elements(t) \subseteq Elements(s)
  BY <1>1, <1>2 DEF Elements
<1>4. Elements(s) \subseteq Elements(t) \cup {Head(s)}
  <2>1. ASSUME NEW i \in 1..N PROVE s[i] \in Elements(t) \cup {Head(s)}
    <3>1. CASE i = 1
      BY <1>1, <3>1
    <3>2. CASE i - 1 \in 1..N - 1 /\ (i - 1) + 1 = i
      BY <1>1, <3>2 DEF Elements
    <3> QED
      BY <1>2, <3>1, <3>2
  <2> QED
    BY <1>1, <2>1 DEF Elements
<1>5. ASSUME Once(s) PROVE Once(t) /\ Head(s) \notin Elements(t)
  <2>a. \A i, j \in 1..N : s[i] = s[j] => i = j
    BY <1>1, <1>5 DEF Once
  <2>1. \A i \in 1..N - 1 : t[i] = s[i + 1] /\ s[i + 1] # s[1]
    BY <1>1, <1>2, <2>a
  <2>2. ASSUME NEW i \in 1..N - 1, NEW j \in 1..N - 1, t[i] = t[j] PROVE i = j
    <3>1. i + 1 \in 1..N /\ j + 1 \in 1..N /\ s[i + 1] = s[j + 1]
      BY <1>1, <1>2, <2>2
    <3>2. i + 1 = j + 1
      BY <2>a, <3>1
    <3> QED
      BY <1>2, <3>2
  <2> QED
    BY <1>1, <2>1, <2>2 DEF Once, Elements
<1> QED
  BY <1>3, <1>4, <1>5 DEF t

(* the newest of them,                                                     *)
LEMMA ElementsNewest ==
  ASSUME NEW S, NEW s \in Seq(S), NEW n \in Nat
  PROVE  Elements(Newest(s, n)) \subseteq Elements(s) /\ (Once(s) => Once(Newest(s, n)))
<1> DEFINE t == Newest(s, n)
           N == Len(s)
<1>1. PICK k \in Nat : t \in Seq(S) /\ CutBy(t, s, k)
  BY NewestIs
<1> HIDE DEF t
<1>2. /\ DOMAIN t = 1..N - k /\ DOMAIN s = 1..N /\ N \in Nat /\ k \in Nat
      /\ \A i \in 1..N - k : t[i] = s[i + k]
  BY <1>1 DEF CutBy
<1> HIDE DEF t, N
<1>3. \A i \in 1..N - k : i + k \in 1..N
  BY <1>2
<1>4. \A i, j \in 1..N - k : i + k = j + k => i = j
  BY <1>2
<1>5. Elements(t) \subseteq Elements(s)
  BY <1>2, <1>3 DEF Elements
<1>6. Once(s) => Once(t)
  BY <1>2, <1>3, <1>4 DEF Once
<1> QED
  BY <1>5, <1>6 DEF t

(* none,                                                                   *)
LEMMA ElementsOfNone == Elements(<<>>) = {} /\ Once(<<>>)
BY DEF Elements, Once

(* and where they come from.                                               *)
LEMMA ElementsIn ==
  ASSUME NEW S, NEW s \in Seq(S)
  PROVE  Elements(s) \subseteq S
BY ElementOfSeq DEF Elements

(* An element in front of a sequence.                                      *)
LEMMA OneInFront ==
  ASSUME NEW S, NEW s \in Seq(S), NEW r \in Seq(S), NEW b \in Seq(S)
  PROVE  /\ Len(s) = 1 /\ Len(b) = Len(r) + 1 /\ b[1] = s[1]
         /\ \A i \in 1..Len(r) : b[i + 1] = r[i]
         => b = s \o r
<1> DEFINE a == s \o r
           N == Len(r)
<1>1. /\ a \in Seq(S) /\ Len(a) = Len(s) + N /\ N \in Nat
      /\ \A i \in 1..Len(s) : a[i] = s[i]
      /\ \A i \in 1..N : a[Len(s) + i] = r[i]
  BY Joined
<1> SUFFICES ASSUME Len(s) = 1, Len(b) = N + 1, b[1] = s[1], \A i \in 1..N : b[i + 1] = r[i]
             PROVE  b = a
  OBVIOUS
<1> HIDE DEF a, N
<1>2. Len(a) = N + 1 /\ Len(b) = N + 1 /\ a[1] = s[1] /\ \A i \in 1..N : a[1 + i] = r[i]
  BY <1>1 DEF N
<1>3. ASSUME NEW i \in 1..N + 1 PROVE b[i] = a[i]
  <2>1. CASE i = 1
    BY <1>2, <2>1
  <2>2. CASE i # 1
    <3>1. i - 1 \in 1..N /\ 1 + (i - 1) = i /\ (i - 1) + 1 = i
      BY <1>1, <2>2
    <3>2. a[i] = r[i - 1]
      BY <1>2, <3>1
    <3>3. b[i] = r[i - 1]
      BY <3>1
    <3> QED
      BY <3>2, <3>3
  <2> QED
    BY <2>1, <2>2
<1> QED
  BY <1>1, <1>2, <1>3, SeqEqual DEF a

(* The first of the frames is taken off them.                              *)
LEMMA SinglesTail ==
  ASSUME NEW d \in Seq(Frame), d # <<>>, \A n \in DOMAIN d : Len(d[n].events) = 1
  PROVE  Singles(d) = d[1].events \o Singles(Tail(d))
<1> DEFINE q == Tail(d)
           h == d[1].events
           N == Len(d)
<1>1. /\ q \in Seq(Frame) /\ Len(q) = N - 1 /\ N \in Nat /\ N >= 1
      /\ \A i \in 1..N - 1 : q[i] = d[i + 1]
  BY Rests
<1>2. d[1] \in Frame /\ 1 \in DOMAIN d
  BY <1>1, ElementOfSeq
<1>3. h \in Seq(Said) /\ Len(h) = 1
  BY <1>2 DEF Frame
<1> HIDE DEF q, h, N
<1>4. \A n \in DOMAIN q : Len(q[n].events) = 1
  <2>1. DOMAIN q = 1..N - 1 /\ DOMAIN d = 1..N
    BY <1>1 DEF N
  <2>2. \A n \in 1..N - 1 : n + 1 \in 1..N
    BY <1>1
  <2> QED
    BY <1>1, <2>1, <2>2
<1> DEFINE b == Singles(d)
           r == Singles(q)
<1>5. b \in Seq(Said) /\ Len(b) = N /\ \A n \in 1..N : b[n] = d[n].events[1]
  BY SinglesAre DEF Frame, N
<1>6. r \in Seq(Said) /\ Len(r) = N - 1 /\ \A n \in 1..N - 1 : r[n] = q[n].events[1]
  BY <1>1, <1>4, SinglesAre DEF Frame
<1> HIDE DEF b, r
<1>7. Len(b) = Len(r) + 1 /\ b[1] = h[1] /\ \A i \in 1..Len(r) : b[i + 1] = r[i]
  <2>1. 1 \in 1..N /\ \A i \in 1..N - 1 : i + 1 \in 1..N
    BY <1>1
  <2>2. b[1] = h[1] /\ \A i \in 1..N - 1 : b[i + 1] = r[i]
    BY <1>1, <1>5, <1>6, <2>1 DEF h
  <2>3. Len(r) = N - 1 /\ Len(b) = N /\ N - 1 + 1 = N
    BY <1>1, <1>5, <1>6
  <2> QED
    BY <2>2, <2>3
<1>8. b = h \o r
  BY <1>3, <1>5, <1>6, <1>7, OneInFront
<1> QED
  BY <1>8 DEF b, r, h, q

(* What the client gets it has been handed already.                        *)
LEMMA HandedReceive ==
  ASSUME ClientTypes, Receive
  PROVE  /\ Handed' = Handed
         /\ Handed \in Seq(Said) /\ given' \in Seq(Said)
         /\ \A i \in DOMAIN given' : i \in DOMAIN Handed /\ given'[i] = Handed[i]
<1>1. /\ downlink # <<>> /\ downlink' = Tail(downlink) /\ downlink \in Seq(Frame)
      /\ Head(downlink) = downlink[1] /\ downlink[1] \in Frame /\ given \in Seq(Said)
      /\ Len(downlink) \in Nat /\ Len(downlink) >= 1
      /\ Tail(downlink) \in Seq(Frame) /\ Len(Tail(downlink)) = Len(downlink) - 1
      /\ \A i \in 1..Len(downlink) - 1 : Tail(downlink)[i] = downlink[i + 1]
  <2>1. downlink \in Seq(Frame) /\ downlink # <<>>
    BY DEF ClientTypes, Receive
  <2> QED
    BY <2>1, Rests DEF ClientTypes, Receive
<1>2. CASE Fresh
  <2>1. /\ downlink[1].events \in Seq(Said)
        /\ \A n \in DOMAIN Tail(downlink) : Tail(downlink)[n].kind = "event"
        /\ Handed = downlink[1].events \o Singles(Tail(downlink))
        /\ Singles(Tail(downlink)) \in Seq(Said) /\ Handed \in Seq(Said)
    BY <1>2, HandedIs
  <2>2. given' = downlink[1].events
    BY <1>1, <1>2 DEF Receive, Fresh
  <2>3. ~(downlink' # <<>> /\ Head(downlink').kind = "snapshot")
    <3>1. ASSUME downlink' # <<>> PROVE Head(downlink').kind = "event"
      <4>1. 1 \in DOMAIN Tail(downlink) /\ Head(downlink') = Tail(downlink)[1]
        BY <1>1, <3>1, Rests
      <4> QED
        BY <2>1, <4>1
    <3> QED
      BY <3>1
  <2>4. Handed' = given' \o Singles(Tail(downlink))
    BY <1>1, <2>3 DEF Handed, Singles
  <2>5. \A i \in 1..Len(given') : Handed[i] = given'[i]
    BY <2>1, <2>2, Joined
  <2>6. Len(Handed) = Len(given') + Len(Singles(Tail(downlink))) /\ Len(given') \in Nat
        /\ Len(Singles(Tail(downlink))) \in Nat
    BY <2>1, <2>2, Joined
  <2>7. DOMAIN given' = 1..Len(given') /\ DOMAIN Handed = 1..Len(Handed)
    BY <2>1, <2>2
  <2>8. 1..Len(given') \subseteq 1..Len(Handed)
    BY <2>6
  <2> QED
    BY <2>1, <2>2, <2>4, <2>5, <2>7, <2>8
<1>3. CASE ~Fresh
  <2>1. /\ \A n \in DOMAIN downlink : downlink[n].kind = "event" /\ Len(downlink[n].events) = 1
        /\ Handed = given \o Singles(downlink)
        /\ Singles(downlink) \in Seq(Said) /\ Handed \in Seq(Said)
    BY <1>3, HandedIs
  <2>a. 1 \in DOMAIN downlink
    BY <1>1
  <2>2. downlink[1].kind = "event"
    BY <2>1, <2>a
  <2>3. given' = given \o downlink[1].events
    BY <1>1, <2>2 DEF Receive
  <2>4. \A n \in DOMAIN Tail(downlink) : /\ Tail(downlink)[n].kind = "event"
                                         /\ Len(Tail(downlink)[n].events) = 1
    <3>1. \A n \in DOMAIN Tail(downlink) : n + 1 \in DOMAIN downlink /\ Tail(downlink)[n] = downlink[n + 1]
      BY <1>1
    <3> QED
      BY <2>1, <3>1
  <2>5. ~(downlink' # <<>> /\ Head(downlink').kind = "snapshot")
    <3>1. ASSUME downlink' # <<>> PROVE Head(downlink').kind = "event"
      <4>1. 1 \in DOMAIN Tail(downlink) /\ Head(downlink') = Tail(downlink)[1]
        BY <1>1, <3>1, Rests
      <4> QED
        BY <2>4, <4>1
    <3> QED
      BY <3>1
  <2>6. Handed' = given' \o Singles(Tail(downlink))
    BY <1>1, <2>5 DEF Handed, Singles
  <2> DEFINE h == downlink[1].events
             r == Singles(Tail(downlink))
  <2>7. h \in Seq(Said) /\ r \in Seq(Said) /\ Singles(downlink) = h \o r
    <3>1. downlink[1].events \in Seq(Said)
      BY <1>1 DEF Frame
    <3>2. Singles(Tail(downlink)) \in Seq(Said)
      BY <1>1, <2>4, SinglesAre DEF Frame
    <3> QED
      BY <1>1, <2>1, <3>1, <3>2, SinglesTail
  <2> HIDE DEF h, r
  <2>8. given' = given \o h /\ Handed = given \o (h \o r) /\ Handed' = given' \o r
    BY <2>1, <2>3, <2>6, <2>7 DEF h, r
  <2>9. Handed = Handed'
    <3>1. given \in Seq(Said) /\ h \in Seq(Said) /\ r \in Seq(Said)
      BY <1>1, <2>7
    <3>2. (given \o h) \o r = given \o (h \o r)
      BY <3>1, ConcatAssociative
    <3> QED
      BY <2>8, <3>2
  <2>10. /\ given' \in Seq(Said) /\ Len(Handed) = Len(given') + Len(r) /\ Len(given') \in Nat /\ Len(r) \in Nat
         /\ \A i \in 1..Len(given') : Handed[i] = given'[i]
    <3>1. given' \in Seq(Said)
      BY <1>1, <2>7, <2>8, ConcatProperties
    <3> QED
      BY <2>7, <2>8, <2>9, <3>1, Joined
  <2>11. 1..Len(given') \subseteq 1..Len(Handed) /\ DOMAIN given' = 1..Len(given')
         /\ DOMAIN Handed = 1..Len(Handed)
    BY <2>1, <2>10
  <2> QED
    BY <2>1, <2>9, <2>10, <2>11
<1> QED
  BY <1>2, <1>3

-----------------------------------------------------------------------------
(* No event is in two places on its way, or twice in one.                  *)
Frames(c) == Elements(wires[c].frames)
OnWires   == UNION {Frames(c) : c \in DOMAIN wires}
Flying    == Elements(queue) \cup OnWires \cup Elements(inbox)

FlightInv ==
  /\ Once(queue) /\ Once(inbox) /\ Elements(queue) \cap Elements(inbox) = {}
  /\ \A c \in DOMAIN wires :
        /\ Once(wires[c].frames)
        /\ Frames(c) \cap (Elements(queue) \cup Elements(inbox)) = {}
        /\ \A d \in DOMAIN wires : c # d => Frames(c) \cap Frames(d) = {}

(* Everything on its way has been said.                                    *)
LEMMA FlyingSaid ==
  ASSUME TypeInv
  PROVE  /\ Flying \subseteq Said
         /\ \A c \in DOMAIN wires : wires[c].frames \in Seq(Said)
<1>1. \A c \in DOMAIN wires : wires[c].frames \in Seq(Said)
  <2>1. \A c \in DOMAIN wires : wires[c] \in SaidWire
    BY ElementOfSeq DEF TypeInv, WireTypes
  <2> QED
    BY <2>1 DEF SaidWire
<1>2. \A c \in DOMAIN wires : Frames(c) \subseteq Said
  BY <1>1, ElementsIn DEF Frames
<1>3. Elements(queue) \subseteq Said /\ Elements(inbox) \subseteq Said
  BY ElementsIn DEF TypeInv, AgentTypes, RelayTypes
<1> QED
  BY <1>1, <1>2, <1>3 DEF Flying, OnWires

(* A new event on its way, in the queue or on the connection.              *)
LEMMA FlightMore ==
  ASSUME TypeInv, FlightInv, NEW e, e \notin Said, inbox' = inbox,
         Once(queue'), Elements(queue') \subseteq Elements(queue) \cup {e},
         \/ wires' = wires
         \/ link \in DOMAIN wires /\ wires' = Carried(link, e) /\ e \notin Elements(queue')
  PROVE  FlightInv' /\ Flying' \subseteq Flying \cup {e}
<1>1. e \notin Flying /\ \A c \in DOMAIN wires : wires[c].frames \in Seq(Said)
  BY FlyingSaid
<1>2. \A c \in DOMAIN wires : e \notin Frames(c)
  BY <1>1 DEF Flying, OnWires
<1>3. e \notin Elements(queue) /\ e \notin Elements(inbox)
  BY <1>1 DEF Flying
<1>4. CASE wires' = wires
  <2>1. \A c \in DOMAIN wires : Frames(c)' = Frames(c)
    BY <1>4 DEF Frames
  <2>2. FlightInv'
    BY <1>2, <1>3, <1>4, <2>1 DEF FlightInv
  <2> QED
    BY <1>4, <2>1, <2>2 DEF Flying, OnWires
<1>5. CASE link \in DOMAIN wires /\ wires' = Carried(link, e) /\ e \notin Elements(queue') /\ wires' # wires
  <2>0. PICK l \in DOMAIN wires : l = link
    BY <1>5
  <2> DEFINE f == wires[l].frames
  <2>1. wires' = [wires EXCEPT ![l] = [wires[l] EXCEPT !.frames = Append(f, e)]]
    BY <1>5, <2>0 DEF Carried
  <2>2. DOMAIN wires' = DOMAIN wires /\ \A c \in DOMAIN wires : c # l => wires'[c] = wires[c]
    BY <2>1
  <2>3. wires'[l].frames = Append(f, e)
    <3>1. wires[l] \in SaidWire
      BY ElementOfSeq DEF TypeInv, WireTypes
    <3> QED
      BY <1>5, <2>1, <3>1 DEF SaidWire
  <2>4. f \in Seq(Said \cup {e}) /\ e \in Said \cup {e}
    BY <1>1, <1>5
  <2>5. e \notin Elements(f) /\ Once(f)
    BY <1>2, <1>5 DEF FlightInv, Frames
  <2> HIDE DEF f
  <2>6. Elements(Append(f, e)) = Elements(f) \cup {e} /\ Once(Append(f, e))
    BY <2>4, <2>5, ElementsAppend
  <2>7. Frames(l)' = Frames(l) \cup {e}
    BY <2>3, <2>6 DEF Frames, f
  <2>8. \A c \in DOMAIN wires : c # l => Frames(c)' = Frames(c) /\ wires'[c].frames = wires[c].frames
    BY <2>2 DEF Frames
  <2>9. Once(wires'[l].frames)
    BY <2>3, <2>6
  <2>10. ASSUME NEW c \in DOMAIN wires
         PROVE  /\ Once(wires'[c].frames)
                /\ Frames(c)' \cap (Elements(queue') \cup Elements(inbox)) = {}
                /\ \A d \in DOMAIN wires : c # d => Frames(c)' \cap Frames(d)' = {}
    <3>1. CASE c = l
      BY <1>2, <1>3, <1>5, <2>7, <2>8, <2>9, <3>1 DEF FlightInv
    <3>2. CASE c # l
      BY <1>2, <1>3, <1>5, <2>7, <2>8, <3>2 DEF FlightInv
    <3> QED
      BY <3>1, <3>2
  <2>11. FlightInv'
    BY <1>3, <2>2, <2>10 DEF FlightInv
  <2>12. \A c \in DOMAIN wires : Frames(c)' \subseteq Frames(c) \cup {e}
    BY <2>7, <2>8
  <2> QED
    BY <2>2, <2>11, <2>12 DEF Flying, OnWires
<1> QED
  BY <1>4, <1>5

(* Fewer events on their way.                                              *)
LEMMA FlightLess ==
  ASSUME FlightInv, DOMAIN wires' = DOMAIN wires,
         Once(queue'), Elements(queue') \subseteq Elements(queue),
         Once(inbox'), Elements(inbox') \subseteq Elements(inbox),
         \A c \in DOMAIN wires : wires'[c].frames \in {wires[c].frames, <<>>}
  PROVE  FlightInv' /\ Flying' \subseteq Flying
<1>1. \A c \in DOMAIN wires : Frames(c)' \subseteq Frames(c) /\ Once(wires'[c].frames)
  BY ElementsOfNone DEF Frames, FlightInv
<1>2. FlightInv'
  BY <1>1 DEF FlightInv
<1>3. OnWires' \subseteq OnWires
  BY <1>1 DEF OnWires
<1> QED
  BY <1>2, <1>3 DEF Flying

(* The queue is sent on a new connection.                                  *)
LEMMA FlightConnect ==
  ASSUME TypeInv, FlightInv, Connect
  PROVE  FlightInv' /\ Flying' \subseteq Flying
<1>1. PICK N \in Nat : wires \in Seq(SaidWire) /\ N = Len(wires) /\ DOMAIN wires = 1..N
  <2>1. Len(wires) \in Nat /\ wires \in Seq(SaidWire) /\ DOMAIN wires = 1..Len(wires)
    BY DEF TypeInv, WireTypes
  <2> QED
    BY <2>1
<1>2. queue' = <<>> /\ inbox' = inbox
  BY DEF Connect, relay
<1>3. /\ DOMAIN wires' = 1..N + 1 /\ \A c \in 1..N : wires'[c] = wires[c]
      /\ wires'[N + 1].frames = queue
  <2> DEFINE w == [run |-> run, frames |-> queue, open |-> TRUE]
  <2>1. wires' = Append(wires, w) /\ w.frames = queue
    BY DEF Connect
  <2> HIDE DEF w
  <2>2. wires \in Seq(SaidWire \cup {w})
    BY <1>1
  <2>3. /\ Len(wires') = N + 1 /\ wires'[N + 1] = w /\ \A c \in 1..N : wires'[c] = wires[c]
        /\ wires' \in Seq(SaidWire \cup {w})
    BY <1>1, <2>1, <2>2, AppendProperties
  <2> QED
    BY <2>1, <2>3
<1>4. /\ \A c \in 1..N : Frames(c)' = Frames(c) /\ wires'[c].frames = wires[c].frames
      /\ Frames(N + 1)' = Elements(queue)
  BY <1>3 DEF Frames
<1>5. \A c \in 1..N + 1 : c \in 1..N \/ c = N + 1
  BY <1>1
<1>6. ASSUME NEW c \in 1..N + 1
      PROVE  /\ Once(wires'[c].frames) /\ Frames(c)' \cap Elements(inbox) = {}
             /\ \A d \in 1..N + 1 : c # d => Frames(c)' \cap Frames(d)' = {}
  <2>1. CASE c \in 1..N
    BY <1>1, <1>4, <1>5, <2>1 DEF FlightInv
  <2>2. CASE c = N + 1
    BY <1>1, <1>3, <1>4, <1>5, <2>2 DEF FlightInv
  <2> QED
    BY <1>5, <2>1, <2>2
<1>7. FlightInv'
  BY <1>2, <1>3, <1>6, ElementsOfNone DEF FlightInv
<1>8. \A c \in 1..N + 1 : Frames(c)' \subseteq Flying
  BY <1>1, <1>4, <1>5 DEF Flying, OnWires
<1>9. Elements(queue') \subseteq Flying /\ Elements(inbox') \subseteq Flying
  BY <1>2, ElementsOfNone DEF Flying
<1> QED
  BY <1>3, <1>7, <1>8, <1>9 DEF Flying, OnWires

(* A frame comes to the relay.                                             *)
LEMMA FlightArrive ==
  ASSUME TypeInv, FlightInv, Arrive
  PROVE  FlightInv' /\ Flying' \subseteq Flying /\ Elements(inbox) \subseteq Elements(inbox')
<1>1. PICK c \in DOMAIN wires :
        /\ wires[c].frames # <<>> /\ inbox' = Append(inbox, Head(wires[c].frames))
        /\ wires' = [wires EXCEPT ![c].frames = Tail(@)] /\ queue' = queue
  BY DEF Arrive, agent
<1> DEFINE f == wires[c].frames
           e == Head(f)
<1>2. f \in Seq(Said) /\ f # <<>>
  BY <1>1, FlyingSaid
<1>3. /\ DOMAIN wires' = DOMAIN wires /\ \A d \in DOMAIN wires : d # c => wires'[d] = wires[d]
      /\ wires'[c].frames = Tail(f)
  <2>1. wires[c] \in SaidWire
    BY <1>1, ElementOfSeq DEF TypeInv, WireTypes
  <2>2. wires' = [wires EXCEPT ![c] = [wires[c] EXCEPT !.frames = Tail(f)]]
    BY <1>1
  <2> QED
    BY <2>1, <2>2 DEF SaidWire
<1> HIDE DEF f
<1>4. Once(f) /\ Elements(f) = Frames(c)
  BY DEF FlightInv, Frames, f
<1>5. /\ e \in Elements(f) /\ Elements(Tail(f)) \subseteq Elements(f)
      /\ e \notin Elements(Tail(f)) /\ Once(Tail(f)) /\ e \in Said
  BY <1>2, <1>4, ElementsTail, Rests
<1>6. inbox \in Seq(Said) /\ inbox' = Append(inbox, e) /\ e \notin Elements(inbox) /\ Once(inbox)
  <2>1. inbox \in Seq(Said) /\ Once(inbox) /\ Frames(c) \cap Elements(inbox) = {}
    BY <1>1 DEF TypeInv, RelayTypes, FlightInv
  <2> QED
    BY <1>1, <1>4, <1>5, <2>1 DEF f
<1> HIDE DEF e
<1>7. Elements(inbox') = Elements(inbox) \cup {e} /\ Once(inbox')
  BY <1>5, <1>6, ElementsAppend
<1>8. /\ Frames(c)' \subseteq Frames(c) /\ e \in Frames(c) /\ e \notin Frames(c)'
      /\ Once(wires'[c].frames)
  BY <1>3, <1>4, <1>5 DEF Frames
<1>9. \A d \in DOMAIN wires : d # c => /\ Frames(d)' = Frames(d) /\ e \notin Frames(d)
                                       /\ Once(wires'[d].frames)
  <2>1. \A d \in DOMAIN wires : d # c => Frames(d)' = Frames(d) /\ Once(wires'[d].frames)
    BY <1>3 DEF Frames, FlightInv
  <2>2. \A d \in DOMAIN wires : d # c => Frames(c) \cap Frames(d) = {}
    BY DEF FlightInv
  <2> QED
    BY <1>8, <2>1, <2>2
<1>10. e \notin Elements(queue)
  BY <1>8 DEF FlightInv
<1>11. FlightInv'
  <2>1. ASSUME NEW d \in DOMAIN wires
        PROVE  /\ Once(wires'[d].frames)
               /\ Frames(d)' \cap (Elements(queue) \cup Elements(inbox')) = {}
               /\ \A b \in DOMAIN wires : d # b => Frames(d)' \cap Frames(b)' = {}
    <3>1. CASE d = c
      BY <1>7, <1>8, <1>9, <3>1 DEF FlightInv
    <3>2. CASE d # c
      BY <1>7, <1>8, <1>9, <3>2 DEF FlightInv
    <3> QED
      BY <3>1, <3>2
  <2>2. Elements(queue) \cap Elements(inbox') = {} /\ Once(queue)
    BY <1>7, <1>10 DEF FlightInv
  <2> QED
    BY <1>1, <1>3, <1>7, <2>1, <2>2 DEF FlightInv
<1>12. \A d \in DOMAIN wires : Frames(d)' \subseteq Frames(d)
  BY <1>8, <1>9
<1>13. OnWires' \subseteq OnWires /\ e \in OnWires
  BY <1>3, <1>8, <1>12 DEF OnWires
<1> QED
  BY <1>1, <1>7, <1>11, <1>13 DEF Flying

(* There is always something that has not been said.                       *)
LEMMA NothingFresh ==
  ASSUME TypeInv
  PROVE  \E e : e \notin Said
<1> DEFINE e == create(run, sequence + 1, NoSession, "host.disconnected", <<>>, "none")
<1>1. e.at = run /\ e.sequence = sequence + 1
  BY DEF create
<1>2. run \in Nat /\ sequence \in Nat
  BY Numbers DEF TypeInv
<1>3. e \notin Said
  BY <1>1, <1>2 DEF Said
<1> QED
  BY <1>3

(* The event at the head of the relay's queue is handled.                  *)
LEMMA FlightPop ==
  ASSUME TypeInv, FlightInv, inbox # <<>>, inbox' = Tail(inbox), queue' = queue, wires' = wires
  PROVE  /\ FlightInv' /\ Flying' \subseteq Flying
         /\ Head(inbox) \in Flying /\ Head(inbox) \notin Flying'
         /\ Head(inbox) \in Said /\ inbox \in Seq(Said)
<1>1. inbox \in Seq(Said) /\ Once(inbox)
  BY DEF TypeInv, RelayTypes, FlightInv
<1>2. /\ Head(inbox) \in Elements(inbox) /\ Elements(inbox') \subseteq Elements(inbox)
      /\ Once(inbox') /\ Head(inbox) \notin Elements(inbox') /\ Head(inbox) \in Said
  BY <1>1, ElementsTail, Rests
<1>3. FlightInv' /\ Flying' \subseteq Flying
  BY <1>2, FlightLess DEF FlightInv
<1>4. \A c \in DOMAIN wires : Head(inbox) \notin Frames(c)
  BY <1>2 DEF FlightInv
<1>5. Head(inbox) \notin Elements(queue) /\ Head(inbox) \notin OnWires
  BY <1>2, <1>4 DEF FlightInv, OnWires
<1>6. OnWires' = OnWires
  BY DEF OnWires, Frames
<1> QED
  BY <1>1, <1>2, <1>3, <1>5, <1>6 DEF Flying

(* What the agent does to what is on its way.                              *)
LEMMA FlightEmit ==
  ASSUME TypeInv, FlightInv, NEW session, NEW type, NEW subject, NEW value,
         Emit(session, type, subject, value), inbox' = inbox
  PROVE  LET e == create(run, sequence + 1, session, type, subject, value)
         IN  FlightInv' /\ e \notin Said /\ Flying' \subseteq Flying \cup {e}
<1> DEFINE e == create(run, sequence + 1, session, type, subject, value)
<1>1. publish(e)
  BY DEF Emit
<1>2. e \notin Said
  <2>1. e.at = run /\ e.sequence = sequence + 1
    BY DEF create
  <2>2. run \in Nat /\ sequence \in Nat
    BY Numbers DEF TypeInv
  <2> QED
    BY <2>1, <2>2 DEF Said
<1> HIDE DEF e
<1>3. queue \in Seq(Said) /\ Once(queue) /\ e \notin Elements(queue)
  <2>1. queue \in Seq(Said) /\ Once(queue)
    BY DEF TypeInv, AgentTypes, FlightInv
  <2> QED
    BY <1>2, <2>1, ElementsIn
<1>4. FlightInv' /\ Flying' \subseteq Flying \cup {e}
  <2>1. CASE link # 0
    <3>1. link \in DOMAIN wires
      BY <2>1 DEF TypeInv, WireTypes
    <3>2. wires' = Carried(link, e) /\ queue' = queue
      BY <1>1, <2>1 DEF publish
    <3> QED
      BY <1>2, <1>3, <3>1, <3>2, FlightMore
  <2>2. CASE link = 0
    <3>1. wires' = wires /\ queue' = Newest(Append(queue, e), MaxQueue)
      BY <1>1, <2>2 DEF publish
    <3>2. queue \in Seq(Said \cup {e}) /\ e \in Said \cup {e}
      BY <1>3
    <3>3. /\ Elements(Append(queue, e)) = Elements(queue) \cup {e} /\ Once(Append(queue, e))
          /\ Append(queue, e) \in Seq(Said \cup {e})
      BY <1>3, <3>2, ElementsAppend, AppendProperties
    <3>4. MaxQueue \in Nat
      BY SizeAssumption
    <3>5. Elements(queue') \subseteq Elements(queue) \cup {e} /\ Once(queue')
      BY <3>1, <3>3, <3>4, ElementsNewest
    <3> QED
      BY <1>2, <3>1, <3>5, FlightMore
  <2> QED
    BY <2>1, <2>2
<1> QED
  BY <1>2, <1>4 DEF e

(* A run starts with an event of its own,                                  *)
LEMMA FlightStart ==
  ASSUME TypeInv, FlightInv, StartAgent
  PROVE  LET e == create(run + 1, 1, NoSession, "host.connected", <<>>, "none")
         IN  FlightInv' /\ e \notin Said /\ Flying' \subseteq Flying \cup {e}
<1> DEFINE e == create(run + 1, 1, NoSession, "host.connected", <<>>, "none")
<1>1. e \notin Said
  <2>1. e.at = run + 1
    BY DEF create
  <2>2. run \in Nat
    BY Numbers DEF TypeInv
  <2> QED
    BY <2>1, <2>2 DEF Said
<1>2. queue' = <<e>> /\ wires' = wires /\ inbox' = inbox
  BY DEF StartAgent, relay
<1> HIDE DEF e
<1>3. Elements(queue') = {e} /\ Once(queue')
  BY <1>2 DEF Elements, Once
<1> QED
  BY <1>1, <1>2, <1>3, FlightMore DEF e

(* and ends with a goodbye.                                                *)
LEMMA FlightStop ==
  ASSUME TypeInv, FlightInv, StopAgent
  PROVE  FlightInv' /\ \E e : e \notin Said /\ Flying' \subseteq Flying \cup {e}
<1> DEFINE e == create(run, sequence + 1, NoSession, "host.disconnected", <<>>, "none")
<1>1. e \notin Said
  <2>1. e.at = run /\ e.sequence = sequence + 1
    BY DEF create
  <2>2. run \in Nat /\ sequence \in Nat
    BY Numbers DEF TypeInv
  <2> QED
    BY <2>1, <2>2 DEF Said
<1>2. /\ queue' = <<>> /\ inbox' = inbox
      /\ wires' = IF link # 0 THEN Carried(link, e) ELSE wires
  BY DEF StopAgent, Ended, relay
<1>3. link # 0 => link \in DOMAIN wires
  BY DEF TypeInv, WireTypes
<1> HIDE DEF e
<1> QED
  BY <1>1, <1>2, <1>3, ElementsOfNone, FlightMore

(* Every step of the agent.                                                *)
LEMMA FlightAgent ==
  ASSUME TypeInv, FlightInv, AgentNext
  PROVE  FlightInv' /\ \E e : e \notin Said /\ Flying' \subseteq Flying \cup {e}
<1>1. CASE StartAgent
  BY <1>1, FlightStart
<1>2. CASE Report
  BY <1>2, FlightEmit DEF Report, relay
<1>3. CASE Request
  BY <1>3, FlightEmit DEF Request, relay
<1>4. CASE Resolve
  BY <1>4, FlightEmit DEF Resolve, relay
<1>5. CASE StopAgent
  BY <1>5, FlightStop
<1>6. CASE KillAgent
  <2>1. queue' = <<>> /\ inbox' = inbox /\ wires' = wires
    BY <1>6 DEF KillAgent, Ended, relay
  <2>2. FlightInv' /\ Flying' \subseteq Flying
    BY <2>1, ElementsOfNone, FlightLess DEF FlightInv
  <2> QED
    BY <2>2, NothingFresh
<1>7. CASE Connect
  BY <1>7, FlightConnect, NothingFresh
<1>8. CASE Disconnect
  <2>1. queue' = queue /\ inbox' = inbox /\ wires' = wires
    BY <1>8 DEF Disconnect, relay
  <2>2. FlightInv' /\ Flying' \subseteq Flying
    BY <2>1, FlightLess DEF FlightInv
  <2> QED
    BY <2>2, NothingFresh
<1>9. CASE Forget
  <2>1. queue' = queue /\ inbox' = inbox /\ wires' = wires
    BY <1>9 DEF Forget, relay
  <2>2. FlightInv' /\ Flying' \subseteq Flying
    BY <2>1, FlightLess DEF FlightInv
  <2> QED
    BY <2>2, NothingFresh
<1> QED
  BY <1>1, <1>2, <1>3, <1>4, <1>5, <1>6, <1>7, <1>8, <1>9 DEF AgentNext

(* What has arrived is not under way any more, and is there once.  The     *)
(* file may hold the event that is being handled.                          *)
Arrived(s) == Once(s) /\ Elements(s) \cap Flying = {}

SettledInv ==
  /\ Arrived(kept) /\ Arrived(history)
  /\ attached => Arrived(Handed)
  /\ Once(file) /\ Elements(file) \cap Flying \subseteq (IF written THEN {Head(inbox)} ELSE {})

(* All that has arrived was said.                                          *)
LEMMA SettledSaid ==
  ASSUME TypeInv
  PROVE  /\ Elements(kept) \subseteq Said /\ Elements(history) \subseteq Said
         /\ Elements(Handed) \subseteq Said /\ Elements(file) \subseteq Said
<1>1. Handed \in Seq(Said)
  BY HandedIs DEF TypeInv
<1>2. kept \in Seq(Said) /\ history \in Seq(Said) /\ file \in Seq(Said)
  BY DEF TypeInv, RelayTypes
<1> QED
  BY <1>1, <1>2, ElementsIn

(* Handed depends on the client's side only.                               *)
LEMMA HandedStays ==
  ASSUME UNCHANGED <<downlink, given>>
  PROVE  Handed' = Handed
BY DEF Handed

(* A subscriber is handed the history.                                     *)
LEMMA HandedSubscribe ==
  ASSUME TypeInv, Subscribe
  PROVE  Handed' = history
<1>1. history \in Seq(Said)
  BY DEF TypeInv, RelayTypes
<1> DEFINE f == [kind |-> "snapshot", events |-> history]
<1>2. downlink' = <<f>> /\ f.kind = "snapshot" /\ f.events = history
  BY DEF Subscribe
<1> HIDE DEF f
<1>3. downlink' # <<>> /\ Head(downlink') = f /\ Tail(downlink') = <<>>
  BY <1>2
<1>4. Handed' = history \o [n \in DOMAIN Tail(downlink') |-> Tail(downlink')[n].events[1]]
  BY <1>2, <1>3 DEF Handed
<1> DEFINE r == [n \in DOMAIN Tail(downlink') |-> Tail(downlink')[n].events[1]]
<1>5. r = <<>>
  BY <1>3
<1>6. Handed' = history \o r
  BY <1>4
<1> HIDE DEF r
<1>7. r \in Seq(Said) /\ Len(r) = 0
  BY <1>5
<1>8. /\ history \o r \in Seq(Said) /\ Len(history \o r) = Len(history) + Len(r)
      /\ Len(history) \in Nat /\ Len(r) \in Nat
      /\ \A i \in 1..Len(history) : (history \o r)[i] = history[i]
      /\ \A i \in 1..Len(r) : (history \o r)[Len(history) + i] = r[i]
  BY <1>1, <1>7, Joined
<1>9. Len(history \o r) = Len(history)
  BY <1>7, <1>8
<1>10. history \o r = history
  BY <1>1, <1>8, <1>9, SeqEqual
<1> QED
  BY <1>6, <1>10

(* Steps that leave alone what has arrived.                                *)
LEMMA SettledStays ==
  ASSUME TypeInv, SettledInv, NEW e, e \notin Said, Flying' \subseteq Flying \cup {e},
         UNCHANGED <<kept, history, file, written>>,
         written => Head(inbox') = Head(inbox),
         attached' => attached /\ Handed' = Handed
  PROVE  SettledInv'
<1>1. /\ e \notin Elements(kept) /\ e \notin Elements(history)
      /\ e \notin Elements(Handed) /\ e \notin Elements(file)
  BY SettledSaid
<1>2. Arrived(kept)' /\ Arrived(history)'
  BY <1>1 DEF SettledInv, Arrived
<1>3. ASSUME attached' PROVE Arrived(Handed)'
  <2>1. attached /\ Handed' = Handed
    BY <1>3
  <2> QED
    BY <1>1, <2>1 DEF SettledInv, Arrived
<1>4. Elements(file') \cap Flying' \subseteq (IF written' THEN {Head(inbox')} ELSE {})
  BY <1>1 DEF SettledInv
<1> QED
  BY <1>2, <1>3, <1>4 DEF SettledInv

(* An event that is not in a sequence any more when it joins it.           *)
LEMMA ArrivedMore ==
  ASSUME TypeInv, FlightInv, inbox # <<>>, inbox' = Tail(inbox), queue' = queue, wires' = wires,
         NEW s \in Seq(Said), Once(s), Elements(s) \cap Flying = {}
  PROVE  /\ LET t == Append(s, Head(inbox))
            IN  /\ t \in Seq(Said) /\ Once(t) /\ Elements(t) \cap Flying' = {}
                /\ Once(Window(t)) /\ Elements(Window(t)) \cap Flying' = {}
<1> DEFINE e == Head(inbox)
           t == Append(s, e)
<1>1. /\ Flying' \subseteq Flying /\ e \in Flying /\ e \notin Flying' /\ e \in Said
  BY FlightPop
<1> HIDE DEF e
<1>2. Elements(t) = Elements(s) \cup {e} /\ Once(t) /\ t \in Seq(Said)
  BY <1>1, ElementsAppend, AppendProperties
<1> HIDE DEF t
<1>3. MaxHistory \in Nat
  BY SizeAssumption
<1>4. Elements(Newest(t, MaxHistory)) \subseteq Elements(t) /\ Once(Newest(t, MaxHistory))
  BY <1>2, <1>3, ElementsNewest
<1>5. Elements(t) \cap Flying' = {}
  BY <1>1, <1>2
<1> QED
  BY <1>2, <1>4, <1>5 DEF Window, t, e

(* An event that is published or whose append fails.                       *)
LEMMA SettledPop ==
  ASSUME TypeInv, FlightInv, SettledInv, inbox # <<>>, inbox' = Tail(inbox),
         queue' = queue, wires' = wires, file' = file, written' = FALSE,
         kept' \in {kept, Window(Append(kept, Head(inbox)))},
         \/ history' = history \/ history' = kept' \/ history' = Window(Append(history, Head(inbox))),
         attached' = attached, given' = given,
         downlink' = downlink \/ broadcastToClients(Head(inbox))
  PROVE  FlightInv' /\ SettledInv'
<1>1. /\ FlightInv' /\ Flying' \subseteq Flying /\ Head(inbox) \in Flying
      /\ Head(inbox) \notin Flying' /\ Head(inbox) \in Said
  BY FlightPop
<1>2. kept \in Seq(Said) /\ history \in Seq(Said) /\ Handed \in Seq(Said)
  BY HandedIs DEF TypeInv, RelayTypes
<1>3. Arrived(kept)'
  <2>1. Once(kept) /\ Elements(kept) \cap Flying = {}
    BY DEF SettledInv, Arrived
  <2>2. /\ Once(Window(Append(kept, Head(inbox))))
        /\ Elements(Window(Append(kept, Head(inbox)))) \cap Flying' = {}
    BY <1>2, <2>1, ArrivedMore
  <2>3. Elements(kept) \cap Flying' = {}
    BY <1>1, <2>1
  <2> QED
    BY <2>1, <2>2, <2>3 DEF Arrived
<1>4. Arrived(history)'
  <2>1. Once(history) /\ Elements(history) \cap Flying = {}
    BY DEF SettledInv, Arrived
  <2>2. /\ Once(Window(Append(history, Head(inbox))))
        /\ Elements(Window(Append(history, Head(inbox)))) \cap Flying' = {}
    BY <1>2, <2>1, ArrivedMore
  <2>3. Elements(history) \cap Flying' = {}
    BY <1>1, <2>1
  <2> QED
    BY <1>3, <2>1, <2>2, <2>3 DEF Arrived
<1>5. ASSUME attached' PROVE Arrived(Handed)'
  <2>1. Once(Handed) /\ Elements(Handed) \cap Flying = {} /\ attached
    BY <1>5 DEF SettledInv, Arrived
  <2>2. /\ Once(Append(Handed, Head(inbox)))
        /\ Elements(Append(Handed, Head(inbox))) \cap Flying' = {}
    BY <1>2, <2>1, ArrivedMore
  <2>3. Handed' \in {Handed, Append(Handed, Head(inbox))}
    <3>1. CASE downlink' = downlink
      BY <3>1, HandedStays
    <3>2. CASE broadcastToClients(Head(inbox))
      BY <1>1, <2>1, <3>2, HandedBroadcast DEF TypeInv
    <3> QED
      BY <3>1, <3>2
  <2>4. Elements(Handed) \cap Flying' = {}
    BY <1>1, <2>1
  <2> QED
    BY <2>1, <2>2, <2>3, <2>4 DEF Arrived
<1>6. Once(file') /\ Elements(file') \cap Flying' = {}
  BY <1>1 DEF SettledInv
<1> QED
  BY <1>1, <1>3, <1>4, <1>5, <1>6 DEF SettledInv

(* The event is written to the file, and is still handled.                 *)
LEMMA SettledWrite ==
  ASSUME TypeInv, FlightInv, SettledInv, WriteEvent
  PROVE  FlightInv' /\ SettledInv'
<1> DEFINE e == Head(inbox)
           t == Append(file, e)
<1>1. /\ inbox # <<>> /\ inbox' = inbox /\ queue' = queue /\ wires' = wires /\ ~written /\ written'
      /\ file' = Window(t)
      /\ UNCHANGED <<kept, history, attached, downlink, given>>
  BY DEF WriteEvent, agent, client
<1>2. FlightInv'
  BY <1>1, FlightLess DEF FlightInv
<1>3. OnWires' = OnWires
  BY <1>1 DEF OnWires, Frames
<1>4. Flying' = Flying
  BY <1>1, <1>3 DEF Flying
<1>5. e \in Said /\ e \in Flying /\ file \in Seq(Said)
  <2>1. inbox \in Seq(Said) /\ file \in Seq(Said)
    BY DEF TypeInv, RelayTypes
  <2> QED
    BY <1>1, <2>1, ElementsTail, Rests DEF Flying
<1> HIDE DEF e
<1>6. Once(file) /\ e \notin Elements(file) /\ Elements(file) \cap Flying = {}
  BY <1>1, <1>5 DEF SettledInv
<1>7. Elements(t) = Elements(file) \cup {e} /\ Once(t) /\ t \in Seq(Said)
  BY <1>5, <1>6, ElementsAppend, AppendProperties
<1> HIDE DEF t
<1>8. MaxHistory \in Nat
  BY SizeAssumption
<1>9. Elements(Newest(t, MaxHistory)) \subseteq Elements(t) /\ Once(Newest(t, MaxHistory))
  BY <1>7, <1>8, ElementsNewest
<1>10. Once(file') /\ Elements(file') \cap Flying' \subseteq {e}
  BY <1>1, <1>4, <1>6, <1>7, <1>9 DEF Window
<1>11. Arrived(kept)' /\ Arrived(history)'
  BY <1>1, <1>4 DEF SettledInv, Arrived
<1>12. attached' => Arrived(Handed)'
  BY <1>1, <1>4, HandedStays DEF SettledInv, Arrived
<1> QED
  BY <1>1, <1>2, <1>10, <1>11, <1>12 DEF SettledInv, e

(* The relay starts again with what is in the file.                        *)
LEMMA SettledRestart ==
  ASSUME TypeInv, FlightInv, SettledInv, RestartRelay
  PROVE  FlightInv' /\ SettledInv'
<1>1. /\ inbox' = <<>> /\ kept' = file /\ history' = file /\ file' = file /\ attached' = FALSE
      /\ written' = FALSE /\ queue' = queue /\ wires' = [c \in DOMAIN wires |-> Cut(wires[c])]
  BY DEF RestartRelay, agent
<1>2. \A c \in DOMAIN wires : wires'[c].frames = <<>>
  <2>1. \A c \in DOMAIN wires : wires[c] \in SaidWire
    BY ElementOfSeq DEF TypeInv, WireTypes
  <2>2. \A w \in SaidWire : Cut(w).frames = <<>>
    BY DEF SaidWire, Cut
  <2> QED
    BY <1>1, <2>1, <2>2
<1>3. DOMAIN wires' = DOMAIN wires
  BY <1>1
<1>4. FlightInv' /\ Flying' \subseteq Flying
  BY <1>1, <1>2, <1>3, ElementsOfNone, FlightLess DEF FlightInv
<1>5. Flying' = Elements(queue)
  <2>1. \A c \in DOMAIN wires : Frames(c)' = {}
    BY <1>2, ElementsOfNone DEF Frames
  <2>2. OnWires' = {}
    BY <1>3, <2>1 DEF OnWires
  <2> QED
    BY <1>1, <2>2, ElementsOfNone DEF Flying
<1>6. Elements(file) \cap Elements(queue) = {}
  <2>1. Elements(queue) \subseteq Flying
    BY DEF Flying
  <2>2. CASE ~written
    BY <2>1, <2>2 DEF SettledInv
  <2>3. CASE written
    <3>1. inbox \in Seq(Said) /\ inbox # <<>>
      BY <2>3 DEF TypeInv, RelayTypes
    <3>2. Head(inbox) \in Elements(inbox)
      BY <3>1, ElementsTail
    <3>3. Head(inbox) \notin Elements(queue)
      BY <3>2 DEF FlightInv
    <3> QED
      BY <2>1, <2>3, <3>3 DEF SettledInv
  <2> QED
    BY <2>2, <2>3
<1>7. Once(file)
  BY DEF SettledInv
<1> QED
  BY <1>1, <1>4, <1>5, <1>6, <1>7 DEF SettledInv, Arrived

(* Every step keeps events apart.                                          *)
LEMMA SettledStep == TypeInv /\ FlightInv /\ SettledInv /\ [Next]_vars => FlightInv' /\ SettledInv'
<1> SUFFICES ASSUME TypeInv, FlightInv, SettledInv, [Next]_vars
             PROVE  FlightInv' /\ SettledInv'
  OBVIOUS
<1>0. PICK x : x \notin Said
  BY NothingFresh
<1>1. CASE AgentNext
  <2>1. PICK e : e \notin Said /\ Flying' \subseteq Flying \cup {e}
    BY <1>1, FlightAgent
  <2>2. UNCHANGED <<relay, attached, downlink, client>>
    BY <1>1 DEF AgentNext, StartAgent, Report, Request, Resolve, Forget, StopAgent, KillAgent, Ended,
                Connect, Disconnect
  <2>3. UNCHANGED <<kept, history, file, written, inbox, attached, downlink, given>>
    BY <2>2 DEF relay, client
  <2> QED
    BY <1>1, <2>1, <2>3, FlightAgent, HandedStays, SettledStays
<1>2. CASE Arrive
  <2>1. FlightInv' /\ Flying' \subseteq Flying
    BY <1>2, FlightArrive
  <2>2. UNCHANGED <<kept, history, file, written, attached, downlink, given>>
    BY <1>2 DEF Arrive, client
  <2>3. written => Head(inbox') = Head(inbox)
    <3>1. PICK e \in Said : inbox' = Append(inbox, e)
      <4>1. PICK c \in DOMAIN wires : wires[c].frames # <<>> /\ inbox' = Append(inbox, Head(wires[c].frames))
        BY <1>2 DEF Arrive
      <4>2. wires[c].frames \in Seq(Said)
        BY FlyingSaid
      <4> QED
        BY <4>1, <4>2, Rests
    <3>2. SUFFICES ASSUME written PROVE Head(inbox') = Head(inbox)
      OBVIOUS
    <3>3. inbox \in Seq(Said) /\ inbox # <<>> /\ Head(inbox) = inbox[1] /\ Len(inbox) \in Nat /\ Len(inbox) >= 1
      BY <3>2, Rests DEF TypeInv, RelayTypes
    <3>4. inbox' \in Seq(Said) /\ Len(inbox') = Len(inbox) + 1 /\ inbox'[1] = inbox[1]
      BY <3>1, <3>3, AppendProperties
    <3>5. inbox' # <<>>
      BY <3>3, <3>4
    <3> QED
      BY <3>3, <3>4, <3>5, Rests
  <2> QED
    BY <1>0, <2>1, <2>2, <2>3, HandedStays, SettledStays
<1>3. CASE HandleEvent
  <2>1. /\ inbox # <<>> /\ inbox' = Tail(inbox) /\ ~journal
        /\ history' = Window(Append(history, Head(inbox))) /\ broadcastToClients(Head(inbox))
        /\ UNCHANGED <<queue, wires, file, kept, written, attached, given>>
    BY <1>3 DEF HandleEvent, agent, client
  <2>2. written' = FALSE
    BY <2>1 DEF TypeInv, RelayTypes
  <2> QED
    BY <2>1, <2>2, SettledPop
<1>4. CASE WriteEvent
  BY <1>4, SettledWrite
<1>5. CASE PublishEvent
  <2>1. /\ written /\ inbox' = Tail(inbox) /\ written' = FALSE
        /\ kept' = Window(Append(kept, Head(inbox))) /\ history' = kept'
        /\ broadcastToClients(Head(inbox))
        /\ UNCHANGED <<queue, wires, file, attached, given>>
    BY <1>5 DEF PublishEvent, agent, client
  <2>2. inbox # <<>>
    BY <2>1 DEF TypeInv, RelayTypes
  <2> QED
    BY <2>1, <2>2, SettledPop
<1>6. CASE AppendFails
  <2>1. /\ inbox # <<>> /\ inbox' = Tail(inbox) /\ written' = FALSE
        /\ kept' \in {kept, Window(Append(kept, Head(inbox)))}
        /\ UNCHANGED <<queue, wires, file, history, attached, downlink, given>>
    BY <1>6 DEF AppendFails, agent, client
  <2> QED
    BY <2>1, SettledPop
<1>7. CASE Break
  <2>1. PICK c \in DOMAIN wires : wires' = [wires EXCEPT ![c] = Cut(wires[c])]
    BY <1>7 DEF Break
  <2>2. UNCHANGED <<queue, inbox, kept, history, file, written, attached, downlink, given>>
    BY <1>7 DEF Break, agent, relay, client
  <2>3. Cut(wires[c]).frames = <<>>
    <3>1. wires[c] \in SaidWire
      BY ElementOfSeq DEF TypeInv, WireTypes
    <3> QED
      BY <3>1 DEF SaidWire, Cut
  <2>4. DOMAIN wires' = DOMAIN wires
    BY <2>1
  <2>5. \A d \in DOMAIN wires : wires'[d].frames \in {wires[d].frames, <<>>}
    BY <2>1, <2>3
  <2>6. FlightInv' /\ Flying' \subseteq Flying
    BY <2>2, <2>4, <2>5, FlightLess DEF FlightInv
  <2> QED
    BY <1>0, <2>2, <2>6, HandedStays, SettledStays
<1>8. CASE RestartRelay
  BY <1>8, SettledRestart
<1>9. CASE Subscribe \/ Receive \/ Unsubscribe \/ UNCHANGED vars
  <2>1. UNCHANGED <<queue, wires, inbox, kept, history, file, written>>
    BY <1>9 DEF Subscribe, Receive, Unsubscribe, vars, agent, relay
  <2>2. FlightInv' /\ Flying' \subseteq Flying
    BY <2>1, FlightLess DEF FlightInv
  <2>3. CASE Subscribe
    <3>1. Handed' = history
      BY <2>3, HandedSubscribe
    <3>2. Arrived(kept)' /\ Arrived(history)'
      BY <2>1, <2>2 DEF SettledInv, Arrived
    <3>3. Arrived(Handed)'
      BY <2>2, <3>1 DEF SettledInv, Arrived
    <3>4. Once(file') /\ Elements(file') \cap Flying' \subseteq (IF written' THEN {Head(inbox')} ELSE {})
      BY <2>1, <2>2 DEF SettledInv
    <3> QED
      BY <2>2, <3>2, <3>3, <3>4 DEF SettledInv
  <2>4. CASE ~Subscribe
    <3>1. attached' => attached /\ Handed' = Handed
      <4>1. CASE Receive
        BY <4>1, HandedReceive DEF Receive, TypeInv
      <4>2. CASE Unsubscribe
        BY <4>2 DEF Unsubscribe
      <4>3. CASE UNCHANGED vars
        BY <4>3, HandedStays DEF vars, client
      <4> QED
        BY <1>9, <2>4, <4>1, <4>2, <4>3
    <3> QED
      BY <1>0, <2>1, <2>2, <3>1, SettledStays
  <2> QED
    BY <2>3, <2>4
<1> QED
  BY <1>1, <1>2, <1>3, <1>4, <1>5, <1>6, <1>7, <1>8, <1>9 DEF Next, RelayNext

(* Nothing has arrived at first.                                           *)
LEMMA SettledInit == Init => FlightInv /\ SettledInv
<1> SUFFICES ASSUME Init PROVE FlightInv /\ SettledInv
  OBVIOUS
<1>1. /\ queue = <<>> /\ inbox = <<>> /\ kept = <<>> /\ history = <<>> /\ file = <<>>
      /\ wires = <<>> /\ ~attached
  BY DEF Init
<1>2. DOMAIN wires = {}
  BY <1>1
<1> QED
  BY <1>1, <1>2, ElementsOfNone DEF FlightInv, SettledInv, Arrived

-----------------------------------------------------------------------------
(* The history is the end of what a subscriber was handed.                 *)
EndOf(h, s) == \E k \in Nat : Len(s) = Len(h) + k /\ \A i \in 1..Len(h) : h[i] = s[i + k]

FollowInv ==
  /\ journal /\ faults = 0 => kept = history
  /\ attached /\ faults = 0 => EndOf(history, Handed)

(* One more at the end of both, and the window cut.                        *)
LEMMA EndMore ==
  ASSUME NEW S, NEW h \in Seq(S), NEW s \in Seq(S), NEW e \in S, NEW n \in Nat, EndOf(h, s)
  PROVE  EndOf(Newest(Append(h, e), n), Append(s, e))
<1> DEFINE g == Append(h, e)
           t == Append(s, e)
           w == Newest(g, n)
           M == Len(h)
<1>1. PICK k \in Nat : Len(s) = M + k /\ \A i \in 1..M : h[i] = s[i + k]
  BY DEF EndOf
<1>2. g \in Seq(S) /\ Len(g) = M + 1 /\ M \in Nat /\ g[M + 1] = e /\ \A i \in 1..M : g[i] = h[i]
  BY AppendProperties
<1>3. /\ t \in Seq(S) /\ Len(t) = Len(s) + 1 /\ t[Len(s) + 1] = e
      /\ \A i \in 1..Len(s) : t[i] = s[i]
  BY AppendProperties
<1> HIDE DEF g, t, M
<1>4. ASSUME NEW i \in 1..M + 1 PROVE g[i] = t[i + k]
  <2>1. CASE i = M + 1
    <3>1. i + k = Len(s) + 1
      BY <1>1, <1>2, <2>1
    <3> QED
      BY <1>2, <1>3, <2>1, <3>1
  <2>2. CASE i \in 1..M
    <3>1. i + k \in 1..Len(s)
      BY <1>1, <1>2, <2>2
    <3> QED
      BY <1>1, <1>2, <1>3, <2>2, <3>1
  <2> QED
    BY <1>2, <2>1, <2>2
<1>a. g \in Seq(S)
  BY <1>2
<1>b. PICK j \in Nat : CutBy(w, g, j)
  BY <1>a, NewestIs
<1> HIDE DEF w
<1>5. j \in 0..Len(g) /\ Len(w) = Len(g) - j /\ \A i \in 1..Len(g) - j : w[i] = g[i + j]
  BY <1>b DEF CutBy
<1>6. /\ j \in Nat /\ k \in Nat /\ M \in Nat
      /\ Len(w) = M + 1 - j /\ Len(t) = M + 1 + k /\ j <= M + 1
  BY <1>1, <1>2, <1>3, <1>5
<1>7. ASSUME NEW i \in 1..Len(w) PROVE w[i] = t[i + (j + k)]
  <2>1. i + j \in 1..M + 1 /\ (i + j) + k = i + (j + k) /\ i \in 1..Len(g) - j
    BY <1>2, <1>6
  <2>2. w[i] = g[i + j] /\ g[i + j] = t[(i + j) + k]
    BY <1>4, <1>5, <2>1
  <2> QED
    BY <2>1, <2>2
<1>8. j + k \in Nat /\ Len(t) = Len(w) + (j + k)
  BY <1>6
<1>9. EndOf(w, t)
  BY <1>7, <1>8 DEF EndOf
<1> QED
  BY <1>9 DEF w, g, t

(* The whole is an end.                                                    *)
LEMMA EndOfItself ==
  ASSUME NEW S, NEW s \in Seq(S)
  PROVE  EndOf(s, s)
<1>1. Len(s) \in Nat /\ 0 \in Nat /\ Len(s) = Len(s) + 0 /\ \A i \in 1..Len(s) : i + 0 = i
  OBVIOUS
<1> QED
  BY <1>1 DEF EndOf

(* An event that is handled without a failure.                             *)
LEMMA FollowPublish ==
  ASSUME TypeInv, FlightInv, FollowInv, HandleEvent \/ PublishEvent
  PROVE  FollowInv'
<1> DEFINE e == Head(inbox)
<1>1. /\ inbox # <<>> /\ broadcastToClients(e) /\ UNCHANGED <<journal, faults, attached, given>>
  BY DEF HandleEvent, PublishEvent, client, TypeInv, RelayTypes
<1>2. e \in Said /\ history \in Seq(Said) /\ kept \in Seq(Said) /\ Handed \in Seq(Said)
  BY <1>1, Rests, HandedIs DEF TypeInv, RelayTypes
<1> HIDE DEF e
<1>3. /\ journal' /\ faults' = 0 => kept' = history'
      /\ faults = 0 => history' = Newest(Append(history, e), MaxHistory)
  <2>1. CASE HandleEvent
    BY <2>1 DEF HandleEvent, Window, e
  <2>2. CASE PublishEvent
    <3>1. kept' = Window(Append(kept, e)) /\ history' = kept' /\ journal
      BY <2>2 DEF PublishEvent, e, TypeInv, RelayTypes
    <3> QED
      BY <3>1 DEF FollowInv, Window
  <2> QED
    BY <2>1, <2>2
<1>4. ASSUME attached', faults' = 0 PROVE EndOf(history', Handed')
  <2>1. attached /\ faults = 0 /\ EndOf(history, Handed)
    BY <1>1, <1>4 DEF FollowInv
  <2>2. Handed' = Append(Handed, e)
    BY <1>1, <1>2, <2>1, HandedBroadcast DEF TypeInv
  <2>3. MaxHistory \in Nat
    BY SizeAssumption
  <2>4. EndOf(Newest(Append(history, e), MaxHistory), Append(Handed, e))
    BY <1>2, <2>1, <2>3, EndMore
  <2> QED
    BY <1>3, <2>1, <2>2, <2>4
<1> QED
  BY <1>3, <1>4 DEF FollowInv

(* Every step keeps the history at the end of what was handed over.        *)
LEMMA FollowStep == TypeInv /\ FlightInv /\ FollowInv /\ [Next]_vars => FollowInv'
<1> SUFFICES ASSUME TypeInv, FlightInv, FollowInv, [Next]_vars
             PROVE  FollowInv'
  OBVIOUS
<1>1. CASE HandleEvent \/ PublishEvent
  BY <1>1, FollowPublish
<1>2. CASE AppendFails
  <2>1. faults' # 0
    BY <1>2 DEF AppendFails, TypeInv, RelayTypes
  <2> QED
    BY <2>1 DEF FollowInv
<1>3. CASE RestartRelay
  BY <1>3 DEF RestartRelay, FollowInv
<1>4. CASE Subscribe
  <2>1. UNCHANGED <<journal, kept, history, faults>>
    BY <1>4 DEF Subscribe, relay
  <2>2. Handed' = history /\ EndOf(history, history)
    BY <1>4, HandedSubscribe, EndOfItself DEF TypeInv, RelayTypes
  <2> QED
    BY <2>1, <2>2 DEF FollowInv
<1>5. CASE AgentNext \/ Arrive \/ WriteEvent \/ Break \/ Receive \/ Unsubscribe \/ UNCHANGED vars
  <2>1. UNCHANGED <<journal, kept, history, faults>>
    BY <1>5 DEF AgentNext, StartAgent, Report, Request, Resolve, Forget, StopAgent, KillAgent, Ended,
                Connect, Disconnect, Arrive, WriteEvent, Break, Receive, Unsubscribe, vars, relay
  <2>2. attached' => attached /\ Handed' = Handed
    <3>1. CASE Receive
      BY <3>1, HandedReceive DEF Receive, TypeInv
    <3>2. CASE Unsubscribe
      BY <3>2 DEF Unsubscribe
    <3>3. CASE AgentNext \/ Arrive \/ WriteEvent \/ Break \/ UNCHANGED vars
      <4>1. UNCHANGED <<attached, downlink, given>>
        BY <3>3 DEF AgentNext, StartAgent, Report, Request, Resolve, Forget, StopAgent, KillAgent, Ended,
                    Connect, Disconnect, Arrive, WriteEvent, Break, vars, client
      <4> QED
        BY <4>1, HandedStays
    <3> QED
      BY <1>5, <3>1, <3>2, <3>3
  <2> QED
    BY <2>1, <2>2 DEF FollowInv
<1> QED
  BY <1>1, <1>2, <1>3, <1>4, <1>5 DEF Next, RelayNext

(* And this is what is claimed of subscribers.                             *)
LEMMA FollowImplies ==
  ASSUME TypeInv, SettledInv, FollowInv
  PROVE  SubscribersFollowHistory
<1> SUFFICES ASSUME attached, faults = 0
             PROVE  LET skipped == Len(Handed) - Len(history)
                    IN  /\ skipped >= 0
                        /\ SubSeq(Handed, skipped + 1, Len(Handed)) = history
                        /\ \A m, n \in DOMAIN Handed : Handed[m] = Handed[n] => m = n
  BY DEF SubscribersFollowHistory
<1>1. Handed \in Seq(Said) /\ history \in Seq(Said)
  BY HandedIs DEF TypeInv, RelayTypes
<1>2. PICK k \in Nat : Len(Handed) = Len(history) + k /\ \A i \in 1..Len(history) : history[i] = Handed[i + k]
  BY DEF FollowInv, EndOf
<1> DEFINE s == Handed
           h == history
<1>3. s \in Seq(Said) /\ h \in Seq(Said) /\ Len(s) = Len(h) + k /\ \A i \in 1..Len(h) : h[i] = s[i + k]
  BY <1>1, <1>2
<1>4. Once(s)
  BY DEF SettledInv, Arrived
<1> HIDE DEF s, h
<1>5. Len(h) \in Nat /\ Len(s) \in Nat /\ Len(s) - Len(h) = k /\ k >= 0 /\ k + 1 \in 1..Len(s) + 1
  BY <1>3
<1> DEFINE b == SubSeq(s, k + 1, Len(s))
<1>6. b = [i \in 1..Len(h) |-> s[i + k]]
  <2>1. b = [i \in 1..(1 + Len(s) - (k + 1)) |-> s[i + (k + 1) - 1]]
    BY <1>5, SMT
  <2>2. 1 + Len(s) - (k + 1) = Len(h) /\ \A i \in 1..Len(h) : i + (k + 1) - 1 = i + k
    BY <1>3, <1>5
  <2> QED
    BY <2>1, <2>2
<1> HIDE DEF b
<1>7. b = h
  BY <1>3, <1>5, <1>6
<1> QED
  BY <1>4, <1>5, <1>7 DEF b, s, h, Once

(* What the client is handed joins the history without a gap or an         *)
(* overlap, in every run and for every size of the window.                 *)
THEOREM HistoryIsFollowed == Spec => []SubscribersFollowHistory
<1> DEFINE Inv == TypeInv /\ FlightInv /\ SettledInv /\ FollowInv
<1>1. Init => Inv
  BY TypeInit, SettledInit DEF Init, FollowInv
<1>2. Inv /\ [Next]_vars => Inv'
  BY TypeStep, SettledStep, FollowStep
<1>3. Inv => SubscribersFollowHistory
  BY FollowImplies
<1> QED
  BY <1>1, <1>2, <1>3, PTL DEF Spec

-----------------------------------------------------------------------------
(* Without frames of earlier runs, runs come one after the other.          *)
SameRuns == DOMAIN wires' = DOMAIN wires /\ \A c \in DOMAIN wires : wires'[c].run = wires[c].run
LastRun  == IF wires = <<>> THEN 0 ELSE wires[Len(wires)].run

WireOrder ==
  /\ \A e \in Elements(queue) : e.at = run
  /\ \A c \in DOMAIN wires : \A e \in Frames(c) : e.at = wires[c].run
  /\ link # 0 => wires[link].run = run

(* The run of the newest connection is a run,                              *)
LEMMA LastRunIs ==
  ASSUME TypeInv
  PROVE  LastRun \in 0..run /\ LastRun \in Nat
<1>1. run \in Nat /\ wires \in Seq(SaidWire) /\ Len(wires) \in Nat
  BY Numbers DEF TypeInv, WireTypes
<1>2. CASE wires = <<>>
  BY <1>1, <1>2 DEF LastRun
<1>3. CASE wires # <<>>
  <2>1. Len(wires) \in DOMAIN wires
    BY <1>1, <1>3
  <2>2. wires[Len(wires)] \in SaidWire
    BY <1>1, <2>1
  <2> QED
    BY <1>1, <1>3, <2>2 DEF LastRun, SaidWire
<1> QED
  BY <1>2, <1>3

(* after a step as well,                                                   *)
LEMMA LastRunNext ==
  ASSUME TypeInv'
  PROVE  LastRun' \in Nat
<1>1. wires' \in Seq(SaidWire') /\ Len(wires') \in Nat
  BY DEF TypeInv, WireTypes
<1>2. CASE wires' = <<>>
  BY <1>2 DEF LastRun
<1>3. CASE wires' # <<>>
  <2>1. Len(wires') \in DOMAIN wires'
    BY <1>1, <1>3
  <2>2. wires'[Len(wires')] \in SaidWire'
    BY <1>1, <2>1
  <2> QED
    BY <1>1, <1>3, <2>2 DEF LastRun, SaidWire
<1> QED
  BY <1>2, <1>3

(* and the same as long as no connection is made.                          *)
LEMMA LastRunSame ==
  ASSUME TypeInv, wires' \in Seq(SaidWire'), SameRuns
  PROVE  LastRun' = LastRun
<1>1. /\ wires \in Seq(SaidWire) /\ DOMAIN wires = 1..Len(wires) /\ Len(wires) \in Nat
      /\ DOMAIN wires' = 1..Len(wires') /\ Len(wires') \in Nat
  BY DEF TypeInv, WireTypes
<1>2. Len(wires') = Len(wires)
  BY <1>1 DEF SameRuns
<1>3. CASE wires = <<>>
  <2>1. wires' = <<>>
    BY <1>2, <1>3
  <2> QED
    BY <1>3, <2>1 DEF LastRun
<1>4. CASE wires # <<>>
  <2>1. Len(wires) \in DOMAIN wires
    BY <1>1, <1>4
  <2>2. wires' # <<>>
    BY <1>1, <1>2, <1>4
  <2>3. wires'[Len(wires')].run = wires[Len(wires)].run
    BY <1>2, <2>1 DEF SameRuns
  <2> QED
    BY <1>4, <2>2, <2>3 DEF LastRun
<1> QED
  BY <1>3, <1>4

(* A frame sent on a connection of the run.                                *)
LEMMA WireMore ==
  ASSUME TypeInv, WireOrder, NEW e, e.at = run', run' \in Nat,
         Elements(queue') = {} \/ (run' = run /\ Elements(queue') \subseteq Elements(queue) \cup {e})
         \/ Elements(queue') = {e},
         \/ wires' = wires
         \/ link # 0 /\ wires' = Carried(link, e) /\ run' = run,
         link' = 0 \/ (link' = link /\ run' = run)
  PROVE  WireOrder' /\ SameRuns
<1>1. \A x \in Elements(queue') : x.at = run'
  BY DEF WireOrder
<1>2. CASE wires' = wires
  <2>1. \A c \in DOMAIN wires : Frames(c)' = Frames(c)
    BY <1>2 DEF Frames
  <2> QED
    BY <1>1, <1>2, <2>1 DEF WireOrder, SameRuns
<1>3. CASE link # 0 /\ wires' = Carried(link, e) /\ run' = run /\ wires' # wires
  <2>1. PICK l \in DOMAIN wires : l = link
    BY <1>3 DEF TypeInv, WireTypes
  <2> DEFINE f == wires[l].frames
  <2>2. wires' = [wires EXCEPT ![l] = [wires[l] EXCEPT !.frames = Append(f, e)]]
    BY <1>3, <2>1 DEF Carried
  <2>3. wires[l] \in SaidWire
    BY ElementOfSeq DEF TypeInv, WireTypes
  <2>4. /\ DOMAIN wires' = DOMAIN wires /\ \A c \in DOMAIN wires : c # l => wires'[c] = wires[c]
        /\ wires'[l].frames = Append(f, e) /\ wires'[l].run = wires[l].run
    BY <2>2, <2>3 DEF SaidWire
  <2>5. f \in Seq(Said \cup {e}) /\ e \in Said \cup {e}
    BY <2>3 DEF SaidWire
  <2> HIDE DEF f
  <2>6. Elements(Append(f, e)) = Elements(f) \cup {e}
    BY <2>5, ElementsAppend
  <2>7. Frames(l)' = Frames(l) \cup {e}
    BY <2>4, <2>6 DEF Frames, f
  <2>8. \A c \in DOMAIN wires : c # l => Frames(c)' = Frames(c)
    BY <2>4 DEF Frames
  <2>9. SameRuns
    BY <2>4 DEF SameRuns
  <2>10. wires[l].run = run
    BY <1>3, <2>1 DEF WireOrder
  <2>11. ASSUME NEW c \in DOMAIN wires PROVE \A x \in Frames(c)' : x.at = wires'[c].run
    <3>1. CASE c = l
      BY <1>3, <2>4, <2>7, <2>10, <3>1 DEF WireOrder
    <3>2. CASE c # l
      BY <2>4, <2>8, <3>2 DEF WireOrder
    <3> QED
      BY <3>1, <3>2
  <2>12. link' # 0 => wires'[link'].run = run'
    BY <1>3, <2>1, <2>4, <2>10
  <2> QED
    BY <1>1, <2>4, <2>9, <2>11, <2>12 DEF WireOrder
<1> QED
  BY <1>2, <1>3

(* Frames that go.                                                         *)
LEMMA WireLess ==
  ASSUME TypeInv, WireOrder, SameRuns, UNCHANGED <<queue, run, link>>,
         \A c \in DOMAIN wires : Elements(wires'[c].frames) \subseteq Elements(wires[c].frames)
  PROVE  WireOrder'
<1>1. \A c \in DOMAIN wires : Frames(c)' \subseteq Frames(c)
  BY DEF Frames
<1>2. link # 0 => link \in DOMAIN wires
  BY DEF TypeInv, WireTypes
<1> QED
  BY <1>1, <1>2 DEF WireOrder, SameRuns

(* A new connection carries the queue.                                     *)
LEMMA WireConnect ==
  ASSUME TypeInv, WireOrder, Connect
  PROVE  WireOrder' /\ LastRun' = run
<1>1. PICK N \in Nat : wires \in Seq(SaidWire) /\ N = Len(wires) /\ DOMAIN wires = 1..N
  <2>1. Len(wires) \in Nat /\ wires \in Seq(SaidWire) /\ DOMAIN wires = 1..Len(wires)
    BY DEF TypeInv, WireTypes
  <2> QED
    BY <2>1
<1>2. queue' = <<>> /\ run' = run /\ link' = N + 1
  BY <1>1 DEF Connect
<1>3. /\ DOMAIN wires' = 1..N + 1 /\ \A c \in 1..N : wires'[c] = wires[c] /\ Len(wires') = N + 1
      /\ wires'[N + 1].frames = queue /\ wires'[N + 1].run = run /\ wires' # <<>>
  <2> DEFINE w == [run |-> run, frames |-> queue, open |-> TRUE]
  <2>1. wires' = Append(wires, w) /\ w.frames = queue /\ w.run = run
    BY DEF Connect
  <2> HIDE DEF w
  <2>2. wires \in Seq(SaidWire \cup {w})
    BY <1>1
  <2>3. /\ Len(wires') = N + 1 /\ wires'[N + 1] = w /\ \A c \in 1..N : wires'[c] = wires[c]
        /\ wires' \in Seq(SaidWire \cup {w})
    BY <1>1, <2>1, <2>2, AppendProperties
  <2>4. wires' # <<>>
    BY <2>3
  <2> QED
    BY <2>1, <2>3, <2>4
<1>4. \A c \in 1..N : Frames(c)' = Frames(c)
  BY <1>3 DEF Frames
<1>5. Frames(N + 1)' = Elements(queue)
  BY <1>3 DEF Frames
<1>6. ASSUME NEW c \in 1..N + 1 PROVE \A x \in Frames(c)' : x.at = wires'[c].run
  <2>1. CASE c \in 1..N
    BY <1>1, <1>3, <1>4, <2>1 DEF WireOrder
  <2>2. CASE c = N + 1
    BY <1>3, <1>5, <2>2 DEF WireOrder
  <2> QED
    BY <1>1, <2>1, <2>2
<1>7. LastRun' = run
  BY <1>3 DEF LastRun
<1> QED
  BY <1>2, <1>3, <1>6, <1>7, ElementsOfNone DEF WireOrder

(* What is said goes to the queue or to the connection of the run.         *)
LEMMA WireEmit ==
  ASSUME TypeInv, WireOrder, NEW session, NEW type, NEW subject, NEW value,
         Emit(session, type, subject, value), UNCHANGED <<run, link>>
  PROVE  WireOrder' /\ SameRuns
<1> DEFINE e == create(run, sequence + 1, session, type, subject, value)
<1>1. publish(e) /\ e.at = run /\ run \in Nat
  BY Numbers DEF Emit, create, TypeInv
<1> HIDE DEF e
<1>2. queue \in Seq(Said)
  BY DEF TypeInv, AgentTypes
<1>3. CASE link # 0
  <2>1. wires' = Carried(link, e) /\ queue' = queue
    BY <1>1, <1>3 DEF publish
  <2>2. Elements(queue') \subseteq Elements(queue) \cup {e}
    BY <2>1
  <2> QED
    BY <1>1, <1>3, <2>1, <2>2, WireMore
<1>4. CASE link = 0
  <2>1. wires' = wires /\ queue' = Newest(Append(queue, e), MaxQueue)
    BY <1>1, <1>4 DEF publish
  <2>2. queue \in Seq(Said \cup {e}) /\ e \in Said \cup {e}
    BY <1>2
  <2>3. Elements(Append(queue, e)) = Elements(queue) \cup {e} /\ Append(queue, e) \in Seq(Said \cup {e})
    BY <2>2, ElementsAppend, AppendProperties
  <2>4. MaxQueue \in Nat
    BY SizeAssumption
  <2>5. Elements(queue') \subseteq Elements(queue) \cup {e}
    BY <2>1, <2>3, <2>4, ElementsNewest
  <2> QED
    BY <1>1, <2>1, <2>5, WireMore
<1> QED
  BY <1>3, <1>4

(* The first event of a run,                                               *)
LEMMA WireStart ==
  ASSUME TypeInv, WireOrder, StartAgent
  PROVE  WireOrder' /\ SameRuns
<1> DEFINE e == create(run + 1, 1, NoSession, "host.connected", <<>>, "none")
<1>1. e.at = run + 1 /\ run \in Nat
  BY Numbers DEF create, TypeInv
<1>2. queue' = <<e>> /\ wires' = wires /\ run' = run + 1 /\ link' = 0
  BY DEF StartAgent
<1> HIDE DEF e
<1>3. Elements(queue') = {e} /\ run' \in Nat /\ e.at = run'
  BY <1>1, <1>2 DEF Elements
<1> QED
  BY <1>2, <1>3, WireMore

(* and the last ones.                                                      *)
LEMMA WireStop ==
  ASSUME TypeInv, WireOrder, StopAgent
  PROVE  WireOrder' /\ SameRuns
<1> DEFINE e == create(run, sequence + 1, NoSession, "host.disconnected", <<>>, "none")
<1>1. e.at = run /\ run \in Nat
  BY Numbers DEF create, TypeInv
<1>2. /\ queue' = <<>> /\ run' = run /\ link' = 0
      /\ wires' = IF link # 0 THEN Carried(link, e) ELSE wires
  BY DEF StopAgent, Ended
<1> HIDE DEF e
<1>3. Elements(queue') = {} /\ run' \in Nat /\ e.at = run'
  BY <1>1, <1>2, ElementsOfNone
<1> QED
  BY <1>2, <1>3, WireMore

(* Every step keeps the order on the wires, and no run follows a later one.*)
LEMMA WireStep ==
  ASSUME TypeInv, TypeInv', WireOrder, [Next]_vars
  PROVE  /\ WireOrder' /\ LastRun <= LastRun'
         /\ ~Connect => LastRun' = LastRun
<1>0. wires' \in Seq(SaidWire') /\ LastRun \in Nat
  BY LastRunIs DEF TypeInv, WireTypes
<1>1. CASE StartAgent \/ Report \/ Request \/ Resolve \/ StopAgent
  <2>1. WireOrder' /\ SameRuns
    <3>1. CASE StartAgent
      BY <3>1, WireStart
    <3>2. CASE Report
      BY <3>2, WireEmit DEF Report
    <3>3. CASE Request
      BY <3>3, WireEmit DEF Request
    <3>4. CASE Resolve
      BY <3>4, WireEmit DEF Resolve
    <3>5. CASE StopAgent
      BY <3>5, WireStop
    <3> QED
      BY <1>1, <3>1, <3>2, <3>3, <3>4, <3>5
  <2> QED
    BY <1>0, <2>1, LastRunSame
<1>2. CASE Connect
  <2>1. WireOrder' /\ LastRun' = run
    BY <1>2, WireConnect
  <2>2. LastRun \in 0..run /\ run \in Nat
    BY LastRunIs, Numbers DEF TypeInv
  <2> QED
    BY <1>2, <2>1, <2>2
<1>3. CASE KillAgent \/ Disconnect \/ Forget
  <2>1. /\ wires' = wires /\ run' = run /\ link' \in {0, link}
        /\ Elements(queue') \subseteq Elements(queue)
    BY <1>3, ElementsOfNone DEF KillAgent, Disconnect, Ended, Forget
  <2>2. \A c \in DOMAIN wires : Frames(c)' = Frames(c)
    BY <2>1 DEF Frames
  <2>3. WireOrder'
    BY <2>1, <2>2 DEF WireOrder
  <2> QED
    BY <1>0, <2>1, <2>3 DEF LastRun
<1>4. CASE Break \/ RestartRelay
  <2>1. /\ UNCHANGED <<queue, run, link>> /\ DOMAIN wires' = DOMAIN wires
        /\ \A c \in DOMAIN wires : wires'[c] \in {wires[c], Cut(wires[c])}
    BY <1>4 DEF Break, RestartRelay, agent
  <2>2. \A c \in DOMAIN wires : Cut(wires[c]).run = wires[c].run /\ Cut(wires[c]).frames = <<>>
    <3>1. \A c \in DOMAIN wires : wires[c] \in SaidWire
      BY ElementOfSeq DEF TypeInv, WireTypes
    <3>2. \A w \in SaidWire : Cut(w).run = w.run /\ Cut(w).frames = <<>>
      BY DEF SaidWire, Cut
    <3> QED
      BY <3>1, <3>2
  <2>3. SameRuns /\ \A c \in DOMAIN wires : Elements(wires'[c].frames) \subseteq Elements(wires[c].frames)
    BY <2>1, <2>2, ElementsOfNone DEF SameRuns
  <2> QED
    BY <1>0, <2>1, <2>3, WireLess, LastRunSame
<1>5. CASE Arrive
  <2>1. PICK c \in DOMAIN wires :
          /\ wires[c].frames # <<>> /\ wires' = [wires EXCEPT ![c].frames = Tail(@)]
          /\ UNCHANGED <<queue, run, link>>
    BY <1>5 DEF Arrive, agent
  <2>2. wires[c] \in SaidWire /\ wires[c].frames \in Seq(Said)
    <3>1. wires[c] \in SaidWire
      BY ElementOfSeq DEF TypeInv, WireTypes
    <3> QED
      BY <3>1, FlyingSaid
  <2>3. /\ DOMAIN wires' = DOMAIN wires /\ \A d \in DOMAIN wires : d # c => wires'[d] = wires[d]
        /\ wires'[c].frames = Tail(wires[c].frames) /\ wires'[c].run = wires[c].run
    <3>1. wires' = [wires EXCEPT ![c] = [wires[c] EXCEPT !.frames = Tail(wires[c].frames)]]
      BY <2>1
    <3> QED
      BY <2>2, <3>1 DEF SaidWire
  <2>4. SameRuns
    BY <2>3 DEF SameRuns
  <2>5. Elements(wires'[c].frames) \subseteq Elements(wires[c].frames)
    BY <2>1, <2>2, <2>3, ElementsTail
  <2>6. \A d \in DOMAIN wires : Elements(wires'[d].frames) \subseteq Elements(wires[d].frames)
    BY <2>3, <2>5
  <2> QED
    BY <1>0, <2>1, <2>4, <2>6, WireLess, LastRunSame
<1>6. CASE \/ HandleEvent \/ WriteEvent \/ PublishEvent \/ AppendFails
           \/ Subscribe \/ Receive \/ Unsubscribe \/ UNCHANGED vars
  <2>1. UNCHANGED <<queue, wires, run, link>>
    BY <1>6 DEF HandleEvent, WriteEvent, PublishEvent, AppendFails, Subscribe, Receive,
                Unsubscribe, vars, agent
  <2>2. SameRuns
    BY <2>1 DEF SameRuns
  <2>3. WireOrder'
    BY <2>1, <2>2, WireLess
  <2> QED
    BY <1>0, <2>1, <2>3 DEF LastRun
<1> QED
  BY <1>1, <1>2, <1>3, <1>4, <1>5, <1>6 DEF Next, AgentNext, RelayNext

(* Sequences in the order of runs.                                         *)
InRuns(s)   == \A i, j \in DOMAIN s : i < j => s[i].at <= s[j].at
UpTo(s, n)  == \A e \in Elements(s) : e.at <= n
Ahead(s, t) == \A e \in Elements(s), f \in Elements(t) : e.at <= f.at

(* One that is not of an earlier run at the end,                           *)
LEMMA RunsAppend ==
  ASSUME NEW s \in Seq(Said), NEW e \in Said, InRuns(s), UpTo(s, e.at)
  PROVE  InRuns(Append(s, e))
<1> DEFINE a == Append(s, e)
           N == Len(s)
<1>1. /\ DOMAIN a = 1..N + 1 /\ DOMAIN s = 1..N /\ N \in Nat
      /\ a[N + 1] = e /\ \A i \in 1..N : a[i] = s[i]
  BY AppendProperties
<1>2. \A i \in 1..N : s[i].at <= e.at
  BY <1>1 DEF UpTo, Elements
<1> HIDE DEF a, N
<1>3. ASSUME NEW i \in 1..N + 1, NEW j \in 1..N + 1, i < j
      PROVE  a[i].at <= a[j].at
  <2>1. i \in 1..N
    BY <1>1, <1>3
  <2>2. CASE j = N + 1
    BY <1>1, <1>2, <2>1, <2>2
  <2>3. CASE j \in 1..N
    <3>1. s[i].at <= s[j].at
      BY <1>1, <1>3, <2>1, <2>3 DEF InRuns
    <3> QED
      BY <1>1, <2>1, <2>3, <3>1
  <2> QED
    BY <1>1, <2>2, <2>3
<1>4. InRuns(a)
  BY <1>1, <1>3 DEF InRuns
<1> QED
  BY <1>4 DEF a

(* one less at the front,                                                  *)
LEMMA RunsTail ==
  ASSUME NEW s \in Seq(Said), s # <<>>, InRuns(s)
  PROVE  /\ InRuns(Tail(s)) /\ \A e \in Elements(s) : Head(s).at <= e.at
<1> DEFINE t == Tail(s)
           N == Len(s)
<1>1. /\ DOMAIN t = 1..N - 1 /\ DOMAIN s = 1..N /\ N \in Nat /\ N >= 1
      /\ Head(s) = s[1] /\ \A i \in 1..N - 1 : t[i] = s[i + 1]
  BY Rests
<1> HIDE DEF t, N
<1>2. \A i \in 1..N - 1 : i + 1 \in 1..N
  BY <1>1
<1>3. ASSUME NEW i \in 1..N - 1, NEW j \in 1..N - 1, i < j
      PROVE  t[i].at <= t[j].at
  <2>1. i + 1 \in 1..N /\ j + 1 \in 1..N /\ i + 1 < j + 1
    BY <1>1, <1>3
  <2> QED
    BY <1>1, <2>1 DEF InRuns
<1>4. ASSUME NEW i \in 1..N PROVE s[1].at <= s[i].at
  <2>1. CASE i = 1
    <3>1. s[1] \in Said /\ s[1].at \in Nat
      <4>1. s[1] \in Said
        BY <1>1
      <4> QED
        BY <4>1, EventIs DEF Said
    <3> QED
      BY <2>1, <3>1
  <2>2. CASE i # 1
    <3>1. 1 \in 1..N /\ 1 < i
      BY <1>1, <2>2
    <3> QED
      BY <1>1, <3>1 DEF InRuns
  <2> QED
    BY <2>1, <2>2
<1>5. \A e \in Elements(s) : Head(s).at <= e.at
  BY <1>1, <1>4 DEF Elements
<1>6. InRuns(t)
  BY <1>1, <1>3 DEF InRuns
<1> QED
  BY <1>5, <1>6 DEF t

(* the newest of them.                                                     *)
LEMMA RunsNewest ==
  ASSUME NEW s \in Seq(Said), NEW n \in Nat, InRuns(s)
  PROVE  InRuns(Newest(s, n))
<1> DEFINE t == Newest(s, n)
           N == Len(s)
<1>1. PICK k \in Nat : t \in Seq(Said) /\ CutBy(t, s, k)
  BY NewestIs
<1> HIDE DEF t
<1>2. /\ DOMAIN t = 1..N - k /\ DOMAIN s = 1..N /\ N \in Nat /\ k \in Nat
      /\ \A i \in 1..N - k : t[i] = s[i + k]
  BY <1>1 DEF CutBy
<1> HIDE DEF t, N
<1>3. ASSUME NEW i \in 1..N - k, NEW j \in 1..N - k, i < j
      PROVE  t[i].at <= t[j].at
  <2>1. i + k \in 1..N /\ j + k \in 1..N /\ i + k < j + k
    BY <1>2, <1>3
  <2> QED
    BY <1>2, <2>1 DEF InRuns
<1>4. InRuns(t)
  BY <1>2, <1>3 DEF InRuns
<1> QED
  BY <1>4 DEF t

(* A sequence of what has arrived: no run in it is later than n or than    *)
(* those of what waits.                                                    *)
Settles(s, n, waiting) == InRuns(s) /\ UpTo(s, n) /\ Ahead(s, waiting)

ArriveOrder ==
  /\ InRuns(inbox) /\ UpTo(inbox, LastRun)
  /\ Settles(file, LastRun, inbox) /\ Settles(kept, LastRun, inbox) /\ Settles(history, LastRun, inbox)
  /\ attached => Settles(Handed, LastRun, inbox)
  /\ InRuns(given)

(* A later bound, and more that waits of the last run.                     *)
LEMMA SettlesOn ==
  ASSUME NEW s \in Seq(Said), NEW n \in Nat, NEW m \in Nat, NEW q, NEW r,
         Settles(s, n, q), n <= m, \A f \in Elements(r) : f \in Elements(q) \/ f.at = n
  PROVE  Settles(s, m, r)
<1>1. \A e \in Elements(s) : e.at \in Nat /\ e.at <= n
  <2>1. Elements(s) \subseteq Said
    BY ElementsIn
  <2> QED
    BY <2>1, EventIs DEF Said, Settles, UpTo
<1>2. UpTo(s, m)
  BY <1>1 DEF UpTo
<1>3. Ahead(s, r)
  BY <1>1 DEF Ahead, Settles
<1> QED
  BY <1>2, <1>3 DEF Settles

(* The next event that waits joins it.                                     *)
LEMMA SettlesMore ==
  ASSUME NEW s \in Seq(Said), NEW n \in Nat, NEW q \in Seq(Said), q # <<>>,
         Settles(s, n, q), InRuns(q), UpTo(q, n), NEW k \in Nat
  PROVE  /\ Settles(Append(s, Head(q)), n, q) /\ Settles(Newest(Append(s, Head(q)), k), n, q)
         /\ \A m, t : Settles(t, m, q) => Settles(t, m, Tail(q))
<1> DEFINE e == Head(q)
           a == Append(s, e)
           w == Newest(a, k)
<1>1. e \in Elements(q) /\ e \in Said /\ Elements(Tail(q)) \subseteq Elements(q)
  BY ElementsTail, Rests
<1>2. e.at <= n /\ \A f \in Elements(q) : e.at <= f.at
  BY <1>1, RunsTail DEF UpTo
<1> HIDE DEF e
<1>3. UpTo(s, e.at)
  BY <1>1 DEF Settles, Ahead, UpTo
<1>4. a \in Seq(Said) /\ Elements(a) = Elements(s) \cup {e} /\ InRuns(a)
  BY <1>1, <1>3, ElementsAppend, AppendProperties, RunsAppend DEF Settles
<1> HIDE DEF a
<1>5. Settles(a, n, q)
  BY <1>2, <1>4 DEF Settles, UpTo, Ahead
<1>6. Elements(w) \subseteq Elements(a) /\ InRuns(w)
  BY <1>4, ElementsNewest, RunsNewest
<1> HIDE DEF w
<1>7. Settles(w, n, q)
  BY <1>5, <1>6 DEF Settles, UpTo, Ahead
<1>8. \A m, t : Settles(t, m, q) => Settles(t, m, Tail(q))
  BY <1>1 DEF Settles, Ahead
<1> QED
  BY <1>5, <1>7, <1>8 DEF e, a, w

(* Steps that leave alone what has arrived.                                *)
LEMMA OrderStays ==
  ASSUME TypeInv, TypeInv', ArriveOrder, LastRun <= LastRun',
         UNCHANGED <<kept, history, file>>,
         InRuns(inbox'), UpTo(inbox', LastRun'),
         \A f \in Elements(inbox') : f \in Elements(inbox) \/ f.at = LastRun,
         attached' => attached /\ Handed' = Handed, InRuns(given')
  PROVE  ArriveOrder'
<1>1. /\ LastRun \in Nat /\ LastRun' \in Nat /\ Handed \in Seq(Said)
      /\ file \in Seq(Said) /\ kept \in Seq(Said) /\ history \in Seq(Said)
  <2>1. LastRun \in Nat /\ LastRun' \in Nat
    BY LastRunIs, LastRunNext
  <2> QED
    BY <2>1, HandedIs DEF TypeInv, RelayTypes
<1>2. Settles(file, LastRun', inbox') /\ Settles(kept, LastRun', inbox') /\ Settles(history, LastRun', inbox')
  BY <1>1, SettlesOn DEF ArriveOrder
<1>3. attached' => Settles(Handed', LastRun', inbox')
  BY <1>1, SettlesOn DEF ArriveOrder
<1> QED
  BY <1>2, <1>3 DEF ArriveOrder

(* An event that is published or whose append fails.                       *)
LEMMA OrderPop ==
  ASSUME TypeInv, ArriveOrder, inbox # <<>>, inbox' = Tail(inbox), LastRun' = LastRun,
         file' = file, kept' \in {kept, Window(Append(kept, Head(inbox)))},
         \/ history' = history \/ history' = kept' \/ history' = Window(Append(history, Head(inbox))),
         attached' = attached, given' = given,
         downlink' = downlink \/ broadcastToClients(Head(inbox))
  PROVE  ArriveOrder'
<1>1. /\ LastRun \in Nat /\ Handed \in Seq(Said) /\ inbox \in Seq(Said) /\ MaxHistory \in Nat
      /\ file \in Seq(Said) /\ kept \in Seq(Said) /\ history \in Seq(Said)
  BY LastRunIs, HandedIs, SizeAssumption DEF TypeInv, RelayTypes
<1>2. InRuns(inbox) /\ UpTo(inbox, LastRun)
  BY DEF ArriveOrder
<1>3. InRuns(inbox') /\ UpTo(inbox', LastRun)
  <2>1. Elements(inbox') \subseteq Elements(inbox)
    BY <1>1, ElementsTail
  <2> QED
    BY <1>1, <1>2, <2>1, RunsTail DEF UpTo
<1>4. ASSUME NEW s \in Seq(Said), Settles(s, LastRun, inbox)
      PROVE  /\ Settles(s, LastRun, inbox')
             /\ Settles(Append(s, Head(inbox)), LastRun, inbox')
             /\ Settles(Window(Append(s, Head(inbox))), LastRun, inbox')
  BY <1>1, <1>2, <1>4, SettlesMore DEF Window
<1>5. Settles(file, LastRun, inbox') /\ Settles(kept', LastRun, inbox')
  BY <1>1, <1>4 DEF ArriveOrder
<1>6. Settles(history', LastRun, inbox')
  BY <1>1, <1>4, <1>5 DEF ArriveOrder
<1>7. ASSUME attached' PROVE Settles(Handed', LastRun, inbox')
  <2>1. attached /\ Settles(Handed, LastRun, inbox)
    BY <1>7 DEF ArriveOrder
  <2>2. Handed' \in {Handed, Append(Handed, Head(inbox))}
    <3>1. CASE downlink' = downlink
      BY <3>1, HandedStays
    <3>2. CASE broadcastToClients(Head(inbox))
      <4>1. Head(inbox) \in Said
        BY <1>1, Rests
      <4> QED
        BY <2>1, <3>2, <4>1, HandedBroadcast DEF TypeInv
    <3> QED
      BY <3>1, <3>2
  <2> QED
    BY <1>1, <1>4, <2>1, <2>2
<1> QED
  BY <1>3, <1>5, <1>6, <1>7 DEF ArriveOrder

(* An event that arrives is of the last run.                               *)
LEMMA OrderArrive ==
  ASSUME ~LateRuns, TypeInv, TypeInv', WireOrder, ArriveOrder, Arrive, LastRun' = LastRun
  PROVE  ArriveOrder'
<1>1. PICK c \in DOMAIN wires :
        /\ wires[c].frames # <<>> /\ wires[c].run = wires[Len(wires)].run
        /\ inbox' = Append(inbox, Head(wires[c].frames))
  BY DEF Arrive
<1>2. UNCHANGED <<kept, history, file, attached, downlink, given>>
  BY DEF Arrive, client
<1> DEFINE e == Head(wires[c].frames)
<1>3. e \in Said /\ e \in Frames(c)
  <2>1. wires[c].frames \in Seq(Said)
    BY FlyingSaid
  <2> QED
    BY <1>1, <2>1, ElementsTail, Rests DEF Frames
<1>4. e.at = LastRun
  <2>1. wires # <<>>
    BY <1>1
  <2> QED
    BY <1>1, <1>3, <2>1 DEF WireOrder, LastRun
<1> HIDE DEF e
<1>5. inbox' = Append(inbox, e) /\ inbox \in Seq(Said) /\ InRuns(inbox) /\ UpTo(inbox, e.at)
  BY <1>1, <1>4 DEF TypeInv, RelayTypes, ArriveOrder, e
<1>6. InRuns(inbox') /\ Elements(inbox') = Elements(inbox) \cup {e}
  BY <1>3, <1>5, RunsAppend, ElementsAppend
<1>7. e.at <= LastRun /\ LastRun <= LastRun
  BY <1>4, LastRunIs
<1>8. UpTo(inbox', LastRun')
  BY <1>4, <1>5, <1>6, <1>7 DEF UpTo
<1>9. \A f \in Elements(inbox') : f \in Elements(inbox) \/ f.at = LastRun
  BY <1>4, <1>6
<1>10. attached' => attached /\ Handed' = Handed
  BY <1>2, HandedStays
<1>11. InRuns(given') /\ LastRun <= LastRun'
  BY <1>2, <1>7 DEF ArriveOrder
<1> QED
  BY <1>2, <1>6, <1>8, <1>9, <1>10, <1>11, OrderStays

(* The client's steps.                                                     *)
LEMMA OrderClient ==
  ASSUME TypeInv, TypeInv', ArriveOrder, Subscribe \/ Receive \/ Unsubscribe, LastRun' = LastRun
  PROVE  ArriveOrder'
<1>1. UNCHANGED <<kept, history, file, inbox>>
  BY DEF Subscribe, Receive, Unsubscribe, relay
<1>2. LastRun <= LastRun'
  BY LastRunIs
<1>3. CASE Subscribe
  <2>1. Handed' = history /\ given' = given
    BY <1>3, HandedSubscribe DEF Subscribe
  <2> QED
    BY <1>1, <2>1 DEF ArriveOrder
<1>4. CASE Receive
  <2>1. /\ Handed' = Handed /\ Handed \in Seq(Said) /\ given' \in Seq(Said)
        /\ \A i \in DOMAIN given' : i \in DOMAIN Handed /\ given'[i] = Handed[i]
    BY <1>4, HandedReceive DEF TypeInv
  <2>2. attached /\ attached' = attached
    BY <1>4 DEF Receive, TypeInv, ClientTypes
  <2>3. InRuns(Handed)
    BY <2>2 DEF ArriveOrder, Settles
  <2>4. InRuns(given')
    BY <2>1, <2>3 DEF InRuns
  <2> QED
    BY <1>1, <2>1, <2>2, <2>4 DEF ArriveOrder
<1>5. CASE Unsubscribe
  <2>1. ~attached' /\ given' = given
    BY <1>5 DEF Unsubscribe, client
  <2> QED
    BY <1>1, <2>1 DEF ArriveOrder
<1> QED
  BY <1>3, <1>4, <1>5

(* Together: every step keeps the runs in order.                           *)
LEMMA OrderStep ==
  ASSUME ~LateRuns, TypeInv, TypeInv', WireOrder, ArriveOrder, [Next]_vars
  PROVE  WireOrder' /\ ArriveOrder'
<1>1. WireOrder' /\ LastRun <= LastRun' /\ (~Connect => LastRun' = LastRun)
  BY WireStep
<1>2. LastRun \in Nat /\ LastRun' \in Nat /\ LastRun \in 0..run
  BY LastRunIs, LastRunNext
<1>3. CASE AgentNext \/ Break \/ UNCHANGED vars
  <2>1. UNCHANGED <<kept, history, file, inbox, attached, downlink, given>>
    BY <1>3 DEF AgentNext, StartAgent, Report, Request, Resolve, Forget, StopAgent, KillAgent, Ended,
                Connect, Disconnect, Break, vars, relay, client
  <2>2. UpTo(inbox', LastRun')
    <3>1. \A e \in Elements(inbox) : e.at \in Nat
      <4>1. Elements(inbox) \subseteq Said
        BY ElementsIn DEF TypeInv, RelayTypes
      <4> QED
        BY <4>1, EventIs DEF Said
    <3> QED
      BY <1>1, <1>2, <2>1, <3>1 DEF ArriveOrder, UpTo
  <2>3. InRuns(inbox') /\ InRuns(given')
    BY <2>1 DEF ArriveOrder
  <2>4. attached' => attached /\ Handed' = Handed
    BY <2>1, HandedStays
  <2> QED
    BY <1>1, <2>1, <2>2, <2>3, <2>4, OrderStays
<1>4. CASE Arrive
  <2>1. ~Connect
    BY <1>4 DEF Arrive, Connect, agent
  <2> QED
    BY <1>1, <1>4, <2>1, OrderArrive
<1>5. CASE HandleEvent \/ PublishEvent \/ AppendFails
  <2>1. wires' = wires /\ LastRun' = LastRun
    BY <1>5 DEF HandleEvent, PublishEvent, AppendFails, LastRun
  <2>2. inbox # <<>>
    BY <1>5 DEF HandleEvent, PublishEvent, AppendFails, TypeInv, RelayTypes
  <2>3. /\ inbox' = Tail(inbox) /\ UNCHANGED <<file, attached, given>>
        /\ kept' \in {kept, Window(Append(kept, Head(inbox)))}
        /\ history' = history \/ history' = kept' \/ history' = Window(Append(history, Head(inbox)))
        /\ downlink' = downlink \/ broadcastToClients(Head(inbox))
    BY <1>5 DEF HandleEvent, PublishEvent, AppendFails, client
  <2> QED
    BY <1>1, <2>1, <2>2, <2>3, OrderPop
<1>6. CASE WriteEvent
  <2>1. /\ inbox # <<>> /\ file' = Window(Append(file, Head(inbox))) /\ wires' = wires /\ LastRun' = LastRun
        /\ UNCHANGED <<inbox, kept, history, attached, downlink, given>>
    BY <1>6 DEF WriteEvent, client, LastRun
  <2>2. Handed' = Handed
    BY <2>1, HandedStays
  <2>3. Settles(file', LastRun, inbox)
    <3>1. /\ inbox \in Seq(Said) /\ file \in Seq(Said) /\ MaxHistory \in Nat
          /\ InRuns(inbox) /\ UpTo(inbox, LastRun) /\ Settles(file, LastRun, inbox)
      BY SizeAssumption DEF TypeInv, RelayTypes, ArriveOrder
    <3> QED
      BY <1>2, <2>1, <3>1, SettlesMore DEF Window
  <2> QED
    BY <1>1, <2>1, <2>2, <2>3 DEF ArriveOrder
<1>7. CASE RestartRelay
  <2>1. inbox' = <<>> /\ kept' = file /\ history' = file /\ file' = file /\ ~attached' /\ given' = given
    BY <1>7 DEF RestartRelay, client
  <2>2. LastRun' = LastRun
    <3>1. ~Connect
      BY <1>7 DEF RestartRelay, Connect, agent
    <3> QED
      BY <1>1, <3>1
  <2>3. Settles(file, LastRun, <<>>)
    BY ElementsOfNone DEF Settles, Ahead, ArriveOrder
  <2>4. InRuns(inbox') /\ UpTo(inbox', LastRun)
    BY <2>1, ElementsOfNone DEF InRuns, UpTo
  <2> QED
    BY <1>1, <2>1, <2>2, <2>3, <2>4 DEF ArriveOrder
<1>8. CASE Subscribe \/ Receive \/ Unsubscribe
  <2>1. wires' = wires /\ LastRun' = LastRun
    BY <1>8 DEF Subscribe, Receive, Unsubscribe, LastRun
  <2> QED
    BY <1>1, <1>8, <2>1, OrderClient
<1> QED
  BY <1>3, <1>4, <1>5, <1>6, <1>7, <1>8 DEF Next, RelayNext

(* At first there is nothing to order.                                     *)
LEMMA OrderInit == Init => WireOrder /\ ArriveOrder
<1> SUFFICES ASSUME Init PROVE WireOrder /\ ArriveOrder
  OBVIOUS
<1>1. /\ queue = <<>> /\ inbox = <<>> /\ kept = <<>> /\ history = <<>> /\ file = <<>>
      /\ wires = <<>> /\ ~attached /\ given = <<>> /\ link = 0
  BY DEF Init
<1>2. Settles(<<>>, LastRun, <<>>) /\ InRuns(<<>>) /\ UpTo(<<>>, LastRun)
  BY ElementsOfNone DEF Settles, InRuns, UpTo, Ahead
<1>3. DOMAIN wires = {}
  BY <1>1
<1> QED
  BY <1>1, <1>2, <1>3, ElementsOfNone DEF WireOrder, ArriveOrder

-----------------------------------------------------------------------------
(* What a client ignores was overtaken.                                    *)

(* What was taken of the first events.                                     *)
LEMMA TakenFront ==
  ASSUME NEW s \in Seq(Spoken), NEW k \in 0..Len(s)
  PROVE  TakenOf(SubSeq(s, 1, k)) = {m \in TakenOf(s) : m <= k}
<1> DEFINE t == SubSeq(s, 1, k)
<1>1. /\ t \in Seq(Spoken) /\ Len(t) = k /\ k \in Nat /\ k <= Len(s) /\ Len(s) \in Nat
      /\ \A i \in 1..k : t[i] = s[i]
  BY Fronts
<1>2. DOMAIN t = 1..k /\ DOMAIN s = 1..Len(s)
  BY <1>1
<1>3. ASSUME NEW m \in 1..k PROVE SubSeq(t, 1, m - 1) = SubSeq(s, 1, m - 1) /\ t[m] = s[m]
  <2>1. m - 1 \in 0..k /\ m - 1 \in 0..Len(s)
    BY <1>1
  <2>2. /\ SubSeq(s, 1, m - 1) \in Seq(Spoken) /\ Len(SubSeq(s, 1, m - 1)) = m - 1
        /\ \A i \in 1..m - 1 : SubSeq(s, 1, m - 1)[i] = s[i]
    BY <2>1, Fronts
  <2> HIDE DEF t
  <2>3. /\ SubSeq(t, 1, m - 1) \in Seq(Spoken) /\ Len(SubSeq(t, 1, m - 1)) = m - 1
        /\ \A i \in 1..m - 1 : SubSeq(t, 1, m - 1)[i] = t[i]
    BY <1>1, <2>1, Fronts
  <2>4. \A i \in 1..m - 1 : SubSeq(t, 1, m - 1)[i] = SubSeq(s, 1, m - 1)[i]
    BY <1>1, <2>2, <2>3
  <2> QED
    BY <1>1, <2>2, <2>3, <2>4, SeqEqual
<1> HIDE DEF t
<1>4. 1..k = {m \in 1..Len(s) : m <= k}
  BY <1>1
<1>5. \A m \in 1..k : m \in TakenOf(t) <=> m \in TakenOf(s)
  BY <1>2, <1>3, <1>4 DEF TakenOf
<1>6. TakenOf(t) \subseteq 1..k /\ TakenOf(s) \subseteq 1..Len(s)
  BY <1>2 DEF TakenOf
<1> QED
  BY <1>4, <1>5, <1>6 DEF t

(* An event whose id is remembered was handed over before.                 *)
LEMMA OvertakenById ==
  ASSUME NEW s \in Seq(Spoken), NEW e \in Spoken, ViewFacts(s),
         \E i \in DOMAIN reduceEvents(s).recentEventIds : reduceEvents(s).recentEventIds[i] = e.eventId
  PROVE  \E m \in DOMAIN s : NotAfter(e, s[m])
<1>1. PICK m \in DOMAIN s : s[m].eventId = e.eventId
  BY DEF ViewFacts, IdsKnown
<1>2. s[m] \in Spoken
  BY ElementOfSeq
<1>3. <<s[m].at, s[m].sequence>> = <<e.at, e.sequence>>
  BY <1>1, <1>2, EventIs
<1>4. s[m].at = e.at /\ s[m].sequence = e.sequence /\ e.sequence \in Nat
  BY <1>3, EventIs
<1> QED
  BY <1>4 DEF NotAfter

(* A host.connected that is ignored is not later than the host was seen.   *)
LEMMA OvertakenStart ==
  ASSUME NEW s \in Seq(Spoken), NEW e \in Spoken, ViewFacts(s), e.type = "host.connected",
         \E n \in TakenOf(s) : s[n].type = "host.connected",
         e.sequence <= LastSequence(reduceEvents(s), e.host), ~HostRestarted(reduceEvents(s), e)
  PROVE  \E m \in DOMAIN s : NotAfter(e, s[m])
<1> DEFINE v == reduceEvents(s)
<1>1. Host \in DOMAIN v.hosts /\ e.host = Host
  BY EventIs DEF ViewFacts, HostKnown
<1>2. ~(e.at > v.hosts[Host].lastSeenAt)
  BY <1>1 DEF HostRestarted
<1>3. PICK m \in TakenOf(s) : s[m].at = v.hosts[Host].lastSeenAt
  BY <1>1 DEF ViewFacts, HostKnown
<1> HIDE DEF v
<1>4. m \in DOMAIN s /\ s[m] \in Spoken
  BY ElementOfSeq DEF TakenOf
<1>5. s[m].at \in Nat /\ s[m].sequence \in Nat /\ s[m].sequence >= 1 /\ e.at \in Nat /\ e.sequence = 1
  BY <1>4, EventIs DEF Spoken
<1>6. e.at <= s[m].at
  BY <1>2, <1>3, <1>5
<1>7. e.at < s[m].at \/ (e.at = s[m].at /\ e.sequence <= s[m].sequence)
  BY <1>5, <1>6
<1> QED
  BY <1>4, <1>7 DEF NotAfter

(* Any other event of a run whose start was taken has a number that was    *)
(* passed, in its run or in a later one.                                   *)
LEMMA OvertakenOther ==
  ASSUME NEW s \in Seq(Spoken), NEW e \in Spoken, ViewFacts(s), InRuns(s),
         NEW n \in TakenOf(s), s[n].at = e.at,
         e.sequence <= LastSequence(reduceEvents(s), e.host)
  PROVE  \E m \in DOMAIN s : NotAfter(e, s[m])
<1>1. PICK m \in TakenOf(s) : /\ \A k \in TakenOf(s) : k <= m
                              /\ LastSequence(reduceEvents(s), Host) = s[m].sequence
  BY DEF ViewFacts, LastKnown
<1>2. m \in DOMAIN s /\ n \in DOMAIN s /\ n <= m /\ m \in Nat /\ n \in Nat
  BY <1>1 DEF TakenOf
<1>3. s[m] \in Spoken /\ s[n] \in Spoken
  BY <1>2, ElementOfSeq
<1>4. /\ s[m].at \in Nat /\ s[m].sequence \in Nat /\ s[n].at \in Nat
      /\ e.at \in Nat /\ e.sequence \in Nat /\ e.host = Host
  BY <1>3, EventIs
<1>5. e.at <= s[m].at
  <2>1. CASE n = m
    BY <1>4, <2>1
  <2>2. CASE n < m
    BY <1>2, <1>4, <2>2 DEF InRuns
  <2> QED
    BY <1>2, <2>1, <2>2
<1>6. e.sequence <= s[m].sequence
  BY <1>1, <1>4
<1>7. e.at < s[m].at \/ (e.at = s[m].at /\ e.sequence <= s[m].sequence)
  BY <1>4, <1>5, <1>6
<1> QED
  BY <1>2, <1>7 DEF NotAfter

(* Together.                                                               *)
LEMMA OvertakenInv == TypeInv /\ InRuns(given) => OnlyOvertakenIgnored
<1> SUFFICES ASSUME TypeInv, InRuns(given), NEW n \in Dropped, NEW m \in Taken, m < n,
                    given[m].type = "host.connected",
                    given[m].at = given[n].at \/ given[n].type = "host.connected"
             PROVE  \E k \in DOMAIN given : k < n /\ NotAfter(given[n], given[k])
  BY DEF OnlyOvertakenIgnored
<1> DEFINE s == SubSeq(given, 1, n - 1)
           e == given[n]
<1>1. /\ given \in Seq(Spoken) /\ n \in DOMAIN given /\ Ignored(reduceEvents(s), e)
      /\ Taken = TakenOf(given)
  BY GivenFacts DEF View
<1>2. n \in 1..Len(given) /\ Len(given) \in Nat /\ n - 1 \in 0..Len(given) /\ DOMAIN given = 1..Len(given)
  BY <1>1
<1>3. s \in Seq(Spoken) /\ Len(s) = n - 1 /\ \A i \in 1..n - 1 : s[i] = given[i]
  BY <1>1, <1>2, Fronts
<1>4. TakenOf(s) = {k \in Taken : k <= n - 1}
  BY <1>1, <1>2, TakenFront
<1>5. e \in Spoken
  BY <1>1, ElementOfSeq
<1> HIDE DEF s, e
<1>6. DOMAIN s = 1..n - 1 /\ \A k \in 1..n - 1 : k \in DOMAIN given /\ k < n
  BY <1>2, <1>3
<1>7. m \in 1..n - 1 /\ m <= n - 1
  <2>1. m \in 1..Len(given)
    BY <1>2 DEF Taken
  <2> QED
    BY <1>2, <2>1
<1>8. m \in TakenOf(s) /\ s[m] = given[m]
  BY <1>3, <1>4, <1>7
<1>9. InRuns(s)
  BY <1>3, <1>6 DEF InRuns
<1>10. ViewFacts(s)
  BY <1>3, FactsHold
<1>11. \E k \in DOMAIN s : NotAfter(e, s[k])
  <2>1. CASE \E i \in DOMAIN reduceEvents(s).recentEventIds : reduceEvents(s).recentEventIds[i] = e.eventId
    BY <1>3, <1>5, <1>10, <2>1, OvertakenById
  <2>2. CASE e.sequence <= LastSequence(reduceEvents(s), e.host) /\ ~HostRestarted(reduceEvents(s), e)
    <3>1. CASE e.type = "host.connected"
      BY <1>3, <1>5, <1>8, <1>10, <2>2, <3>1, OvertakenStart
    <3>2. CASE e.type # "host.connected"
      <4>1. s[m].at = e.at
        BY <1>8, <3>2 DEF e
      <4> QED
        BY <1>3, <1>5, <1>8, <1>9, <1>10, <2>2, <4>1, OvertakenOther
    <3> QED
      BY <3>1, <3>2
  <2> QED
    BY <1>1, <2>1, <2>2 DEF Ignored
<1> QED
  BY <1>3, <1>6, <1>11 DEF e

(* Where no frame of an earlier run arrives once the host has connected    *)
(* again, a client that took a run's host.connected ignores of that run,   *)
(* and of later starts, only what it was handed already or what a later    *)
(* event of the host came before: nothing is taken for a repetition that   *)
(* is not one.                                                             *)
THEOREM OvertakenOnly == ASSUME ~LateRuns PROVE Spec => []OnlyOvertakenIgnored
<1> DEFINE I == TypeInv /\ WireOrder /\ ArriveOrder
<1>1. Init => I
  BY TypeInit, OrderInit
<1>2. I /\ [Next]_vars => I'
  BY TypeStep, OrderStep
<1>3. I => OnlyOvertakenIgnored
  BY OvertakenInv DEF ArriveOrder
<1> HIDE DEF I
<1> QED
  BY <1>1, <1>2, <1>3, PTL DEF Spec

-----------------------------------------------------------------------------
(* What is known anywhere of a run tells what its agent waits for.         *)
InFrames == UNION {Elements(downlink[n].events) : n \in DOMAIN downlink}
Anywhere == Flying \cup Elements(file) \cup Elements(kept) \cup Elements(history)
              \cup Elements(given) \cup InFrames

(* Of the events s, n of which were said in run r so far, with p waiting:  *)
(* no decision is about what waits, whatever waits was a request, and a    *)
(* request that does not wait has a decision with a number of its own.     *)
Truth(s, r, n, p) ==
  \A e \in s :
    /\ e.type = "approval.resolved" => e.subject \notin p
    /\ e.eventId \in p => e.type = "approval.requested"
    /\ e.at = r /\ e.type = "approval.requested" /\ e.eventId \notin p =>
         \E k \in 1..n : \A f \in s : f.at = r /\ f.sequence = k =>
           f.type = "approval.resolved" /\ f.subject = e.eventId

(* What has been asked for and not been decided in the open.               *)
Asked == pending \cup forgotten

TruthInv == up => Truth(Anywhere, run, sequence, Asked)

(* It is no less true where less is known,                                 *)
LEMMA TruthLess ==
  ASSUME NEW s, NEW t, t \subseteq s, NEW r, NEW n, NEW p, Truth(s, r, n, p)
  PROVE  Truth(t, r, n, p)
BY DEF Truth

(* nor when one more event is said: a report, a request or a decision.     *)
LEMMA TruthMore ==
  ASSUME NEW s \in SUBSET Spoken, NEW r \in Nat, NEW n \in Nat, NEW p, NEW q, NEW e,
         \A f \in s : f.at = r => f.sequence <= n,
         p \subseteq {<<r, k>> : k \in 1..n},
         Truth(s, r, n, p), e.at = r, e.sequence = n + 1, e.eventId = <<r, n + 1>>,
         \/ q = p /\ e.type \notin {"approval.requested", "approval.resolved"}
         \/ q = p \cup {e.eventId} /\ e.type = "approval.requested"
         \/ q = p \ {e.subject} /\ e.type = "approval.resolved" /\ e.subject \in p
  PROVE  Truth(s \cup {e}, r, n + 1, q)
<1>1. e.eventId \notin p
  BY SMT
<1>2. \A f \in s : /\ f.at \in Nat /\ f.sequence \in Nat /\ f.eventId = <<f.at, f.sequence>>
                   /\ f.type = "approval.resolved" => f.subject[1] = f.at /\ f.subject[2] < f.sequence
  BY EventIs DEF Spoken
<1>3. \A f \in s : f.eventId # e.eventId
  BY <1>2
<1>4. \A f \in s : f.type = "approval.resolved" => f.subject # e.eventId
  BY <1>2
<1>5. ASSUME NEW f \in s \cup {e}, f.type = "approval.resolved" PROVE f.subject \notin q
  BY <1>4, <1>5 DEF Truth
<1>6. ASSUME NEW f \in s \cup {e}, f.eventId \in q PROVE f.type = "approval.requested"
  BY <1>1, <1>3, <1>6 DEF Truth
<1>7. ASSUME NEW f \in s \cup {e}, f.at = r, f.type = "approval.requested", f.eventId \notin q
      PROVE  \E k \in 1..n + 1 : \A g \in s \cup {e} : g.at = r /\ g.sequence = k =>
               g.type = "approval.resolved" /\ g.subject = f.eventId
  <2>1. f \in s
    BY <1>7
  <2>2. CASE f.eventId \in p
    <3>1. e.type = "approval.resolved" /\ e.subject = f.eventId
      BY <1>7, <2>2
    <3>2. \A g \in s : g.at = r => g.sequence # n + 1
      BY <1>2
    <3>3. n + 1 \in 1..n + 1
      OBVIOUS
    <3> QED
      BY <3>1, <3>2, <3>3
  <2>3. CASE f.eventId \notin p
    <3>1. PICK k \in 1..n : \A g \in s : g.at = r /\ g.sequence = k =>
                              g.type = "approval.resolved" /\ g.subject = f.eventId
      BY <1>7, <2>1, <2>3 DEF Truth
    <3>2. k \in 1..n + 1 /\ e.sequence # k
      OBVIOUS
    <3> QED
      BY <3>1, <3>2
  <2> QED
    BY <2>2, <2>3
<1> QED
  BY <1>5, <1>6, <1>7 DEF Truth

(* Everything that is known was said.                                      *)
LEMMA AnywhereSaid ==
  ASSUME TypeInv
  PROVE  /\ Anywhere \subseteq Said /\ Anywhere \in SUBSET Spoken
         /\ \A e \in Anywhere : e.at <= run /\ (e.at = run => e.sequence <= sequence)
<1>1. /\ Elements(file) \subseteq Said /\ Elements(kept) \subseteq Said
      /\ Elements(history) \subseteq Said /\ Elements(given) \subseteq Said
  BY ElementsIn DEF TypeInv, RelayTypes, ClientTypes
<1>2. InFrames \subseteq Said
  <2>1. ASSUME NEW n \in DOMAIN downlink PROVE Elements(downlink[n].events) \subseteq Said
    <3>1. downlink[n] \in Frame
      BY ElementOfSeq DEF TypeInv, ClientTypes
    <3>2. downlink[n].events \in Seq(Said)
      BY <3>1 DEF Frame
    <3> QED
      BY <3>2, ElementsIn
  <2> QED
    BY <2>1 DEF InFrames
<1>3. Anywhere \subseteq Said
  BY <1>1, <1>2, FlyingSaid DEF Anywhere
<1>4. run \in Nat /\ sequence \in Nat
  BY Numbers DEF TypeInv
<1>5. \A e \in Said : e \in Spoken /\ e.at <= run /\ (e.at = run => e.sequence <= sequence)
  <2>1. ASSUME NEW e \in Said PROVE e \in Spoken /\ e.at <= run /\ (e.at = run => e.sequence <= sequence)
    <3>1. e \in Spoken /\ (e.at < run \/ (e.at = run /\ e.sequence <= sequence))
      BY DEF Said
    <3>2. e.at \in Nat /\ e.sequence \in Nat
      BY <3>1, EventIs
    <3> QED
      BY <1>4, <3>1, <3>2
  <2> QED
    BY <2>1
<1> QED
  BY <1>3, <1>5

(* What is known where only what is on its way changes.                    *)
LEMMA AnywhereStays ==
  ASSUME NEW X, UNCHANGED <<file, kept, history, given, downlink>>, Flying' \subseteq Flying \cup X
  PROVE  Anywhere' \subseteq Anywhere \cup X
<1>1. InFrames' = InFrames
  BY DEF InFrames
<1>2. /\ Elements(file)' = Elements(file) /\ Elements(kept)' = Elements(kept)
      /\ Elements(history)' = Elements(history) /\ Elements(given)' = Elements(given)
  BY DEF Elements
<1> QED
  BY <1>1, <1>2 DEF Anywhere

(* The window of a sequence with one event more.                           *)
LEMMA WindowIn ==
  ASSUME NEW s \in Seq(Said), NEW e \in Said
  PROVE  Elements(Window(Append(s, e))) \subseteq Elements(s) \cup {e}
<1>1. MaxHistory \in Nat
  BY SizeAssumption
<1>2. Append(s, e) \in Seq(Said) /\ Elements(Append(s, e)) = Elements(s) \cup {e}
  BY ElementsAppend, AppendProperties
<1>3. Elements(Newest(Append(s, e), MaxHistory)) \subseteq Elements(Append(s, e))
  BY <1>1, <1>2, ElementsNewest
<1> QED
  BY <1>2, <1>3 DEF Window

(* One sequence after another.                                             *)
LEMMA ElementsConcat ==
  ASSUME NEW S, NEW s \in Seq(S), NEW t \in Seq(S)
  PROVE  Elements(s \o t) \subseteq Elements(s) \cup Elements(t)
<1>1. /\ Len(s) \in Nat /\ Len(t) \in Nat /\ DOMAIN s = 1..Len(s) /\ DOMAIN t = 1..Len(t)
      /\ s \o t \in Seq(S) /\ Len(s \o t) = Len(s) + Len(t)
      /\ \A i \in 1..Len(s) + Len(t) : (s \o t)[i] = IF i <= Len(s) THEN s[i] ELSE t[i - Len(s)]
  BY ConcatProperties
<1> DEFINE u == s \o t
<1>2. DOMAIN u = 1..Len(s) + Len(t)
  BY <1>1
<1>3. ASSUME NEW i \in 1..Len(s) + Len(t) PROVE u[i] \in Elements(s) \cup Elements(t)
  <2>1. CASE i <= Len(s)
    <3>1. i \in DOMAIN s /\ u[i] = s[i]
      BY <1>1, <2>1
    <3> QED
      BY <3>1 DEF Elements
  <2>2. CASE ~(i <= Len(s))
    <3>1. i - Len(s) \in DOMAIN t /\ u[i] = t[i - Len(s)]
      BY <1>1, <2>2
    <3> QED
      BY <3>1 DEF Elements
  <2> QED
    BY <2>1, <2>2
<1> HIDE DEF u
<1>4. Elements(u) \subseteq Elements(s) \cup Elements(t)
  BY <1>2, <1>3 DEF Elements
<1> QED
  BY <1>4 DEF u

(* The relay and the client learn nothing that was not known.              *)
LEMMA AnywherePop ==
  ASSUME TypeInv, FlightInv, inbox # <<>>, inbox' = Tail(inbox), queue' = queue, wires' = wires,
         file' = file, given' = given,
         kept' \in {kept, Window(Append(kept, Head(inbox)))},
         \/ history' = history \/ history' = kept' \/ history' = Window(Append(history, Head(inbox))),
         downlink' = downlink \/ broadcastToClients(Head(inbox))
  PROVE  Anywhere' \subseteq Anywhere
<1> DEFINE e == Head(inbox)
<1>1. Flying' \subseteq Flying /\ e \in Flying /\ e \in Said
  BY FlightPop
<1>2. kept \in Seq(Said) /\ history \in Seq(Said) /\ downlink \in Seq(Frame)
  BY DEF TypeInv, RelayTypes, ClientTypes
<1>3. /\ kept' = kept \/ kept' = Window(Append(kept, e))
      /\ downlink' = downlink \/ downlink' = Append(downlink, [kind |-> "event", events |-> <<e>>])
      /\ history' = history \/ history' = kept' \/ history' = Window(Append(history, e))
  BY DEF broadcastToClients
<1> HIDE DEF e
<1>4. Elements(kept') \subseteq Elements(kept) \cup {e}
  BY <1>1, <1>2, <1>3, WindowIn
<1>5. Elements(history') \subseteq Elements(history) \cup Elements(kept') \cup {e}
  BY <1>1, <1>2, <1>3, WindowIn
<1>6. InFrames' \subseteq InFrames \cup {e}
  <2>1. CASE downlink' = downlink
    BY <2>1 DEF InFrames
  <2>2. CASE downlink' = Append(downlink, [kind |-> "event", events |-> <<e>>])
    <3> DEFINE x == [kind |-> "event", events |-> <<e>>]
               N == Len(downlink)
    <3>1. Elements(x.events) = {e}
      BY DEF Elements
    <3> HIDE DEF x
    <3>2. /\ N \in Nat /\ DOMAIN downlink = 1..N /\ DOMAIN downlink' = 1..N + 1
          /\ downlink'[N + 1] = x /\ \A n \in 1..N : downlink'[n] = downlink[n]
      BY <1>2, <2>2, AppendProperties DEF x
    <3>3. \A n \in 1..N + 1 : n = N + 1 \/ n \in 1..N
      BY <3>2
    <3> QED
      BY <3>1, <3>2, <3>3 DEF InFrames
  <2> QED
    BY <1>3, <2>1, <2>2
<1>7. Elements(file') = Elements(file) /\ Elements(given') = Elements(given)
  OBVIOUS
<1> QED
  BY <1>1, <1>4, <1>5, <1>6, <1>7 DEF Anywhere, Elements

LEMMA AnywhereWrite ==
  ASSUME TypeInv, WriteEvent
  PROVE  Anywhere' \subseteq Anywhere
<1> DEFINE e == Head(inbox)
<1>1. /\ inbox # <<>> /\ file' = Window(Append(file, e))
      /\ UNCHANGED <<queue, wires, inbox, kept, history, downlink, given>>
  BY DEF WriteEvent, agent, client
<1>2. e \in Elements(inbox) /\ e \in Said /\ file \in Seq(Said)
  BY <1>1, ElementsTail, Rests DEF TypeInv, RelayTypes
<1> HIDE DEF e
<1>3. Elements(file') \subseteq Elements(file) \cup {e}
  BY <1>1, <1>2, WindowIn
<1>4. Flying' = Flying /\ InFrames' = InFrames
  BY <1>1 DEF Flying, OnWires, Frames, InFrames
<1>5. e \in Flying
  BY <1>2 DEF Flying
<1>6. Elements(kept') = Elements(kept) /\ Elements(history') = Elements(history) /\ Elements(given') = Elements(given)
  BY <1>1
<1> QED
  BY <1>3, <1>4, <1>5, <1>6 DEF Anywhere, Elements

(* A relay that restarts forgets.                                          *)
LEMMA AnywhereRestart ==
  ASSUME TypeInv, FlightInv, RestartRelay
  PROVE  Anywhere' \subseteq Anywhere
<1>1. /\ inbox' = <<>> /\ kept' = file /\ history' = file /\ file' = file /\ downlink' = <<>>
      /\ given' = given /\ queue' = queue /\ wires' = [c \in DOMAIN wires |-> Cut(wires[c])]
  BY DEF RestartRelay, agent, client
<1>2. \A c \in DOMAIN wires : wires'[c].frames = <<>>
  <2>1. \A c \in DOMAIN wires : wires[c] \in SaidWire
    BY ElementOfSeq DEF TypeInv, WireTypes
  <2> QED
    BY <1>1, <2>1 DEF Cut, SaidWire
<1>3. Flying' \subseteq Flying
  BY <1>1, <1>2, ElementsOfNone, FlightLess DEF FlightInv
<1>4. InFrames' = {}
  BY <1>1 DEF InFrames
<1>5. Elements(file') = Elements(file) /\ Elements(kept') = Elements(file)
      /\ Elements(history') = Elements(file) /\ Elements(given') = Elements(given)
  BY <1>1
<1> QED
  BY <1>3, <1>4, <1>5 DEF Anywhere, Elements

(* The client's steps.                                                     *)
LEMMA AnywhereClient ==
  ASSUME TypeInv, Subscribe \/ Receive \/ Unsubscribe
  PROVE  Anywhere' \subseteq Anywhere
<1>1. UNCHANGED <<queue, wires, inbox, file, kept, history>>
  BY DEF Subscribe, Receive, Unsubscribe, agent, relay
<1>2. /\ Flying' = Flying /\ Elements(file)' = Elements(file)
      /\ Elements(kept)' = Elements(kept) /\ Elements(history)' = Elements(history)
  BY <1>1 DEF Flying, OnWires, Frames, Elements
<1>3. InFrames' \cup Elements(given)' \subseteq InFrames \cup Elements(given) \cup Elements(history)
  <2>1. CASE Subscribe
    <3>1. given' = given /\ downlink' = <<[kind |-> "snapshot", events |-> history]>>
      BY <2>1 DEF Subscribe
    <3>2. DOMAIN downlink' = {1} /\ downlink'[1].events = history
      BY <3>1
    <3>3. InFrames' = Elements(history)
      BY <3>2 DEF InFrames, Elements
    <3> QED
      BY <3>1, <3>3 DEF Elements
  <2>2. CASE Unsubscribe
    <3>1. given' = given /\ downlink' = <<>>
      BY <2>2 DEF Unsubscribe, client
    <3>2. InFrames' = {}
      BY <3>1 DEF InFrames
    <3> QED
      BY <3>1, <3>2 DEF Elements
  <2>3. CASE Receive
    <3>1. /\ downlink # <<>> /\ downlink' = Tail(downlink) /\ downlink \in Seq(Frame)
          /\ given' = Head(downlink).events \/ given' = given \o Head(downlink).events
      BY <2>3 DEF Receive, TypeInv, ClientTypes
    <3> DEFINE N == Len(downlink)
    <3>2. /\ N \in Nat /\ N >= 1 /\ DOMAIN downlink = 1..N /\ DOMAIN downlink' = 1..N - 1
          /\ Head(downlink) = downlink[1] /\ \A n \in 1..N - 1 : downlink'[n] = downlink[n + 1]
      BY <3>1, Rests
    <3>3. \A n \in 1..N - 1 : n + 1 \in 1..N
      BY <3>2
    <3>4. InFrames' \subseteq InFrames
      BY <3>2, <3>3 DEF InFrames, Elements
    <3>5. 1 \in DOMAIN downlink /\ downlink[1] \in Frame
      BY <3>1, <3>2, ElementOfSeq
    <3>6. downlink[1].events \in Seq(Said) /\ given \in Seq(Said)
      BY <3>5 DEF Frame, TypeInv, ClientTypes
    <3>7. Elements(given \o downlink[1].events) \subseteq Elements(given) \cup Elements(downlink[1].events)
      BY <3>6, ElementsConcat
    <3>8. Elements(downlink[1].events) \subseteq InFrames
      BY <3>5 DEF InFrames
    <3>9. Elements(given') \subseteq Elements(given) \cup InFrames
      BY <3>1, <3>2, <3>7, <3>8
    <3> QED
      BY <3>4, <3>9 DEF Elements
  <2> QED
    BY <2>1, <2>2, <2>3
<1> QED
  BY <1>2, <1>3 DEF Anywhere

(* Only the agent makes events.                                            *)
LEMMA AnywhereOthers ==
  ASSUME TypeInv, FlightInv,
         \/ RelayNext \/ Break \/ RestartRelay \/ Subscribe \/ Receive \/ Unsubscribe
         \/ Connect \/ Disconnect \/ UNCHANGED vars
  PROVE  Anywhere' \subseteq Anywhere
<1>1. CASE Arrive \/ Break \/ Connect \/ Disconnect \/ UNCHANGED vars
  <2>1. UNCHANGED <<file, kept, history, given, downlink>>
    BY <1>1 DEF Arrive, Break, Connect, Disconnect, vars, relay, client
  <2>2. Flying' \subseteq Flying
    <3>1. CASE Arrive
      BY <3>1, FlightArrive
    <3>2. CASE Connect
      BY <3>2, FlightConnect
    <3>3. CASE Break
      <4>1. queue' = queue /\ inbox' = inbox
        BY <3>3 DEF Break, agent, relay
      <4>2. PICK c \in DOMAIN wires : wires' = [wires EXCEPT ![c] = Cut(@)]
        BY <3>3 DEF Break
      <4>3. \A d \in DOMAIN wires : wires[d] \in SaidWire
        BY ElementOfSeq DEF TypeInv, WireTypes
      <4>4. /\ DOMAIN wires' = DOMAIN wires
            /\ \A d \in DOMAIN wires : wires'[d].frames \in {wires[d].frames, <<>>}
        BY <4>2, <4>3 DEF Cut, SaidWire
      <4> QED
        BY <4>1, <4>4, FlightLess DEF FlightInv
    <3>4. CASE Disconnect \/ UNCHANGED vars
      <4>1. queue' = queue /\ inbox' = inbox /\ wires' = wires
        BY <3>4 DEF Disconnect, vars, agent, relay
      <4> QED
        BY <4>1 DEF Flying, OnWires, Frames, Elements
    <3> QED
      BY <1>1, <3>1, <3>2, <3>3, <3>4
  <2>3. Flying' \subseteq Flying \cup {}
    BY <2>2
  <2>4. Anywhere' \subseteq Anywhere \cup {}
    BY <2>1, <2>3, AnywhereStays
  <2> QED
    BY <2>4
<1>2. CASE HandleEvent \/ PublishEvent \/ AppendFails
  <2>1. inbox # <<>>
    BY <1>2 DEF HandleEvent, PublishEvent, AppendFails, TypeInv, RelayTypes
  <2>2. /\ inbox' = Tail(inbox) /\ queue' = queue /\ wires' = wires /\ file' = file /\ given' = given
        /\ kept' \in {kept, Window(Append(kept, Head(inbox)))}
        /\ history' = history \/ history' = kept' \/ history' = Window(Append(history, Head(inbox)))
        /\ downlink' = downlink \/ broadcastToClients(Head(inbox))
    BY <1>2 DEF HandleEvent, PublishEvent, AppendFails, agent, client
  <2> QED
    BY <2>1, <2>2, AnywherePop
<1> QED
  BY <1>1, <1>2, AnywhereWrite, AnywhereRestart, AnywhereClient DEF RelayNext

(* An event of a running agent.                                            *)
LEMMA TruthEmit ==
  ASSUME TypeInv, FlightInv, TruthInv, NEW session, NEW type, NEW subject, NEW value,
         Emit(session, type, subject, value), inbox' = inbox, run' = run,
         UNCHANGED <<file, kept, history, given, downlink>>,
         \/ Asked' = Asked /\ type \notin {"approval.requested", "approval.resolved"}
         \/ Asked' = Asked \cup {<<run, sequence + 1>>} /\ type = "approval.requested"
         \/ Asked' = Asked \ {subject} /\ type = "approval.resolved" /\ subject \in Asked
  PROVE  TruthInv'
<1> DEFINE e == create(run, sequence + 1, session, type, subject, value)
<1>1. Flying' \subseteq Flying \cup {e}
  BY FlightEmit
<1>2. /\ e.at = run /\ e.sequence = sequence + 1 /\ e.eventId = <<run, sequence + 1>>
      /\ e.type = type /\ e.subject = subject
  BY DEF create
<1> HIDE DEF e
<1>3. Anywhere' \subseteq Anywhere \cup {e}
  BY <1>1, AnywhereStays
<1>4. up /\ sequence' = sequence + 1
  BY DEF Emit
<1>5. /\ run \in Nat /\ sequence \in Nat /\ Asked \subseteq {<<run, k>> : k \in 1..sequence}
      /\ Truth(Anywhere, run, sequence, Asked)
  BY <1>4, Numbers DEF TypeInv, AgentTypes, TruthInv, Asked
<1>6. Anywhere \in SUBSET Spoken /\ \A f \in Anywhere : f.at = run => f.sequence <= sequence
  BY AnywhereSaid
<1>7. \/ Asked' = Asked /\ e.type \notin {"approval.requested", "approval.resolved"}
      \/ Asked' = Asked \cup {e.eventId} /\ e.type = "approval.requested"
      \/ Asked' = Asked \ {e.subject} /\ e.type = "approval.resolved" /\ e.subject \in Asked
  BY <1>2
<1>8. Truth(Anywhere \cup {e}, run, sequence + 1, Asked')
  BY <1>2, <1>5, <1>6, <1>7, TruthMore
<1>9. Truth(Anywhere', run, sequence + 1, Asked')
  BY <1>3, <1>8, TruthLess
<1> QED
  BY <1>4, <1>9 DEF TruthInv

(* A new run: nothing of it is known but its first event.                  *)
LEMMA TruthStart == TypeInv /\ FlightInv /\ StartAgent => TruthInv'
<1> SUFFICES ASSUME TypeInv, FlightInv, StartAgent PROVE TruthInv'
  OBVIOUS
<1> DEFINE e == create(run + 1, 1, NoSession, "host.connected", <<>>, "none")
<1>1. Flying' \subseteq Flying \cup {e}
  BY FlightStart
<1>2. e.type = "host.connected"
  BY DEF create
<1> HIDE DEF e
<1>3. /\ UNCHANGED <<file, kept, history, given, downlink>>
      /\ run' = run + 1 /\ Asked' = {}
  BY DEF StartAgent, relay, client, Asked
<1>4. Anywhere' \subseteq Anywhere \cup {e}
  BY <1>1, <1>3, AnywhereStays
<1>5. \A f \in Anywhere : f.at # run + 1
  <2>1. ASSUME NEW f \in Anywhere PROVE f.at # run + 1
    <3>1. f \in Spoken /\ f.at <= run
      BY AnywhereSaid
    <3> QED
      BY <3>1, EventIs, Numbers DEF TypeInv
  <2> QED
    BY <2>1
<1>6. \A f \in Anywhere' : f.at = run' => f = e
  BY <1>3, <1>4, <1>5
<1>7. \A f \in Anywhere' : f.at = run' => f.type # "approval.requested"
  BY <1>2, <1>6
<1> QED
  BY <1>3, <1>7 DEF TruthInv, Truth

(* Every step keeps it.                                                    *)
LEMMA TruthStep == TypeInv /\ FlightInv /\ TruthInv /\ [Next]_vars => TruthInv'
<1> SUFFICES ASSUME TypeInv, FlightInv, TruthInv, [Next]_vars PROVE TruthInv'
  OBVIOUS
<1>1. CASE StartAgent
  BY <1>1, TruthStart
<1>2. CASE Report
  <2>1. PICK r \in Reports : Emit(r.session, r.type, <<>>, r.value)
    BY <1>2 DEF Report
  <2>2. r.type \notin {"approval.requested", "approval.resolved"}
    BY ReportAssumption DEF ReportTypes
  <2>3. UNCHANGED <<run, Asked, inbox, file, kept, history, given, downlink>>
    BY <1>2 DEF Report, relay, client, Asked
  <2> QED
    BY <2>1, <2>2, <2>3, TruthEmit
<1>3. CASE Request
  <2>1. /\ Emit(Session, "approval.requested", <<run, sequence + 1>>, "none")
        /\ Asked' = Asked \cup {<<run, sequence + 1>>}
        /\ UNCHANGED <<run, inbox, file, kept, history, given, downlink>>
    BY <1>3 DEF Request, relay, client, Asked
  <2> QED
    BY <2>1, TruthEmit
<1>4. CASE Resolve
  <2>1. PICK a \in pending, d \in Decisions : /\ Emit(Session, "approval.resolved", a, d)
                                              /\ pending' = pending \ {a}
    BY <1>4 DEF Resolve
  <2>2. UNCHANGED <<run, inbox, file, kept, history, given, downlink>>
    BY <1>4 DEF Resolve, relay, client
  <2>3. Asked' = Asked \ {a} /\ a \in Asked
    BY <1>4, <2>1 DEF Resolve, Asked, TypeInv, AgentTypes
  <2> QED
    BY <2>1, <2>2, <2>3, TruthEmit
<1>5. CASE StopAgent \/ KillAgent
  BY <1>5 DEF StopAgent, KillAgent, Ended, TruthInv
<1>6. CASE \/ RelayNext \/ Break \/ RestartRelay \/ Subscribe \/ Receive \/ Unsubscribe
           \/ Connect \/ Disconnect \/ UNCHANGED vars
  <2>1. Anywhere' \subseteq Anywhere
    BY <1>6, AnywhereOthers
  <2>2. UNCHANGED <<run, up, sequence, Asked>>
    BY <1>6 DEF RelayNext, Arrive, HandleEvent, WriteEvent, PublishEvent, AppendFails, Break,
                RestartRelay, Subscribe, Receive, Unsubscribe, Connect, Disconnect, vars, agent, Asked
  <2>3. up => Truth(Anywhere', run, sequence, Asked)
    BY <2>1, TruthLess DEF TruthInv
  <2> QED
    BY <2>2, <2>3 DEF TruthInv
<1>7. CASE Forget
  <2>1. UNCHANGED <<run, up, sequence, queue, wires, inbox, file, kept, history, given, downlink>>
    BY <1>7 DEF Forget, relay, client
  <2>2. Asked' = Asked
    BY <1>7 DEF Forget, Asked
  <2>3. Anywhere' = Anywhere
    BY <2>1 DEF Anywhere, InFrames, Flying, OnWires, Frames, Elements
  <2> QED
    BY <2>1, <2>2, <2>3 DEF TruthInv
<1> QED
  BY <1>1, <1>2, <1>3, <1>4, <1>5, <1>6, <1>7 DEF Next, AgentNext

Heard == {n \in DOMAIN given : given[n].at = run}

(* So many different numbers are all there are.                            *)
LEMMA AllNumbers ==
  ASSUME Heard \in SUBSET Nat, sequence \in Nat, Cardinality(Heard) = sequence,
         \A n \in Heard : given[n].sequence \in 1..sequence,
         \A m, n \in Heard : m < n => given[m].sequence < given[n].sequence
  PROVE  \A k \in 1..sequence : \E n \in Heard : given[n].sequence = k
<1> DEFINE N == sequence
           H == Heard
           f == [n \in H |-> given[n].sequence]
<1>1. f \in [H -> 1..N]
  OBVIOUS
<1>2. \A m, n \in H : f[m] = f[n] => m = n
  <2>1. ASSUME NEW m \in H, NEW n \in H, f[m] = f[n] PROVE m = n
    <3>1. ~(m < n) /\ ~(n < m)
      BY <2>1
    <3>2. m \in Nat /\ n \in Nat
      OBVIOUS
    <3> QED
      BY <3>1, <3>2
  <2> QED
    BY <2>1
<1> HIDE DEF f
<1>3. f \in Injection(H, 1..N)
  BY <1>1, <1>2 DEF Injection, IsInjective
<1>4. IsFiniteSet(1..N) /\ Cardinality(1..N) = N
  BY FS_Interval
<1>5. f \in Surjection(H, 1..N)
  BY <1>3, <1>4, FS_Injection
<1>6. \A k \in 1..N : \E n \in H : f[n] = k
  BY <1>5 DEF Surjection
<1> QED
  BY <1>6 DEF f

(* What was handed over of the run that goes on, whose start is event c.   *)
LEMMA HeardIs ==
  ASSUME TypeInv, InRuns(given), NEW c \in Heard, given[c].type = "host.connected"
  PROVE  /\ \A n \in DOMAIN given : /\ given[n] \in Spoken /\ given[n] \in Anywhere
                                    /\ given[n].at \in Nat /\ given[n].at <= run
                                    /\ n \in Nat
         /\ \A n \in Heard : given[n].sequence \in 1..sequence
         /\ given[c].sequence = 1 /\ run \in Nat /\ sequence \in Nat
         /\ \A n \in DOMAIN given, m \in Heard : m < n => n \in Heard
<1>1. run \in Nat /\ sequence \in Nat
  BY Numbers DEF TypeInv
<1>2. given \in Seq(Spoken)
  BY GivenFacts
<1>3. Elements(given) \subseteq Anywhere
  BY DEF Anywhere
<1>4. ASSUME NEW n \in DOMAIN given
      PROVE  /\ given[n] \in Spoken /\ given[n] \in Anywhere /\ given[n].at \in Nat /\ given[n].at <= run
             /\ n \in Nat /\ (given[n].at = run => given[n].sequence \in 1..sequence)
  <2>1. given[n] \in Spoken /\ n \in Nat
    BY <1>2, ElementOfSeq
  <2>2. given[n] \in Anywhere
    BY <1>3 DEF Elements
  <2>3. given[n].at <= run /\ (given[n].at = run => given[n].sequence <= sequence)
    BY <2>2, AnywhereSaid
  <2>4. given[n].at \in Nat /\ given[n].sequence \in Nat /\ given[n].sequence >= 1
    BY <2>1, EventIs
  <2> QED
    BY <1>1, <2>1, <2>2, <2>3, <2>4
<1>5. given[c].sequence = 1
  BY <1>4 DEF Spoken, Heard
<1>6. ASSUME NEW n \in DOMAIN given, NEW m \in Heard, m < n PROVE n \in Heard
  <2>1. given[m].at = run /\ m \in DOMAIN given
    BY DEF Heard
  <2>2. run <= given[n].at
    BY <1>6, <2>1 DEF InRuns
  <2>3. given[n].at = run
    BY <1>1, <1>4, <2>2
  <2> QED
    BY <2>3 DEF Heard
<1> QED
  BY <1>1, <1>4, <1>5, <1>6 DEF Heard

(* What was handed over in its order, after a start that was taken, was    *)
(* taken.                                                                  *)
LEMMA HeardTaken ==
  ASSUME TypeInv, InRuns(given), NEW c \in Heard, given[c].type = "host.connected", c \in Taken,
         \A m, n \in Heard : m < n => given[m].sequence < given[n].sequence
  PROVE  Heard \subseteq Taken
<1> SUFFICES ASSUME NEW p \in Heard, p \notin Taken PROVE FALSE
  OBVIOUS
<1>1. p \in Dropped /\ p \in DOMAIN given /\ given[p].at = run /\ given[c].at = run /\ c \in DOMAIN given
  BY DEF Taken, Heard
<1>2. given[p].sequence \in 1..sequence /\ given[c].sequence = 1 /\ sequence \in Nat /\ run \in Nat
      /\ p \in Nat /\ c \in Nat
  BY <1>1, HeardIs
<1>3. c < p
  <2>1. ~(p < c)
    BY <1>2
  <2> QED
    BY <1>2, <2>1
<1>4. PICK m \in DOMAIN given : m < p /\ NotAfter(given[p], given[m])
  <2>1. OnlyOvertakenIgnored
    BY OvertakenInv
  <2> QED
    BY <1>1, <1>3, <2>1 DEF OnlyOvertakenIgnored
<1>5. given[m].at \in Nat /\ given[m].at <= run
  BY HeardIs
<1>6. given[m].at = run /\ given[p].sequence <= given[m].sequence
  BY <1>1, <1>2, <1>4, <1>5 DEF NotAfter
<1>7. m \in Heard
  BY <1>6 DEF Heard
<1>8. given[m].sequence < given[p].sequence /\ given[m].sequence \in 1..sequence
  BY <1>4, <1>7, HeardIs
<1> QED
  BY <1>2, <1>6, <1>8

(* Then what is shown as pending waits,                                    *)
LEMMA ShownWaits ==
  ASSUME TypeInv, InRuns(given), TruthInv, up,
         NEW c \in Heard, given[c].type = "host.connected", Heard \subseteq Taken,
         \A m, n \in Heard : m < n => given[m].sequence < given[n].sequence,
         \A k \in 1..sequence : \E n \in Heard : given[n].sequence = k,
         NEW a \in DOMAIN state.approvals, state.approvals[a].status = "pending"
  PROVE  a \in Asked
<1> SUFFICES ASSUME a \notin Asked PROVE FALSE
  OBVIOUS
<1>1. /\ Taken = TakenOf(given)
      /\ \E n \in TakenOf(given) : Tells(given, n, a, "pending")
  BY GivenFacts DEF ViewFacts, ApprovalsKnown
<1>2. PICK n \in TakenOf(given) : Tells(given, n, a, "pending")
  BY <1>1
<1>3. /\ n \in DOMAIN given /\ n \in Nat /\ given[n] \in Spoken /\ given[n] \in Anywhere
      /\ given[n].type = "approval.requested" /\ given[n].subject = a
      /\ c \in Nat /\ c \in DOMAIN given
  BY <1>2, HeardIs DEF TakenOf, Tells, Heard
<1>4. Verdicts(given, n, a) = {}
  <2>1. ASSUME NEW m \in Verdicts(given, n, a) PROVE given[m].value # "pending"
    <3>1. m \in DOMAIN given /\ given[m].type = "approval.resolved"
      BY DEF Verdicts, TakenOf
    <3>2. given[m] \in Spoken
      BY <3>1, HeardIs
    <3> QED
      BY <3>1, <3>2, NameAssumption DEF Spoken
  <2> QED
    BY <1>2, <2>1 DEF Tells
<1>5. Starts(given, n) = {}
  BY <1>2, <1>4 DEF Tells
<1>6. ~(c > n)
  BY <1>1, <1>5 DEF Starts
<1>7. c # n
  BY <1>3
<1>8. n \in Heard
  <2>1. c < n
    BY <1>3, <1>6, <1>7
  <2> QED
    BY <1>3, <2>1, HeardIs
<1>9. given[n].at = run /\ given[n].eventId = a /\ a = <<run, given[n].sequence>>
      /\ given[n].sequence \in 1..sequence /\ sequence \in Nat
  <2>1. given[n].at = run
    BY <1>8 DEF Heard
  <2>2. given[n].eventId = a
    BY <1>3 DEF Spoken
  <2>3. given[n].eventId = <<given[n].at, given[n].sequence>>
    BY <1>3, EventIs
  <2> QED
    BY <1>8, <2>1, <2>2, <2>3, HeardIs
<1>10. PICK k \in 1..sequence : \A f \in Anywhere : f.at = run /\ f.sequence = k =>
                                  f.type = "approval.resolved" /\ f.subject = a
  BY <1>3, <1>9 DEF TruthInv, Truth
<1>11. PICK p \in Heard : given[p].sequence = k
  OBVIOUS
<1>12. p \in DOMAIN given /\ p \in Nat /\ given[p].at = run /\ given[p] \in Anywhere /\ given[p] \in Spoken
  BY HeardIs DEF Heard
<1>13. given[p].type = "approval.resolved" /\ given[p].subject = a
  BY <1>10, <1>11, <1>12
<1>14. a[2] < given[p].sequence /\ a[2] = given[n].sequence
  BY <1>9, <1>12, <1>13 DEF Spoken
<1>15. p > n
  <2>1. ~(p < n) /\ p # n
    BY <1>8, <1>9, <1>11, <1>14
  <2> QED
    BY <1>3, <1>12, <2>1
<1>16. p \in Verdicts(given, n, a)
  BY <1>1, <1>13, <1>15 DEF Verdicts
<1> QED
  BY <1>4, <1>16

(* and what was asked and not decided is shown as pending.                 *)
LEMMA WaitsShown ==
  ASSUME TypeInv, InRuns(given), TruthInv, up,
         NEW c \in Heard, given[c].type = "host.connected", Heard \subseteq Taken,
         \A m, n \in Heard : m < n => given[m].sequence < given[n].sequence,
         \A k \in 1..sequence : \E n \in Heard : given[n].sequence = k,
         NEW a \in Asked
  PROVE  a \in DOMAIN state.approvals /\ state.approvals[a].status = "pending"
<1>1. PICK i \in 1..sequence : a = <<run, i>>
  BY DEF TypeInv, AgentTypes, Asked
<1>2. PICK p \in Heard : given[p].sequence = i
  OBVIOUS
<1>3. p \in DOMAIN given /\ p \in Taken /\ given[p].at = run /\ given[p] \in Spoken /\ given[p] \in Anywhere
  BY HeardIs DEF Heard
<1>4. given[p].eventId = a
  BY <1>1, <1>2, <1>3, EventIs
<1>5. given[p].type = "approval.requested" /\ given[p].subject = a
  <2>1. given[p].type = "approval.requested"
    BY <1>3, <1>4 DEF TruthInv, Truth
  <2> QED
    BY <1>3, <1>4, <2>1 DEF Spoken
<1>6. /\ Taken = TakenOf(given) /\ state = reduceEvents(given)
      /\ AskedKnown(given) /\ ApprovalsKnown(given)
  BY GivenFacts DEF ViewFacts
<1>7. a \in DOMAIN state.approvals
  BY <1>3, <1>5, <1>6 DEF AskedKnown
<1>8. PICK n \in TakenOf(given) : Tells(given, n, a, state.approvals[a].status)
  BY <1>6, <1>7 DEF ApprovalsKnown
<1>9. n \in Heard /\ n \in Nat
  <2>1. n \in DOMAIN given /\ given[n].type = "approval.requested" /\ given[n].subject = a
    BY <1>8 DEF TakenOf, Tells
  <2>2. given[n] \in Spoken /\ n \in Nat
    BY <2>1, HeardIs
  <2>3. <<given[n].at, given[n].sequence>> = <<run, i>>
    BY <1>1, <2>1, <2>2, EventIs DEF Spoken
  <2> QED
    BY <2>1, <2>2, <2>3 DEF Heard
<1>10. Verdicts(given, n, a) = {}
  <2>1. ASSUME NEW m \in Verdicts(given, n, a) PROVE FALSE
    <3>1. m \in DOMAIN given /\ given[m].type = "approval.resolved" /\ given[m].subject = a
      BY DEF Verdicts, TakenOf
    <3>2. given[m] \in Anywhere
      BY <3>1, HeardIs
    <3> QED
      BY <3>1, <3>2 DEF TruthInv, Truth
  <2> QED
    BY <2>1
<1>11. Starts(given, n) = {}
  <2>1. ASSUME NEW m \in Starts(given, n) PROVE FALSE
    <3>1. m \in DOMAIN given /\ m > n /\ given[m].type = "host.connected"
      BY DEF Starts, TakenOf
    <3>2. m \in Nat /\ n < m
      BY <1>9, <3>1, HeardIs
    <3>3. m \in Heard
      BY <1>9, <3>1, <3>2, HeardIs
    <3>4. given[m] \in Spoken /\ given[n].sequence \in 1..sequence /\ sequence \in Nat
      BY <1>9, <3>1, HeardIs
    <3>5. given[m].sequence = 1
      BY <3>1, <3>4 DEF Spoken
    <3>6. given[n].sequence < given[m].sequence
      BY <1>9, <3>2, <3>3
    <3> QED
      BY <3>4, <3>5, <3>6
  <2> QED
    BY <2>1
<1> QED
  BY <1>7, <1>8, <1>10, <1>11 DEF Tells

(* Together.                                                               *)
LEMMA TruthImplies == TypeInv /\ InRuns(given) /\ TruthInv => ViewIsTruth
<1> DEFINE shown == {a \in DOMAIN state.approvals : state.approvals[a].status = "pending"}
<1> SUFFICES ASSUME TypeInv, InRuns(given), TruthInv, up, Cardinality(Heard) = sequence,
                    \A m, n \in Heard : m < n => given[m].sequence < given[n].sequence,
                    NEW c \in Heard, given[c].type = "host.connected", c \in Taken
             PROVE  shown = Asked
  BY DEF ViewIsTruth, Heard, Asked
<1>1. Heard \in SUBSET Nat /\ sequence \in Nat /\ \A n \in Heard : given[n].sequence \in 1..sequence
  BY HeardIs DEF Heard
<1>2. \A k \in 1..sequence : \E n \in Heard : given[n].sequence = k
  BY <1>1, AllNumbers
<1>3. Heard \subseteq Taken
  BY HeardTaken
<1>4. shown \subseteq Asked
  BY <1>2, <1>3, ShownWaits
<1>5. Asked \subseteq shown
  BY <1>2, <1>3, WaitsShown
<1> QED
  BY <1>4, <1>5

(* However often the host, the relay and the client start again: where no  *)
(* frame of an earlier run arrives once the host has connected again, a    *)
(* client that was handed all a running agent said, in its order, and took *)
(* its start, shows as pending what the agent waits for and what this run  *)
(* of it gave up without an event, and nothing else.                       *)
THEOREM PendingIsTrue == ASSUME ~LateRuns PROVE Spec => []ViewIsTruth
<1> DEFINE I == TypeInv /\ FlightInv /\ SettledInv /\ WireOrder /\ ArriveOrder /\ TruthInv
<1>1. Init => I
  <2>1. Init => TruthInv
    BY DEF Init, TruthInv
  <2> QED
    BY <2>1, TypeInit, SettledInit, OrderInit
<1>2. I /\ [Next]_vars => I'
  BY TypeStep, SettledStep, OrderStep, TruthStep
<1>3. I => ViewIsTruth
  BY TruthImplies DEF ArriveOrder
<1> HIDE DEF I
<1> QED
  BY <1>1, <1>2, <1>3, PTL DEF Spec
=============================================================================
