------------------------- MODULE EventJournalProofs -------------------------
(***************************************************************************)
(* Proofs about EventJournal: its types, that an acknowledged event        *)
(* survives every crash and every failed call, that the file stays         *)
(* bounded, and that the journal implements DurableLog.                    *)
(***************************************************************************)
EXTENDS MCEventJournal, SequenceTheorems, TLAPS

(* The inductive invariant behind AckedSurvives.  An event is promised     *)
(* once its append has recorded it: resolved, or compacting before it      *)
(* does.  Every promised event must be found in the window, and in each    *)
(* file a restart may find: among the lines no failure can take, unless    *)
(* one of those does not parse, when startup refuses the file.             *)

Compacting == pc \in {"temporary", "rename", "directory", "reopen"}
Promised   == acked \cup (IF Compacting THEN {current} ELSE {})

Kept(d) == IF PowerLoss THEN d.synced ELSE Len(d.lines)

Holds(d, e) ==
  \/ \E i \in 1..Kept(d) : ~Parses(d.lines[i])
  \/ \E i \in 1..Kept(d) : d.lines[i] = <<e>>
  \/ Kept(d) >= MaxEvents /\ e < d.lines[1][1]

(* The records of a file come in the order of their append calls.          *)
Whole(line) == line # <<>> /\ line[1] # Cut

FileOK(d) ==
  /\ d \in File
  /\ d.synced <= Len(d.lines)
  /\ \A i \in 1..Len(d.lines) : d.lines[i] # <<>>
  /\ \A i, j \in 1..Len(d.lines) + 1 :
       i < j /\ Whole(LineAt(d, i)) /\ Whole(LineAt(d, j))
         => LineAt(d, i)[1] < LineAt(d, j)[1]

Below(d, n) ==
  \A i \in 1..Len(d.lines) + 1 : Whole(LineAt(d, i)) => LineAt(d, i)[1] < n

(* With synced writes, or on a machine that does not fail, what has been   *)
(* promised is safe.                                                       *)
Durable == SyncWrites \/ ~PowerLoss

DiskInv ==
  /\ \A d \in stale \cup {disk} : FileOK(d) /\ Below(d, issued + 1)
  /\ Durable => \A e \in Promised : Holds(disk, e)
  /\ Durable /\ PowerLoss => \A d \in stale : \A e \in Promised : Holds(d, e)

WindowInv ==
  /\ SnapshotOrdered
  /\ Len(events) <= MaxEvents
  /\ \A i \in 1..Len(events) : events[i] <= issued
  /\ Durable /\ pc # "down" => \A e \in Promised : InWindow(e, events)

(* What is queued is newer than what is being written, and that is newer   *)
(* than what the file and the window hold.                                 *)
Newer(n) ==
  /\ current < n
  /\ Below(disk, n)
  /\ \A i \in 1..Len(events) : events[i] < n

QueueInv ==
  /\ \A i \in 1..Len(pending) : pending[i] <= issued
  /\ \A i, j \in 1..Len(pending) :
       i < j /\ pending[i] # 0 /\ pending[j] # 0 => pending[i] < pending[j]
  /\ \A i \in 1..Len(pending) : pending[i] # 0 => Newer(pending[i])
  /\ pc = "down" \/ Opening => pending = <<>>

OperationInv ==
  /\ current <= issued
  /\ current # 0 <=> pc \in {"write", "datasync"} \/ Compacting
  /\ pc = "write" => Below(disk, current)
  /\ pc = "datasync" => /\ disk.lines # <<>>
                        /\ \/ disk.lines[Len(disk.lines)] = <<current>>
                           \/ ~Parses(disk.lines[Len(disk.lines)])
  /\ pc \in {"write", "datasync"} =>
       \A i \in 1..Len(events) : events[i] < current

IInv == TypeOK /\ DiskInv /\ WindowInv /\ QueueInv /\ OperationInv

-----------------------------------------------------------------------------
(* Lemmas about the file operations.                                       *)

(* A line of a file, the unterminated one included, is a sequence of pieces.*)
LEMMA LineAtType ==
  ASSUME NEW d \in File, NEW i \in 1..Len(d.lines) + 1
  PROVE  /\ LineAt(d, i) \in Seq(Piece)
         /\ Whole(LineAt(d, i)) => LineAt(d, i)[1] \in Event
<1>1. d.lines \in Seq(Seq(Piece)) /\ d.tail \in Seq(Piece)
  BY DEF File
<1>2. LineAt(d, i) \in Seq(Piece)
  BY <1>1, ElementOfSeq DEF LineAt
<1>3. ASSUME LineAt(d, i) # <<>>
      PROVE  LineAt(d, i)[1] \in Piece
  BY <1>2, <1>3
<1> QED
  BY <1>2, <1>3 DEF Whole, Piece

(* A file that keeps the safe lines of another keeps the events they hold. *)
LEMMA HoldsExtends ==
  ASSUME NEW d, NEW w, NEW a, Holds(d, a),
         Kept(d) \in Nat, Kept(w) \in Nat, Kept(d) <= Kept(w),
         \A i \in 1..Kept(d) : w.lines[i] = d.lines[i]
  PROVE  Holds(w, a)
<1>1. \A i \in 1..Kept(d) : i \in 1..Kept(w)
  OBVIOUS
<1>2. Kept(d) >= MaxEvents => Kept(w) >= MaxEvents /\ w.lines[1] = d.lines[1]
  BY MaxEventsAssumption
<1> QED
  BY <1>1, <1>2 DEF Holds

(* appendFile of a newer event keeps the file in order and loses no event. *)
LEMMA WrittenFile ==
  ASSUME NEW d, FileOK(d), NEW e \in Event, Below(d, e)
  PROVE  /\ FileOK(Written(d, e))
         /\ \A n \in Nat : e < n => Below(Written(d, e), n)
         /\ LET last == Written(d, e).lines[Len(Written(d, e).lines)]
            IN  /\ Written(d, e).lines # <<>>
                /\ last = <<e>> \/ ~Parses(last)
         /\ \A a \in Event : Holds(d, a) => Holds(Written(d, e), a)
<1> DEFINE w == Written(d, e)
           N == Len(d.lines)
<1>1. d \in File /\ N \in Nat /\ d.lines \in Seq(Seq(Piece)) /\ d.tail \in Seq(Piece)
  BY DEF FileOK, File
<1>2. e \in Piece /\ Append(d.tail, e) \in Seq(Piece)
  BY <1>1 DEF Piece
<1>3. /\ w \in File
      /\ w.lines = Append(d.lines, Append(d.tail, e)) /\ w.tail = <<>>
      /\ w.synced = d.synced /\ w.syncedTail = d.syncedTail
  <2>1. /\ Append(d.lines, Append(d.tail, e)) \in Seq(Seq(Piece))
        /\ <<>> \in Seq(Piece)
    BY <1>1, <1>2, AppendProperties
  <2> HIDE DEF N
  <2> QED
    BY <1>1, <2>1, Zenon DEF Written, File
<1>4. /\ Len(w.lines) = N + 1
      /\ \A i \in 1..N : w.lines[i] = d.lines[i]
      /\ w.lines[N + 1] = Append(d.tail, e)
  BY <1>1, <1>2, <1>3
<1>5. /\ \A i \in 1..N : LineAt(w, i) = LineAt(d, i)
      /\ LineAt(w, N + 1) = Append(d.tail, e)
      /\ LineAt(w, N + 2) = <<>>
      /\ LineAt(d, N + 1) = d.tail
  BY <1>1, <1>3, <1>4 DEF LineAt
<1>6. \/ d.tail = <<>> /\ Append(d.tail, e) = <<e>>
      \/ /\ d.tail # <<>> /\ Append(d.tail, e)[1] = d.tail[1]
         /\ Len(Append(d.tail, e)) # 1
  <2>1. CASE d.tail = <<>>
    BY <2>1
  <2>2. CASE d.tail # <<>>
    BY <1>1, <1>2, <2>2
  <2> QED
    BY <2>1, <2>2
<1>7. FileOK(w)
  <2>1. \A i \in 1..Len(w.lines) : w.lines[i] # <<>>
    <3>1. ASSUME NEW i \in 1..N PROVE w.lines[i] # <<>>
      BY <1>4, <3>1 DEF FileOK
    <3>2. w.lines[N + 1] # <<>>
      BY <1>1, <1>2, <1>4, AppendProperties
    <3> QED
      BY <1>1, <1>4, <3>1, <3>2
  <2>2. ASSUME NEW i \in 1..Len(w.lines) + 1, NEW j \in 1..Len(w.lines) + 1,
               i < j, Whole(LineAt(w, i)), Whole(LineAt(w, j))
        PROVE  LineAt(w, i)[1] < LineAt(w, j)[1]
    <3>1. i \in 1..N /\ j \in 1..N + 1
      BY <1>1, <1>4, <1>5, <2>2 DEF Whole
    <3>2. CASE j \in 1..N
      BY <1>5, <2>2, <3>1, <3>2 DEF FileOK
    <3>3. CASE j = N + 1 /\ d.tail = <<>>
      BY <1>5, <1>6, <2>2, <3>1, <3>3 DEF Below
    <3>4. CASE j = N + 1 /\ d.tail # <<>>
      BY <1>5, <1>6, <2>2, <3>1, <3>4 DEF FileOK, Whole
    <3> QED
      BY <3>1, <3>2, <3>3, <3>4
  <2> QED
    <3>1. w.synced <= Len(w.lines)
      BY <1>1, <1>3, <1>4 DEF FileOK, File
    <3> HIDE DEF w, N
    <3> QED
      BY <1>3, <2>1, <2>2, <3>1 DEF FileOK
<1>8. ASSUME NEW n \in Nat, e < n
      PROVE  Below(w, n)
  <2> SUFFICES ASSUME NEW i \in 1..Len(w.lines) + 1, Whole(LineAt(w, i))
               PROVE  LineAt(w, i)[1] < n
    BY DEF Below
  <2>1. i \in 1..N + 1
    BY <1>1, <1>4, <1>5 DEF Whole
  <2>2. CASE i \in 1..N
    <3>1. i \in 1..N + 1 /\ Whole(LineAt(d, i)) /\ LineAt(d, i)[1] = LineAt(w, i)[1]
      BY <1>1, <1>5, <2>2
    <3>2. LineAt(d, i)[1] \in Event /\ LineAt(d, i)[1] < e
      BY <1>1, <3>1, LineAtType DEF Below
    <3> QED
      BY <1>8, <3>1, <3>2 DEF Event
  <2>3. CASE i = N + 1 /\ d.tail = <<>>
    BY <1>5, <1>6, <1>8, <2>3
  <2>4. CASE i = N + 1 /\ d.tail # <<>>
    <3>1. Whole(LineAt(d, i)) /\ LineAt(d, i)[1] = LineAt(w, i)[1]
      BY <1>5, <1>6, <2>4 DEF Whole
    <3> QED
      BY <1>1, <1>8, <2>1, <3>1, LineAtType DEF Below, Event
  <2> QED
    BY <2>1, <2>2, <2>3, <2>4
<1>9. LET last == w.lines[Len(w.lines)]
      IN  w.lines # <<>> /\ (last = <<e>> \/ ~Parses(last))
  <2>1. w.lines # <<>>
    BY <1>1, <1>3, <1>4
  <2>2. w.lines[Len(w.lines)] = Append(d.tail, e)
    BY <1>4
  <2>3. Append(d.tail, e) = <<e>> \/ ~Parses(Append(d.tail, e))
    BY <1>6 DEF Parses
  <2> QED
    BY <2>1, <2>2, <2>3
<1>10. ASSUME NEW a \in Event, Holds(d, a)
       PROVE  Holds(w, a)
  <2>1. Kept(d) \in Nat /\ Kept(d) <= N /\ Kept(w) \in Nat /\ Kept(d) <= Kept(w)
    BY <1>1, <1>3, <1>4, OptionAssumption DEF Kept, FileOK, File
  <2>2. \A i \in 1..Kept(d) : w.lines[i] = d.lines[i]
    BY <1>1, <1>4, <2>1
  <2> QED
    BY <1>10, <2>1, <2>2, HoldsExtends
<1> QED
  BY <1>7, <1>8, <1>9, <1>10

(* A file that keeps the first k lines of another, and after them nothing, *)
(* a text cut at its start, what the other had there, or a newer event.    *)
LEMMA PrefixFile ==
  ASSUME NEW d, FileOK(d), NEW w \in File, NEW k \in 0..Len(d.lines),
         Len(w.lines) = k, \A i \in 1..k : w.lines[i] = d.lines[i],
         w.synced <= k,
         NEW n \in Nat, Below(d, n), NEW m \in Nat, n <= m,
         \/ w.tail = <<>>
         \/ w.tail[1] = Cut
         \/ LineAt(d, k + 1) # <<>> /\ w.tail[1] = LineAt(d, k + 1)[1]
         \/ w.tail[1] = n /\ n < m
  PROVE  FileOK(w) /\ Below(w, m)
<1>1. d \in File /\ Len(d.lines) \in Nat /\ k \in Nat /\ k <= Len(d.lines)
  BY DEF FileOK, File
<1>2. /\ \A i \in 1..k : i \in 1..Len(d.lines) + 1 /\ LineAt(w, i) = LineAt(d, i)
      /\ LineAt(w, k + 1) = w.tail
      /\ k + 1 \in 1..Len(d.lines) + 1
  BY <1>1 DEF LineAt
<1>3. ASSUME NEW i \in 1..k, Whole(LineAt(d, i))
      PROVE  LineAt(d, i)[1] \in Nat /\ LineAt(d, i)[1] < n
  BY <1>1, <1>2, <1>3, LineAtType DEF Below, Event
<1>4. ASSUME Whole(w.tail)
      PROVE  \/ Whole(LineAt(d, k + 1)) /\ w.tail[1] = LineAt(d, k + 1)[1]
             \/ w.tail[1] = n /\ n < m
  BY <1>4 DEF Whole
<1>5. FileOK(w)
  <2>1. ASSUME NEW i \in 1..k + 1, NEW j \in 1..k + 1, i < j,
               Whole(LineAt(w, i)), Whole(LineAt(w, j))
        PROVE  LineAt(w, i)[1] < LineAt(w, j)[1]
    <3>1. i \in 1..k /\ LineAt(w, i) = LineAt(d, i) /\ i \in 1..Len(d.lines) + 1
      BY <1>1, <1>2, <2>1
    <3>2. CASE j \in 1..k
      BY <1>2, <2>1, <3>1, <3>2 DEF FileOK
    <3>3. CASE j = k + 1
      <4>1. CASE Whole(LineAt(d, k + 1)) /\ w.tail[1] = LineAt(d, k + 1)[1]
        BY <1>2, <2>1, <3>1, <3>3, <4>1 DEF FileOK
      <4>2. CASE w.tail[1] = n /\ n < m
        BY <1>2, <1>3, <2>1, <3>1, <3>3, <4>2
      <4> QED
        BY <1>2, <1>4, <2>1, <3>3, <4>1, <4>2
    <3> QED
      BY <1>1, <3>2, <3>3
  <2>2. ASSUME NEW i \in 1..k PROVE w.lines[i] # <<>>
    BY <1>1, <2>2 DEF FileOK
  <2> QED
    BY <2>1, <2>2 DEF FileOK
<1>6. ASSUME NEW i \in 1..k + 1, Whole(LineAt(w, i))
      PROVE  LineAt(w, i)[1] < m
  <2>1. CASE i \in 1..k
    BY <1>2, <1>3, <1>6, <2>1
  <2>2. CASE i = k + 1 /\ Whole(LineAt(d, k + 1)) /\ w.tail[1] = LineAt(d, k + 1)[1]
    <3>1. LineAt(d, k + 1)[1] \in Nat /\ LineAt(d, k + 1)[1] < n
      BY <1>1, <1>2, <2>2, LineAtType DEF Below, Event
    <3> QED
      BY <1>2, <2>2, <3>1
  <2>3. CASE i = k + 1 /\ w.tail[1] = n /\ n < m
    BY <1>2, <2>3
  <2> QED
    BY <1>1, <1>2, <1>4, <1>6, <2>1, <2>2, <2>3
<1> QED
  BY <1>5, <1>6 DEF Below

(* So does an appendFile that stops half-way.                              *)
LEMMA HalfWrittenFile ==
  ASSUME NEW d, FileOK(d), NEW e \in Event, Below(d, e), NEW w \in HalfWritten(d, e)
  PROVE  /\ FileOK(w)
         /\ \A m \in Nat : e < m => Below(w, m)
         /\ \A a \in Event : Holds(d, a) => Holds(w, a)
<1>1. d \in File /\ d.tail \in Seq(Piece) /\ d.lines \in Seq(Seq(Piece))
      /\ Len(d.lines) \in Nat /\ d.synced \in Nat /\ d.synced <= Len(d.lines)
  BY DEF FileOK, File
<1>2. PICK p \in {<<>>, <<Cut>>, <<e>>} : w = [d EXCEPT !.tail = d.tail \o p]
  BY DEF HalfWritten
<1>3. p \in Seq(Piece)
  <2>1. e \in Piece /\ Cut \in Piece
    BY DEF Piece
  <2>2. <<>> \in Seq(Piece) /\ <<Cut>> \in Seq(Piece) /\ <<e>> \in Seq(Piece)
    BY <2>1
  <2> QED
    BY <1>2, <2>2
<1>4. d.tail \o p \in Seq(Piece)
  BY <1>1, <1>3, ConcatProperties
<1>5. /\ w \in File /\ w.lines = d.lines /\ w.tail = d.tail \o p
      /\ w.synced = d.synced
  BY <1>1, <1>2, <1>4, Zenon DEF File
<1>6. \/ w.tail = <<>>
      \/ w.tail[1] = Cut
      \/ d.tail # <<>> /\ w.tail[1] = d.tail[1]
      \/ w.tail[1] = e
  <2>1. CASE d.tail = <<>>
    <3>1. w.tail = p
      BY <1>3, <1>5, <2>1, ConcatEmptySeq
    <3> QED
      BY <1>2, <3>1
  <2>2. CASE d.tail # <<>>
    BY <1>1, <1>3, <1>5, <2>2, ConcatProperties
  <2> QED
    BY <2>1, <2>2
<1>7. LineAt(d, Len(d.lines) + 1) = d.tail
  BY <1>1 DEF LineAt
<1>8. ASSUME NEW m \in Nat, e < m
      PROVE  FileOK(w) /\ Below(w, m)
  <2>1. Len(d.lines) \in 0..Len(d.lines) /\ e \in Nat /\ e <= m
    BY <1>1, <1>8 DEF Event
  <2>2. w.synced <= Len(d.lines) /\ Len(w.lines) = Len(d.lines)
    BY <1>1, <1>5
  <2> QED
    BY <1>5, <1>6, <1>7, <1>8, <2>1, <2>2, PrefixFile
<1>9. FileOK(w)
  <2>1. e + 1 \in Nat /\ e < e + 1
    BY DEF Event
  <2> QED
    BY <1>8, <2>1
<1>10. ASSUME NEW a \in Event, Holds(d, a)
       PROVE  Holds(w, a)
  BY <1>1, <1>5, <1>10 DEF Holds, Kept
<1> QED
  BY <1>8, <1>9, <1>10

(* datasync loses no event and makes every complete line safe.             *)
LEMMA SyncedFile ==
  ASSUME NEW d, FileOK(d)
  PROVE  /\ FileOK(Synced(d))
         /\ \A n : Below(d, n) => Below(Synced(d), n)
         /\ \A a \in Event : Holds(d, a) => Holds(Synced(d), a)
         /\ Synced(d).lines = d.lines
         /\ Kept(Synced(d)) = Len(d.lines)
<1> DEFINE w == Synced(d)
<1>1. /\ d \in File /\ d.lines \in Seq(Seq(Piece)) /\ d.tail \in Seq(Piece)
      /\ Len(d.lines) \in Nat /\ Len(d.tail) \in Nat
      /\ d.synced \in Nat /\ d.synced <= Len(d.lines)
  BY DEF FileOK, File
<1>2. /\ w \in File /\ w.lines = d.lines /\ w.tail = d.tail
      /\ w.synced = Len(d.lines)
  BY <1>1, Zenon DEF Synced, File
<1>3. \A i : LineAt(w, i) = LineAt(d, i)
  BY <1>2 DEF LineAt
<1>4. FileOK(w)
  BY <1>1, <1>2, <1>3 DEF FileOK
<1>5. ASSUME NEW n, Below(d, n) PROVE Below(w, n)
  BY <1>2, <1>3, <1>5 DEF Below
<1>6. ASSUME NEW a \in Event, Holds(d, a) PROVE Holds(w, a)
  <2>1. Kept(d) \in Nat /\ Kept(w) \in Nat /\ Kept(d) <= Kept(w)
    BY <1>1, <1>2 DEF Kept
  <2> QED
    BY <1>2, <1>6, <2>1, HoldsExtends
<1>7. Kept(w) = Len(d.lines)
  BY <1>2 DEF Kept
<1> QED
  BY <1>2, <1>4, <1>5, <1>6, <1>7

(* What a power loss leaves of a file is in order and holds its safe events.*)
LEMMA SurvivorsFile ==
  ASSUME NEW d, FileOK(d), NEW n \in Nat, Below(d, n), NEW w \in Survivors(d)
  PROVE  /\ FileOK(w) /\ Below(w, n)
         /\ PowerLoss => \A a \in Event : Holds(d, a) => Holds(w, a)
<1>1. /\ d \in File /\ d.lines \in Seq(Seq(Piece)) /\ d.tail \in Seq(Piece)
      /\ Len(d.lines) \in Nat
      /\ d.synced \in Nat /\ d.synced <= Len(d.lines) /\ d.syncedTail \in Nat
  BY DEF FileOK, File
<1>2. PICK k \in d.synced..Len(d.lines) :
        \E t \in Remains(LineAt(d, k + 1), IF k = d.synced THEN d.syncedTail ELSE 0) :
          w = [lines |-> SubSeq(d.lines, 1, k), tail |-> t,
               synced |-> k, syncedTail |-> Len(t)]
  BY DEF Survivors
<1> DEFINE line == LineAt(d, k + 1)
           least == IF k = d.synced THEN d.syncedTail ELSE 0
<1>3. PICK t \in Remains(line, least) :
        w = [lines |-> SubSeq(d.lines, 1, k), tail |-> t,
             synced |-> k, syncedTail |-> Len(t)]
  BY <1>2
<1>4. k \in Nat /\ k <= Len(d.lines) /\ k \in 0..Len(d.lines) /\ d.synced <= k
      /\ k + 1 \in 1..Len(d.lines) + 1 /\ least \in Nat
  BY <1>1, <1>2
<1>5. line \in Seq(Piece) /\ Len(line) \in Nat
  BY <1>1, <1>4, LineAtType
<1>6. PICK m \in least..Len(line) :
        t = SubSeq(line, 1, m) \/ t = Append(SubSeq(line, 1, m), Cut)
  BY <1>3 DEF Remains
<1>7. /\ m \in Nat /\ m <= Len(line)
      /\ SubSeq(line, 1, m) \in Seq(Piece)
      /\ Len(SubSeq(line, 1, m)) = m
      /\ m > 0 => SubSeq(line, 1, m)[1] = line[1]
  <2>1. m \in Nat /\ m <= Len(line)
    BY <1>4, <1>5
  <2>2. \A i \in 1..m : line[i] \in Piece
    BY <1>5, <2>1
  <2> HIDE DEF line, least
  <2> QED
    BY <2>1, <2>2, SubSeqProperties
<1>8. t \in Seq(Piece) /\ Len(t) \in Nat
  <2>1. Cut \in Piece
    BY DEF Piece
  <2>2. Append(SubSeq(line, 1, m), Cut) \in Seq(Piece)
    BY <1>7, <2>1, AppendProperties
  <2> HIDE DEF line, least
  <2> QED
    BY <1>6, <1>7, <2>2
<1>9. \/ t = <<>>
      \/ t[1] = Cut
      \/ line # <<>> /\ t[1] = line[1]
  <2>1. CASE m = 0
    <3>1. SubSeq(line, 1, m) = <<>>
      BY <1>7, <2>1, EmptySeq
    <3> QED
      BY <1>6, <3>1
  <2>2. CASE m > 0
    <3>1. line # <<>>
      BY <1>7, <2>2
    <3>2. t[1] = SubSeq(line, 1, m)[1]
      <4>1. Cut \in Piece
        BY DEF Piece
      <4> QED
        BY <1>6, <1>7, <2>2, <4>1, AppendProperties
    <3> QED
      BY <1>7, <2>2, <3>1, <3>2
  <2> QED
    BY <1>7, <2>1, <2>2
<1>10. /\ SubSeq(d.lines, 1, k) \in Seq(Seq(Piece))
       /\ Len(SubSeq(d.lines, 1, k)) = k
       /\ \A i \in 1..k : SubSeq(d.lines, 1, k)[i] = d.lines[i]
  <2>1. \A i \in 1..k : d.lines[i] \in Seq(Piece)
    BY <1>1, <1>4
  <2> QED
    BY <1>4, <2>1, SubSeqProperties
<1>11. /\ w \in File /\ w.tail = t /\ w.synced = k
       /\ Len(w.lines) = k /\ \A i \in 1..k : w.lines[i] = d.lines[i]
  BY <1>3, <1>4, <1>8, <1>10 DEF File
<1>12. FileOK(w) /\ Below(w, n)
  <2>1. w.synced <= k /\ n <= n
    BY <1>4, <1>11
  <2> QED
    BY <1>4, <1>9, <1>11, <2>1, PrefixFile
<1>13. ASSUME PowerLoss, NEW a \in Event, Holds(d, a)
       PROVE  Holds(w, a)
  <2>1. Kept(d) = d.synced /\ Kept(w) = k
    BY <1>11, <1>13 DEF Kept
  <2>2. \A i \in 1..Kept(d) : w.lines[i] = d.lines[i]
    BY <1>1, <1>4, <1>11, <2>1
  <2> QED
    BY <1>1, <1>4, <1>13, <2>1, <2>2, HoldsExtends
<1> QED
  BY <1>12, <1>13

(* The file compaction renames into place holds what the window holds.     *)
LEMMA CompactedFile ==
  ASSUME events \in Seq(Event), SnapshotOrdered, Len(events) <= MaxEvents
  PROVE  /\ FileOK(Compacted)
         /\ \A n \in Nat : (\A i \in 1..Len(events) : events[i] < n)
                             => Below(Compacted, n)
         /\ \A a \in Event : InWindow(a, events) => Holds(Compacted, a)
<1> DEFINE w == Compacted
           N == Len(events)
<1>1. N \in Nat /\ \A i \in 1..N : events[i] \in Event /\ <<events[i]>> \in Seq(Piece)
  BY DEF Piece
<1>2. [i \in DOMAIN events |-> <<events[i]>>] \in Seq(Seq(Piece))
  <2>1. DOMAIN events = 1..N
    OBVIOUS
  <2>2. [i \in 1..N |-> <<events[i]>>] \in [1..N -> Seq(Piece)]
    BY <1>1
  <2> QED
    BY <1>1, <2>1, <2>2, SeqDef
<1>3. w \in File
  BY <1>1, <1>2 DEF Compacted, File
<1>4. /\ Len(w.lines) = N /\ w.tail = <<>> /\ w.synced = N
      /\ \A i \in 1..N : w.lines[i] = <<events[i]>>
  BY <1>1 DEF Compacted
<1>5. /\ \A i \in 1..N : LineAt(w, i) = <<events[i]>>
      /\ LineAt(w, N + 1) = <<>>
  BY <1>1, <1>4 DEF LineAt
<1>6. FileOK(w)
  <2>1. ASSUME NEW i \in 1..N + 1, NEW j \in 1..N + 1, i < j,
               Whole(LineAt(w, i)), Whole(LineAt(w, j))
        PROVE  LineAt(w, i)[1] < LineAt(w, j)[1]
    <3>1. i \in 1..N /\ j \in 1..N
      BY <1>1, <1>5, <2>1 DEF Whole
    <3>2. events[i] < events[j]
      BY <1>1, <2>1, <3>1 DEF SnapshotOrdered
    <3> QED
      BY <1>5, <3>1, <3>2
  <2>2. ASSUME NEW i \in 1..N PROVE w.lines[i] # <<>>
    <3>1. <<events[i]>> # <<>>
      OBVIOUS
    <3> QED
      BY <1>4, <3>1
  <2> HIDE DEF w
  <2> QED
    BY <1>1, <1>3, <1>4, <2>1, <2>2 DEF FileOK
<1>7. ASSUME NEW n \in Nat, \A i \in 1..N : events[i] < n
      PROVE  Below(w, n)
  BY <1>1, <1>4, <1>5, <1>7 DEF Below, Whole
<1>8. ASSUME NEW a \in Event, InWindow(a, events)
      PROVE  Holds(w, a)
  <2>1. Kept(w) = N
    BY <1>4 DEF Kept
  <2>2. CASE \E i \in DOMAIN events : events[i] = a
    BY <1>1, <1>4, <2>1, <2>2 DEF Holds
  <2>3. CASE N = MaxEvents /\ a < events[1]
    BY <1>4, <2>1, <2>3, MaxEventsAssumption DEF Holds
  <2> QED
    BY <1>8, <2>2, <2>3 DEF InWindow
<1> QED
  BY <1>6, <1>7, <1>8

(* slice(-n) keeps the end of a sequence.                                  *)
LEMMA NewestProperties ==
  ASSUME NEW s \in Seq(Event)
  PROVE  /\ Newest(s, MaxEvents) \in Seq(Event)
         /\ Len(Newest(s, MaxEvents)) <= MaxEvents
         /\ Len(Newest(s, MaxEvents)) <= Len(s)
         /\ \A i \in 1..Len(Newest(s, MaxEvents)) :
              /\ i + Len(s) - Len(Newest(s, MaxEvents)) \in 1..Len(s)
              /\ Newest(s, MaxEvents)[i] = s[i + Len(s) - Len(Newest(s, MaxEvents))]
         /\ Len(s) <= MaxEvents => Len(Newest(s, MaxEvents)) = Len(s)
         /\ Len(s) >= MaxEvents => Len(Newest(s, MaxEvents)) = MaxEvents
<1> DEFINE w == Newest(s, MaxEvents)
<1>1. Len(s) \in Nat /\ MaxEvents \in Nat /\ MaxEvents > 0
  BY MaxEventsAssumption
<1>2. CASE Len(s) <= MaxEvents
  BY <1>1, <1>2 DEF Newest
<1>3. CASE Len(s) > MaxEvents
  <2>1. w = SubSeq(s, Len(s) - MaxEvents + 1, Len(s))
    BY <1>1, <1>3 DEF Newest
  <2>2. \A i \in Len(s) - MaxEvents + 1 .. Len(s) : s[i] \in Event
    BY <1>1, <1>3
  <2>3. /\ w \in Seq(Event) /\ Len(w) = MaxEvents
        /\ \A i \in 1..MaxEvents : w[i] = s[Len(s) - MaxEvents + 1 + i - 1]
    BY <1>1, <1>3, <2>1, <2>2, SubSeqProperties
  <2>4. \A i \in 1..MaxEvents : i + Len(s) - MaxEvents \in 1..Len(s)
    BY <1>1, <1>3
  <2>5. \A i \in 1..MaxEvents : w[i] = s[i + Len(s) - MaxEvents]
    BY <1>1, <2>3
  <2>6. Len(w) <= Len(s) /\ Len(w) <= MaxEvents
    BY <1>1, <1>3, <2>3
  <2> QED
    BY <1>1, <1>3, <2>3, <2>4, <2>5, <2>6
<1> QED
  BY <1>1, <1>2, <1>3

(* Sliding the window loses nothing that has not been pushed out by        *)
(* MaxEvents later events.                                                 *)
LEMMA NewestOrdered ==
  ASSUME NEW s \in Seq(Event),
         \A i, j \in 1..Len(s) : i < j => s[i] < s[j]
  PROVE  LET w == Newest(s, MaxEvents)
         IN  /\ \A i, j \in 1..Len(w) : i < j => w[i] < w[j]
             /\ \A i \in 1..Len(s) : InWindow(s[i], w)
             /\ \A a \in Event : a < s[1] /\ Len(s) >= MaxEvents => InWindow(a, w)
<1> DEFINE w == Newest(s, MaxEvents)
<1>1. /\ Len(s) \in Nat /\ MaxEvents \in Nat /\ MaxEvents > 0
      /\ w \in Seq(Event) /\ Len(w) \in Nat /\ Len(w) <= MaxEvents /\ Len(w) <= Len(s)
      /\ \A i \in 1..Len(w) : /\ i + Len(s) - Len(w) \in 1..Len(s)
                              /\ w[i] = s[i + Len(s) - Len(w)]
      /\ Len(s) <= MaxEvents => Len(w) = Len(s)
      /\ Len(s) >= MaxEvents => Len(w) = MaxEvents
  BY NewestProperties, MaxEventsAssumption
<1>2. \A i \in 1..Len(s) : s[i] \in Nat
  BY DEF Event
<1> HIDE DEF w
<1>3. ASSUME NEW i \in 1..Len(w), NEW j \in 1..Len(w), i < j
      PROVE  w[i] < w[j]
  <2>1. i + Len(s) - Len(w) < j + Len(s) - Len(w)
    BY <1>1, <1>3
  <2> QED
    BY <1>1, <2>1
<1>4. ASSUME NEW i \in 1..Len(s)
      PROVE  InWindow(s[i], w)
  <2>1. CASE i > Len(s) - Len(w)
    <3>1. i - (Len(s) - Len(w)) \in 1..Len(w)
      BY <1>1, <2>1
    <3>2. w[i - (Len(s) - Len(w))] = s[i]
      BY <1>1, <3>1
    <3> QED
      BY <1>1, <3>1, <3>2 DEF InWindow
  <2>2. CASE i <= Len(s) - Len(w)
    <3>1. Len(w) = MaxEvents /\ 1 \in 1..Len(w)
      BY <1>1, <2>2
    <3>2. w[1] = s[1 + Len(s) - Len(w)] /\ 1 + Len(s) - Len(w) \in 1..Len(s)
      BY <1>1, <3>1
    <3>3. i < 1 + Len(s) - Len(w)
      BY <1>1, <2>2
    <3> QED
      BY <3>1, <3>2, <3>3 DEF InWindow
  <2> QED
    BY <1>1, <2>1, <2>2
<1>5. ASSUME NEW a \in Event, a < s[1], Len(s) >= MaxEvents
      PROVE  InWindow(a, w)
  <2>1. Len(w) = MaxEvents /\ 1 \in 1..Len(w)
    BY <1>1, <1>5
  <2>2. w[1] = s[1 + Len(s) - Len(w)] /\ 1 + Len(s) - Len(w) \in 1..Len(s) /\ 1 \in 1..Len(s)
    BY <1>1, <2>1
  <2>3. 1 = 1 + Len(s) - Len(w) \/ 1 < 1 + Len(s) - Len(w)
    BY <1>1
  <2>4. w[1] = s[1] \/ s[1] < w[1]
    BY <2>2, <2>3
  <2>5. a < w[1]
    BY <1>2, <1>5, <2>2, <2>4 DEF Event
  <2> QED
    BY <2>1, <2>5 DEF InWindow
<1> QED
  BY <1>3, <1>4, <1>5 DEF w

(* Replaying a file that startup accepts finds every promised event.       *)
LEMMA ReplayedFile ==
  ASSUME NEW d, FileOK(d), Readable(d)
  PROVE  LET parsed == Parsed(d)
             w      == Newest(parsed, MaxEvents)
         IN  /\ Len(parsed) \in Nat /\ Len(d.lines) <= Len(parsed) /\ Len(w) <= Len(parsed)
             /\ w \in Seq(Event) /\ Len(w) <= MaxEvents
             /\ \A i, j \in 1..Len(w) : i < j => w[i] < w[j]
             /\ \A n \in Nat : Below(d, n) => \A i \in 1..Len(w) : w[i] < n
             /\ \A a \in Event : Holds(d, a) => InWindow(a, w)
<1> DEFINE N == Len(d.lines)
           parsed == Parsed(d)
           w == Newest(parsed, MaxEvents)
           complete == [i \in DOMAIN d.lines |-> d.lines[i][1]]
<1>1. /\ d \in File /\ d.lines \in Seq(Seq(Piece)) /\ d.tail \in Seq(Piece)
      /\ N \in Nat /\ DOMAIN d.lines = 1..N
      /\ d.synced \in Nat /\ d.synced <= N
  BY DEF FileOK, File
<1>2. ASSUME NEW i \in 1..N
      PROVE  /\ Whole(d.lines[i]) /\ LineAt(d, i) = d.lines[i]
             /\ d.lines[i][1] \in Event
  <2>1. Parses(d.lines[i]) /\ d.lines[i] \in Seq(Piece)
    BY <1>1, <1>2 DEF Readable
  <2>2. d.lines[i] # <<>> /\ d.lines[i][1] # Cut
    BY <2>1 DEF Parses
  <2> QED
    BY <1>1, <1>2, <2>2, LineAtType DEF Whole, LineAt
<1>3. /\ complete \in Seq(Event) /\ Len(complete) = N
      /\ \A i \in 1..N : complete[i] = d.lines[i][1]
  <2>1. complete \in [1..N -> Event]
    BY <1>1, <1>2
  <2> QED
    BY <1>1, <2>1, SeqDef
<1>4. LineAt(d, N + 1) = d.tail
  BY <1>1 DEF LineAt
<1>5. ASSUME Parses(d.tail)
      PROVE  Whole(d.tail) /\ d.tail[1] \in Event
  <2>1. d.tail # <<>> /\ d.tail[1] # Cut
    BY <1>5 DEF Parses
  <2> QED
    BY <1>1, <1>4, <2>1, LineAtType DEF Whole
<1>6. /\ parsed \in Seq(Event)
      /\ Len(parsed) \in N..N + 1
      /\ \A i \in 1..N : parsed[i] = d.lines[i][1]
      /\ Len(parsed) = N + 1 => Whole(d.tail) /\ parsed[N + 1] = d.tail[1]
  <2>1. CASE Parses(d.tail)
    <3>1. parsed = Append(complete, d.tail[1])
      BY <2>1 DEF Parsed
    <3> HIDE DEF complete, parsed
    <3> QED
      BY <1>1, <1>3, <1>5, <2>1, <3>1, AppendProperties
  <2>2. CASE ~Parses(d.tail)
    <3>1. parsed = complete
      BY <2>2 DEF Parsed
    <3> HIDE DEF complete, parsed
    <3> QED
      BY <1>1, <1>3, <3>1
  <2> QED
    BY <2>1, <2>2
<1> HIDE DEF parsed, complete
<1>7. ASSUME NEW i \in 1..Len(parsed)
      PROVE  /\ i \in 1..N + 1
             /\ Whole(LineAt(d, i)) /\ parsed[i] = LineAt(d, i)[1]
  BY <1>1, <1>2, <1>4, <1>6, <1>7
<1>8. ASSUME NEW i \in 1..Len(parsed), NEW j \in 1..Len(parsed), i < j
      PROVE  parsed[i] < parsed[j]
  BY <1>7, <1>8 DEF FileOK
<1>9. /\ w \in Seq(Event) /\ Len(w) <= MaxEvents /\ Len(w) <= Len(parsed)
      /\ \A i \in 1..Len(w) : /\ i + Len(parsed) - Len(w) \in 1..Len(parsed)
                              /\ w[i] = parsed[i + Len(parsed) - Len(w)]
  BY <1>6, NewestProperties
<1>10. /\ \A i, j \in 1..Len(w) : i < j => w[i] < w[j]
       /\ \A i \in 1..Len(parsed) : InWindow(parsed[i], w)
       /\ \A a \in Event : a < parsed[1] /\ Len(parsed) >= MaxEvents => InWindow(a, w)
  BY <1>6, <1>8, NewestOrdered
<1> HIDE DEF w
<1>11. ASSUME NEW n \in Nat, Below(d, n), NEW i \in 1..Len(w)
       PROVE  w[i] < n
  BY <1>7, <1>9, <1>11 DEF Below
<1>12. ASSUME NEW a \in Event, Holds(d, a)
       PROVE  InWindow(a, w)
  <2>1. Kept(d) \in Nat /\ Kept(d) <= N
    BY <1>1 DEF Kept
  <2>2. \A i \in 1..Kept(d) : i \in 1..N /\ i \in 1..Len(parsed) /\ Parses(d.lines[i])
    <3>1. \A i \in 1..N : Parses(d.lines[i])
      BY <1>1 DEF Readable
    <3> QED
      BY <1>1, <1>6, <2>1, <3>1
  <2>3. CASE \E i \in 1..Kept(d) : d.lines[i] = <<a>>
    BY <1>6, <1>10, <2>2, <2>3
  <2>4. CASE Kept(d) >= MaxEvents /\ a < d.lines[1][1]
    <3>1. 1 \in 1..N /\ parsed[1] = d.lines[1][1] /\ Len(parsed) >= MaxEvents
      BY <1>1, <1>6, <2>1, <2>4, MaxEventsAssumption
    <3> QED
      BY <1>10, <2>4, <3>1
  <2> QED
    BY <1>12, <2>2, <2>3, <2>4 DEF Holds
<1> QED
  BY <1>6, <1>9, <1>10, <1>11, <1>12 DEF w, parsed

(* Recording an event newer than the window keeps what the window showed.  *)
LEMMA RecordedWindow ==
  ASSUME events \in Seq(Event), SnapshotOrdered, current \in Event,
         \A i \in 1..Len(events) : events[i] < current
  PROVE  LET w == Newest(Append(events, current), MaxEvents)
         IN  /\ w \in Seq(Event) /\ Len(w) <= MaxEvents
             /\ \A i, j \in 1..Len(w) : i < j => w[i] < w[j]
             /\ \A i \in 1..Len(w) : w[i] <= current
             /\ \A a \in Event : a = current \/ InWindow(a, events) => InWindow(a, w)
<1> DEFINE s == Append(events, current)
           w == Newest(s, MaxEvents)
           N == Len(events)
<1>1. /\ N \in Nat /\ s \in Seq(Event) /\ Len(s) = N + 1
      /\ \A i \in 1..N : s[i] = events[i] /\ events[i] \in Nat
      /\ s[N + 1] = current /\ DOMAIN events = 1..N
  BY DEF Event
<1> HIDE DEF s
<1>2. \A i, j \in 1..N : i < j => events[i] < events[j]
  BY <1>1 DEF SnapshotOrdered
<1>3. ASSUME NEW i \in 1..Len(s), NEW j \in 1..Len(s), i < j
      PROVE  s[i] < s[j]
  BY <1>1, <1>2, <1>3
<1>4. \A i \in 1..Len(s) : s[i] <= current
  BY <1>1 DEF Event
<1>5. /\ w \in Seq(Event) /\ Len(w) <= MaxEvents
      /\ \A i \in 1..Len(w) : /\ i + Len(s) - Len(w) \in 1..Len(s)
                              /\ w[i] = s[i + Len(s) - Len(w)]
  BY <1>1, NewestProperties
<1>6. /\ \A i, j \in 1..Len(w) : i < j => w[i] < w[j]
      /\ \A i \in 1..Len(s) : InWindow(s[i], w)
      /\ \A a \in Event : a < s[1] /\ Len(s) >= MaxEvents => InWindow(a, w)
  BY <1>1, <1>3, NewestOrdered
<1> HIDE DEF w
<1>7. \A i \in 1..Len(w) : w[i] <= current
  BY <1>4, <1>5
<1>8. InWindow(current, w)
  BY <1>1, <1>6
<1>9. ASSUME NEW a \in Event, InWindow(a, events)
      PROVE  InWindow(a, w)
  <2>1. CASE \E i \in DOMAIN events : events[i] = a
    BY <1>1, <1>6, <2>1
  <2>2. CASE N = MaxEvents /\ a < events[1]
    BY <1>1, <1>6, <2>2, MaxEventsAssumption
  <2> QED
    BY <1>9, <2>1, <2>2 DEF InWindow
<1> QED
  BY <1>5, <1>6, <1>7, <1>8, <1>9 DEF w, s

-----------------------------------------------------------------------------
(* The invariant is inductive.                                             *)

(* An empty sequence has no elements.                                      *)
LEMMA NoElements ==
  /\ DOMAIN <<>> = {} /\ Len(<<>>) = 0
  /\ \A S : <<>> \in Seq(S)
BY EmptySeq, LenProperties

(* The initial states satisfy the invariant.                               *)
LEMMA Initially == Init => IInv
<1> SUFFICES ASSUME Init PROVE IInv
  OBVIOUS
<1> USE DEF Init
<1>1. EmptyFile \in File /\ EmptyFile.lines = <<>> /\ EmptyFile.tail = <<>>
      /\ EmptyFile.synced = 0
  BY DEF EmptyFile, File
<1>2. TypeOK
  BY <1>1, NoElements DEF TypeOK
<1>3. DiskInv
  <2>1. LineAt(disk, 1) = <<>> /\ Len(disk.lines) = 0
    BY <1>1 DEF LineAt
  <2>2. FileOK(disk) /\ Below(disk, issued + 1)
    BY <1>1, <2>1 DEF FileOK, Below, Whole
  <2>3. Promised = {}
    BY DEF Promised, Compacting
  <2> QED
    BY <2>2, <2>3 DEF DiskInv
<1>4. WindowInv
  BY NoElements, MaxEventsAssumption DEF WindowInv, SnapshotOrdered
<1>5. QueueInv
  BY DEF QueueInv
<1>6. OperationInv
  BY <1>1 DEF OperationInv, Compacting
<1> QED
  BY <1>2, <1>3, <1>4, <1>5, <1>6 DEF IInv

(* The facts about a state that every step below starts from.              *)
LEMMA BasicFacts ==
  ASSUME IInv
  PROVE  /\ issued \in Nat /\ current \in Nat /\ Len(events) \in Nat /\ Len(pending) \in Nat
         /\ Promised \subseteq Event
         /\ \A d \in stale \cup {disk} : FileOK(d) /\ Below(d, issued + 1) /\ d \in File
         /\ \A i \in 1..Len(events) : events[i] \in Event
         /\ \A i \in 1..Len(pending) : pending[i] \in Nat
         /\ issued + 1 \in Nat
<1>1. Compacting => current \in Event
  BY DEF IInv, TypeOK, OperationInv, Event
<1> QED
  BY <1>1 DEF IInv, TypeOK, DiskInv, FileOK, Promised

(* A step that ends the process leaves the file to the next start.         *)
LEMMA ExitPreserves ==
  ASSUME IInv, Exit, issued' = issued, acked' = acked,
         faults' \in Nat, crashes' \in Nat,
         disk' \in File, stale' \subseteq File,
         \A d \in stale' \cup {disk'} : FileOK(d) /\ Below(d, issued + 1),
         Durable => \A e \in Promised : Holds(disk', e),
         Durable /\ PowerLoss => \A d \in stale' : \A e \in Promised : Holds(d, e)
  PROVE  IInv'
<1>1. TypeOK'
  BY NoElements DEF IInv, TypeOK, Exit
<1>2. DiskInv'
  <2>1. Promised' \subseteq Promised
    BY DEF Exit, Promised, Compacting
  <2>2. /\ \A d \in stale' \cup {disk'} : FileOK(d)' /\ Below(d, issued + 1)'
        /\ Durable => \A e \in Promised : Holds(disk, e)'
        /\ Durable /\ PowerLoss => \A d \in stale' : \A e \in Promised : Holds(d, e)'
    BY DEF FileOK, Below, Holds, Kept, LineAt
  <2> QED
    BY <2>1, <2>2 DEF DiskInv
<1>3. WindowInv'
  BY NoElements, MaxEventsAssumption DEF WindowInv, SnapshotOrdered, Exit
<1>4. QueueInv'
  BY DEF QueueInv, Exit
<1>5. OperationInv'
  BY DEF OperationInv, Exit, Compacting, IInv, TypeOK
<1> QED
  BY <1>1, <1>2, <1>3, <1>4, <1>5 DEF IInv

(* When no promise is new and the files are the same, DiskInv carries over. *)
LEMMA SameDisk ==
  ASSUME IInv, disk' = disk, stale' = stale, Promised' \subseteq Promised,
         issued' \in Nat, issued <= issued'
  PROVE  DiskInv'
<1>1. ASSUME NEW d \in stale \cup {disk}
      PROVE  FileOK(d) /\ Below(d, issued' + 1)
  <2>1. FileOK(d) /\ Below(d, issued + 1) /\ d \in File /\ issued \in Nat
    BY <1>1, BasicFacts
  <2>2. ASSUME NEW i \in 1..Len(d.lines) + 1, Whole(LineAt(d, i))
        PROVE  LineAt(d, i)[1] < issued' + 1
    <3>1. LineAt(d, i)[1] \in Nat /\ LineAt(d, i)[1] < issued + 1
      BY <2>1, <2>2, LineAtType DEF Below, Event
    <3> QED
      BY <2>1, <3>1
  <2> QED
    BY <2>1, <2>2 DEF Below
<1>2. /\ Durable => \A e \in Promised : Holds(disk, e)
      /\ Durable /\ PowerLoss => \A d \in stale : \A e \in Promised : Holds(d, e)
  BY DEF IInv, DiskInv
<1> QED
  BY <1>1, <1>2 DEF DiskInv, FileOK, Below, Holds, Kept, LineAt

(* Operations leave the queue from its head.                               *)
LEMMA QueueTail ==
  ASSUME IInv, pending # <<>>
  PROVE  /\ Tail(pending) \in Seq(Nat) /\ Head(pending) \in Nat
         /\ Head(pending) <= issued
         /\ Head(pending) # 0 => Newer(Head(pending))
         /\ \A i \in 1..Len(Tail(pending)) :
              /\ Tail(pending)[i] <= issued
              /\ Tail(pending)[i] # 0 =>
                   /\ Newer(Tail(pending)[i])
                   /\ Head(pending) < Tail(pending)[i]
         /\ \A i, j \in 1..Len(Tail(pending)) :
              i < j /\ Tail(pending)[i] # 0 /\ Tail(pending)[j] # 0
                => Tail(pending)[i] < Tail(pending)[j]
<1> DEFINE t == Tail(pending)
<1>1. pending \in Seq(Nat) /\ Len(pending) \in Nat /\ Len(pending) >= 1
  BY EmptySeq DEF IInv, TypeOK
<1>2. /\ t \in Seq(Nat) /\ Len(t) = Len(pending) - 1
      /\ \A i \in 1..Len(t) : t[i] = pending[i + 1]
      /\ Head(pending) = pending[1] /\ Head(pending) \in Nat
  BY <1>1, HeadTailProperties
<1> HIDE DEF t
<1>3. \A i \in 1..Len(t) : i + 1 \in 1..Len(pending) /\ 1 < i + 1
  BY <1>1, <1>2
<1>4. 1 \in 1..Len(pending)
  BY <1>1
<1>5. QueueInv
  BY DEF IInv
<1>6. Head(pending) <= issued /\ (Head(pending) # 0 => Newer(Head(pending)))
  BY <1>2, <1>4, <1>5 DEF QueueInv
<1>7. ASSUME NEW i \in 1..Len(t)
      PROVE  /\ t[i] <= issued
             /\ t[i] # 0 => Newer(t[i]) /\ Head(pending) < t[i]
  <2>1. t[i] = pending[i + 1] /\ i + 1 \in 1..Len(pending) /\ 1 < i + 1
    BY <1>2, <1>3
  <2>2. t[i] <= issued /\ (t[i] # 0 => Newer(t[i]))
    BY <1>5, <2>1 DEF QueueInv
  <2>3. ASSUME t[i] # 0, Head(pending) # 0 PROVE Head(pending) < t[i]
    BY <1>2, <1>4, <1>5, <2>1, <2>3 DEF QueueInv
  <2>4. t[i] \in Nat
    BY <1>1, <2>1
  <2> QED
    BY <1>2, <2>2, <2>3, <2>4
<1>8. ASSUME NEW i \in 1..Len(t), NEW j \in 1..Len(t), i < j, t[i] # 0, t[j] # 0
      PROVE  t[i] < t[j]
  <2>1. i + 1 < j + 1
    BY <1>8, <1>1, <1>2
  <2> QED
    BY <1>2, <1>3, <1>5, <1>8, <2>1 DEF QueueInv
<1> QED
  BY <1>2, <1>6, <1>7, <1>8 DEF t

(* initialize: the replayed window holds every event the file holds.       *)
LEMMA OpenPreserves == IInv /\ Open => IInv'
<1> SUFFICES ASSUME IInv, Open PROVE IInv'
  OBVIOUS
<1>1. /\ pending = <<>> /\ current = 0 /\ pc' \in {"idle", "openTemporary"}
      /\ FileOK(disk) /\ Readable(disk)
  BY BasicFacts DEF IInv, QueueInv, OperationInv, Compacting, Open
<1>2. /\ Len(Parsed(disk)) \in Nat
      /\ events' \in Seq(Event) /\ Len(events') <= MaxEvents
      /\ \A i, j \in 1..Len(events') : i < j => events'[i] < events'[j]
      /\ \A i \in 1..Len(events') : events'[i] < issued + 1
      /\ \A a \in Event : Holds(disk, a) => InWindow(a, events')
  BY <1>1, BasicFacts, ReplayedFile DEF Open
<1>3. TypeOK'
  BY <1>1, <1>2 DEF IInv, TypeOK, Open, memory, history, bounds
<1>4. Promised' \subseteq Promised /\ Promised' \subseteq Event
  BY <1>1, BasicFacts DEF Promised, Compacting, Open, history
<1>5. DiskInv'
  BY <1>4, SameDisk, BasicFacts DEF Open, history
<1>6. WindowInv'
  <2>1. ASSUME Durable, NEW e \in Promised' PROVE InWindow(e, events')
    BY <1>2, <1>4, <2>1 DEF IInv, DiskInv
  <2>2. \A i \in 1..Len(events') : events'[i] <= issued
    BY <1>2, BasicFacts DEF Event
  <2> QED
    BY <1>2, <2>1, <2>2 DEF WindowInv, SnapshotOrdered, Open, history, InWindow
<1>7. QueueInv'
  BY <1>1, NoElements DEF QueueInv, Open
<1>8. OperationInv'
  BY <1>1, BasicFacts DEF OperationInv, Compacting, Open, history
<1> QED
  BY <1>3, <1>5, <1>6, <1>7, <1>8 DEF IInv

(* append and close: what is queued is newer than what is written.         *)
LEMMA RequestsPreserve == IInv /\ (RequestAppend \/ RequestClose) => IInv'
<1> SUFFICES ASSUME IInv, RequestAppend \/ RequestClose PROVE IInv'
  OBVIOUS
<1> USE DEF history, bounds
<1>1. /\ UNCHANGED <<disk, stale, pc, events, persistedLines, handle, current, acked,
                     faults, crashes>>
      /\ pc # "down" /\ ~Opening
  BY DEF RequestAppend, RequestClose, Opening
<1>2. PICK n \in Nat : /\ pending' = Append(pending, n)
                       /\ \/ n = issued + 1 /\ issued' = issued + 1
                          \/ n = 0 /\ issued' = issued
  BY BasicFacts DEF RequestAppend, RequestClose
<1>3. issued' \in Nat /\ issued <= issued' /\ n <= issued'
  BY <1>2, BasicFacts
<1>4. /\ pending' \in Seq(Nat) /\ Len(pending') = Len(pending) + 1
      /\ \A i \in 1..Len(pending) : pending'[i] = pending[i]
      /\ pending'[Len(pending) + 1] = n
  BY <1>2, BasicFacts, AppendProperties DEF IInv, TypeOK
<1>5. TypeOK'
  BY <1>1, <1>3, <1>4 DEF IInv, TypeOK
<1>6. Promised' = Promised
  BY <1>1 DEF Promised, Compacting
<1>7. DiskInv'
  BY <1>1, <1>3, <1>6, SameDisk
<1>8. WindowInv'
  BY <1>1, <1>3, <1>6, BasicFacts DEF IInv, WindowInv, SnapshotOrdered, InWindow, Event
<1>9. QueueInv'
  <2>1. n # 0 => Newer(n)
    <3>1. ASSUME n # 0 PROVE n = issued + 1
      BY <1>2, <3>1
    <3>2. current < issued + 1
      BY BasicFacts DEF IInv, OperationInv
    <3>3. \A i \in 1..Len(events) : events[i] < issued + 1
      BY BasicFacts DEF IInv, WindowInv, Event
    <3> QED
      BY <3>1, <3>2, <3>3, BasicFacts DEF Newer
  <2>2. \A m : Newer(m) => Newer(m)'
    BY <1>1 DEF Newer, Below
  <2>3. \A i \in 1..Len(pending) : pending[i] # 0 /\ n # 0 => pending[i] < n
    BY <1>2, BasicFacts DEF IInv, QueueInv
  <2>4. ASSUME NEW i \in 1..Len(pending')
        PROVE  pending'[i] <= issued' /\ (pending'[i] # 0 => Newer(pending[i])')
    <3>1. CASE i \in 1..Len(pending)
      <4>1. pending[i] \in Nat /\ pending[i] <= issued /\ pending'[i] = pending[i]
        BY <1>4, <3>1, BasicFacts DEF IInv, QueueInv
      <4>2. pending[i] # 0 => Newer(pending[i])
        BY <3>1 DEF IInv, QueueInv
      <4> QED
        <5>1. pending'[i] <= issued'
          BY <1>3, <4>1, BasicFacts
        <5>2. pending'[i] # 0 => Newer(pending[i])'
          BY <1>1, <4>1, <4>2 DEF Newer, Below
        <5> QED
          BY <5>1, <5>2
    <3>2. CASE i = Len(pending) + 1
      <4>1. pending'[i] = n
        BY <1>4, <3>2
      <4> QED
        BY <1>3, <2>1, <2>2, <4>1 DEF Newer
    <3> QED
      BY <1>4, <2>4, <3>1, <3>2, BasicFacts
  <2>6. ASSUME NEW i \in 1..Len(pending'), NEW j \in 1..Len(pending'), i < j,
               pending'[i] # 0, pending'[j] # 0
        PROVE  pending'[i] < pending'[j]
    <3>1. i \in 1..Len(pending)
      BY <1>4, <2>6, BasicFacts
    <3>2. CASE j \in 1..Len(pending)
      BY <1>4, <2>6, <3>1, <3>2 DEF IInv, QueueInv
    <3>3. CASE j = Len(pending) + 1
      BY <1>4, <2>3, <2>6, <3>1, <3>3
    <3> QED
      BY <1>4, <3>2, <3>3, BasicFacts
  <2>7. pc' # "down" /\ ~Opening'
    BY <1>1 DEF Opening
  <2> QED
    BY <2>4, <2>6, <2>7 DEF QueueInv
<1>10. OperationInv'
  BY <1>1, <1>3, BasicFacts DEF IInv, OperationInv, Compacting, Below
<1> QED
  BY <1>5, <1>7, <1>8, <1>9, <1>10 DEF IInv

(* enqueue: the next operation takes the oldest event of the queue.        *)
LEMMA StartsPreserve == IInv /\ (StartAppend \/ StartClose) => IInv'
<1> SUFFICES ASSUME IInv, StartAppend \/ StartClose PROVE IInv'
  OBVIOUS
<1> USE DEF history, bounds
<1>1. /\ UNCHANGED <<disk, stale, events, persistedLines, issued, acked, faults, crashes>>
      /\ pc = "idle" /\ pending # <<>> /\ pending' = Tail(pending)
      /\ handle' \in BOOLEAN
      /\ \/ pc' = "idle" /\ current' = current
         \/ pc' = "write" /\ current' = Head(pending) /\ Head(pending) # 0
  BY DEF StartAppend, StartClose, IInv, TypeOK
<1>2. current = 0 /\ ~Compacting
  BY <1>1 DEF IInv, OperationInv, Compacting
<1>3. /\ current' \in Nat /\ current' <= issued
      /\ current' # 0 => current' = Head(pending) /\ Newer(Head(pending))
  BY <1>1, <1>2, QueueTail, BasicFacts
<1>4. TypeOK'
  BY <1>1, <1>3, QueueTail DEF IInv, TypeOK
<1>5. Promised' = Promised /\ Promised' = acked
  BY <1>1, <1>2 DEF Promised, Compacting
<1>6. DiskInv'
  BY <1>1, <1>5, SameDisk, BasicFacts
<1>7. WindowInv'
  BY <1>1, <1>5 DEF IInv, WindowInv, SnapshotOrdered, InWindow
<1>8. QueueInv'
  <2>1. ASSUME NEW i \in 1..Len(pending'), pending'[i] # 0
        PROVE  Newer(pending[i])'
    <3>1. Newer(pending'[i]) /\ Head(pending) < pending'[i]
      BY <1>1, <2>1, QueueTail
    <3>2. current' < pending'[i]
      BY <1>1, <1>2, <3>1 DEF Newer
    <3> QED
      BY <1>1, <3>1, <3>2 DEF Newer, Below
  <2>2. pc' # "down" /\ ~Opening'
    BY <1>1 DEF Opening
  <2> QED
    BY <1>1, <2>1, <2>2, QueueTail DEF QueueInv
<1>9. OperationInv'
  BY <1>1, <1>2, <1>3 DEF OperationInv, Compacting, Newer, Below
<1> QED
  BY <1>4, <1>6, <1>7, <1>8, <1>9 DEF IInv

(* The event being written is a number, and newer than all that is there.  *)
LEMMA CurrentFacts ==
  ASSUME IInv, pc \in {"write", "datasync"}
  PROVE  /\ current \in Event /\ current <= issued /\ current < issued + 1
         /\ \A i \in 1..Len(events) : events[i] < current
         /\ Promised = acked /\ acked \subseteq Event
         /\ \A i \in 1..Len(pending) : pending[i] # 0 => current < pending[i]
BY DEF IInv, TypeOK, OperationInv, QueueInv, Newer, Promised, Compacting, Event

(* The in-memory half of a successful append, given what the write left.   *)
LEMMA RecordPreserves ==
  ASSUME IInv, pc \in {"write", "datasync"}, Record,
         faults' = faults, crashes' = crashes,
         \A d \in stale' \cup {disk'} : FileOK(d) /\ Below(d, issued + 1),
         Durable => \A e \in acked \cup {current} : Holds(disk', e),
         Durable /\ PowerLoss => stale' = {},
         \A i \in 1..Len(pending) : pending[i] # 0 => Below(disk', pending[i])
  PROVE  IInv'
<1>1. /\ persistedLines' = persistedLines + 1
      /\ events' = Newest(Append(events, current), MaxEvents)
      /\ UNCHANGED <<handle, pending, issued, faults, crashes>>
      /\ \/ pc' = "temporary" /\ current' = current /\ acked' = acked
         \/ pc' = "idle" /\ current' = 0 /\ acked' = acked \cup {current}
  <2>1. current # 0
    BY CurrentFacts DEF Event
  <2> QED
    BY <2>1 DEF Record, Resolve
<1>2. /\ events' \in Seq(Event) /\ Len(events') <= MaxEvents
      /\ \A i, j \in 1..Len(events') : i < j => events'[i] < events'[j]
      /\ \A i \in 1..Len(events') : events'[i] <= current
      /\ \A a \in Event : a = current \/ InWindow(a, events) => InWindow(a, events')
  BY <1>1, CurrentFacts, RecordedWindow DEF IInv, TypeOK, WindowInv
<1>3. Promised' = acked \cup {current} /\ Promised' \subseteq Event /\ acked' \subseteq Event
  BY <1>1, CurrentFacts DEF Promised, Compacting
<1>4. TypeOK'
  <2>1. disk' \in File /\ stale' \subseteq File
    BY DEF FileOK
  <2> QED
    BY <1>1, <1>2, <1>3, <2>1 DEF IInv, TypeOK
<1>5. DiskInv'
  BY <1>1, <1>3 DEF DiskInv, FileOK, Below, Holds, Kept, LineAt
<1>6. WindowInv'
  <2>1. \A i \in 1..Len(events') : events'[i] <= issued
    BY <1>2, CurrentFacts, BasicFacts DEF Event
  <2>2. ASSUME Durable, NEW e \in Promised' PROVE InWindow(e, events')
    BY <1>2, <1>3, <2>2, CurrentFacts DEF IInv, WindowInv
  <2> QED
    BY <1>1, <1>2, <2>1, <2>2 DEF WindowInv, SnapshotOrdered, InWindow
<1>7. QueueInv'
  <2>1. ASSUME NEW i \in 1..Len(pending), pending[i] # 0
        PROVE  Newer(pending[i])'
    <3>1. /\ current < pending[i] /\ pending[i] \in Nat /\ current \in Nat
          /\ \A j \in 1..Len(events') : events'[j] \in Nat
      BY <1>2, <2>1, CurrentFacts, BasicFacts DEF Event
    <3>2. current' < pending[i] /\ \A j \in 1..Len(events') : events'[j] < pending[i]
      BY <1>1, <1>2, <3>1
    <3> QED
      BY <1>1, <2>1, <3>2 DEF Newer, Below
  <2>2. pc' # "down" /\ ~Opening'
    BY <1>1 DEF Opening
  <2> QED
    BY <1>1, <2>1, <2>2 DEF QueueInv, IInv
<1>8. OperationInv'
  BY <1>1, CurrentFacts, BasicFacts DEF OperationInv, Compacting, Event
<1> QED
  BY <1>4, <1>5, <1>6, <1>7, <1>8 DEF IInv

(* A failed operation leaves the memory as it was, and what it left of its *)
(* event in the file is older than all that is queued.                     *)
LEMMA RejectPreserves ==
  ASSUME IInv, Reject, pc # "down", ~Opening, handle' \in BOOLEAN,
         UNCHANGED <<events, persistedLines, pending, issued>>,
         faults' \in Nat, crashes' \in Nat,
         \A d \in stale' \cup {disk'} : FileOK(d) /\ Below(d, issued + 1),
         Durable => \A e \in Promised : Holds(disk', e),
         Durable /\ PowerLoss => \A d \in stale' : \A e \in Promised : Holds(d, e),
         \A i \in 1..Len(pending) : pending[i] # 0 => Below(disk', pending[i])
  PROVE  IInv'
<1>1. pc' = "idle" /\ current' = 0 /\ acked' = acked
  BY DEF Reject
<1>2. Promised' \subseteq Promised
  BY <1>1 DEF Promised, Compacting
<1>3. TypeOK'
  BY <1>1 DEF IInv, TypeOK, FileOK
<1>4. DiskInv'
  BY <1>1, <1>2 DEF DiskInv, FileOK, Below, Holds, Kept, LineAt
<1>5. WindowInv'
  BY <1>2 DEF IInv, WindowInv, SnapshotOrdered, InWindow
<1>6. QueueInv'
  <2>1. ASSUME NEW i \in 1..Len(pending), pending[i] # 0
        PROVE  Newer(pending[i])'
    <3>1. pending[i] \in Nat /\ Newer(pending[i])
      BY <2>1, BasicFacts DEF IInv, QueueInv
    <3>2. current' < pending[i]
      BY <1>1, <2>1, <3>1
    <3> QED
      BY <1>1, <2>1, <3>1, <3>2 DEF Newer, Below
  <2>2. pc' # "down" /\ ~Opening'
    BY <1>1 DEF Opening
  <2> QED
    BY <1>1, <2>1, <2>2 DEF QueueInv, IInv
<1>7. OperationInv'
  BY <1>1, BasicFacts DEF OperationInv, Compacting
<1> QED
  BY <1>3, <1>4, <1>5, <1>6, <1>7 DEF IInv

(* append up to appendFile, which may end the operation.                   *)
LEMMA WritePreserves == IInv /\ (Write \/ WriteFails) => IInv'
<1> SUFFICES ASSUME IInv, Write \/ WriteFails PROVE IInv'
  OBVIOUS
<1>1. /\ pc = "write" /\ stale' = stale /\ current \in Event /\ Below(disk, current)
      /\ FileOK(disk) /\ Promised = acked /\ issued + 1 \in Nat /\ current < issued + 1
      /\ \A d \in stale : FileOK(d) /\ Below(d, issued + 1)
  BY BasicFacts, CurrentFacts DEF Write, WriteFails, IInv, OperationInv
<1>2. /\ Durable => \A e \in Promised : Holds(disk, e)
      /\ Durable /\ PowerLoss => \A d \in stale : \A e \in Promised : Holds(d, e)
      /\ \A i \in 1..Len(pending) : pending[i] # 0 =>
           pending[i] \in Nat /\ current < pending[i]
  BY <1>1, CurrentFacts, BasicFacts DEF IInv, DiskInv
<1>3. ASSUME Write
      PROVE  IInv'
  <2>1. disk' = Written(disk, current)
    BY <1>3 DEF Write
  <2>2. /\ FileOK(disk')
        /\ \A n \in Nat : current < n => Below(disk', n)
        /\ disk'.lines # <<>>
        /\ disk'.lines[Len(disk'.lines)] = <<current>> \/ ~Parses(disk'.lines[Len(disk'.lines)])
        /\ \A a \in Event : Holds(disk, a) => Holds(disk', a)
    BY <1>1, <2>1, WrittenFile
  <2>3. /\ \A d \in stale' \cup {disk'} : FileOK(d) /\ Below(d, issued + 1)
        /\ \A i \in 1..Len(pending) : pending[i] # 0 => Below(disk', pending[i])
        /\ Durable => \A e \in acked : Holds(disk', e)
    BY <1>1, <1>2, <2>2, BasicFacts
  <2>4. CASE ~SyncWrites
    <3>1. Record /\ faults' = faults /\ crashes' = crashes
      BY <1>3, <2>4 DEF Write, bounds
    <3>2. ASSUME Durable
          PROVE  Holds(disk', current) /\ ~PowerLoss
      <4>1. ~PowerLoss
        BY <2>4, <3>2 DEF Durable
      <4>2. Kept(disk') = Len(disk'.lines) /\ Len(disk'.lines) \in 1..Len(disk'.lines)
        BY <2>2, <4>1, EmptySeq DEF Kept, FileOK, File
      <4> QED
        BY <2>2, <4>1, <4>2 DEF Holds
    <3> QED
      BY <1>1, <2>3, <3>1, <3>2, RecordPreserves
  <2>5. CASE SyncWrites
    <3>1. /\ pc' = "datasync" /\ UNCHANGED <<events, persistedLines, handle, pending, current>>
          /\ UNCHANGED <<issued, acked, faults, crashes>>
      BY <1>3, <2>5 DEF Write, memory, history, bounds
    <3>2. TypeOK'
      BY <2>2, <3>1, <1>1 DEF IInv, TypeOK, FileOK
    <3>3. Promised' = acked
      BY <3>1 DEF Promised, Compacting
    <3>4. DiskInv'
      BY <1>1, <1>2, <2>3, <3>1, <3>3 DEF DiskInv, FileOK, Below, Holds, Kept, LineAt
    <3>5. WindowInv'
      BY <1>1, <3>1, <3>3 DEF IInv, WindowInv, SnapshotOrdered, InWindow
    <3>6. QueueInv'
      <4>1. pc' # "down" /\ ~Opening'
        BY <3>1 DEF Opening
      <4> QED
        BY <2>3, <3>1, <4>1 DEF IInv, QueueInv, Newer, Below
    <3>7. OperationInv'
      BY <1>1, <2>2, <3>1 DEF IInv, OperationInv, Compacting, Parses
    <3> QED
      BY <3>2, <3>4, <3>5, <3>6, <3>7 DEF IInv
  <2> QED
    BY <2>4, <2>5
<1>4. ASSUME WriteFails
      PROVE  IInv'
  <2>1. /\ disk' \in HalfWritten(disk, current) /\ Reject
        /\ UNCHANGED <<events, persistedLines, handle, pending, issued>>
        /\ faults' \in Nat /\ crashes' \in Nat
    BY <1>4 DEF WriteFails, Fault, IInv, TypeOK
  <2>2. /\ FileOK(disk')
        /\ \A n \in Nat : current < n => Below(disk', n)
        /\ \A a \in Event : Holds(disk, a) => Holds(disk', a)
    BY <1>1, <2>1, HalfWrittenFile
  <2>3. ~Opening /\ handle' \in BOOLEAN
    BY <1>1, <2>1 DEF Opening, IInv, TypeOK
  <2>4. \A d \in stale' \cup {disk'} : FileOK(d) /\ Below(d, issued + 1)
    BY <1>1, <2>2
  <2>5. \A i \in 1..Len(pending) : pending[i] # 0 => Below(disk', pending[i])
    BY <1>2, <2>2
  <2>6. Durable => \A e \in Promised : Holds(disk', e)
    BY <1>2, <2>2, BasicFacts
  <2> QED
    BY <1>1, <1>2, <2>1, <2>3, <2>4, <2>5, <2>6, RejectPreserves
<1> QED
  BY <1>3, <1>4

(* append from datasync on: the event it promises is in the file.          *)
LEMMA DatasyncPreserves == IInv /\ (Datasync \/ DatasyncFails) => IInv'
<1> SUFFICES ASSUME IInv, Datasync \/ DatasyncFails PROVE IInv'
  OBVIOUS
<1>1. /\ pc = "datasync" /\ FileOK(disk) /\ Below(disk, issued + 1)
      /\ disk.lines # <<>>
      /\ disk.lines[Len(disk.lines)] = <<current>> \/ ~Parses(disk.lines[Len(disk.lines)])
      /\ Promised = acked /\ acked \subseteq Event
      /\ \A i \in 1..Len(pending) : pending[i] # 0 => Below(disk, pending[i])
  BY BasicFacts, CurrentFacts DEF Datasync, DatasyncFails, IInv, OperationInv, QueueInv, Newer
<1>2. Durable => \A e \in acked : Holds(disk, e)
  BY <1>1 DEF IInv, DiskInv
<1>3. ASSUME Datasync
      PROVE  IInv'
  <2>1. /\ disk' = Synced(disk) /\ stale' = {} /\ Record
        /\ faults' = faults /\ crashes' = crashes
    BY <1>3 DEF Datasync, bounds
  <2>2. /\ FileOK(disk') /\ Below(disk', issued + 1)
        /\ \A i \in 1..Len(pending) : pending[i] # 0 => Below(disk', pending[i])
        /\ \A a \in Event : Holds(disk, a) => Holds(disk', a)
        /\ disk'.lines = disk.lines /\ Kept(disk') = Len(disk.lines)
    BY <1>1, <2>1, SyncedFile
  <2>3. Holds(disk', current)
    <3>1. Len(disk.lines) \in 1..Len(disk.lines)
      BY <1>1, EmptySeq DEF FileOK, File
    <3> QED
      BY <1>1, <2>2, <3>1 DEF Holds
  <2> QED
    BY <1>1, <1>2, <2>1, <2>2, <2>3, RecordPreserves
<1>4. ASSUME DatasyncFails
      PROVE  IInv'
  <2>1. /\ Reject /\ UNCHANGED <<disk, stale, events, persistedLines, handle, pending, issued>>
        /\ faults' \in Nat /\ crashes' \in Nat
    BY <1>4 DEF DatasyncFails, Fault, IInv, TypeOK
  <2>2. ~Opening /\ handle' \in BOOLEAN
    BY <1>1, <2>1 DEF Opening, IInv, TypeOK
  <2>3. /\ Durable /\ PowerLoss => \A d \in stale : \A e \in Promised : Holds(d, e)
        /\ \A d \in stale \cup {disk} : FileOK(d) /\ Below(d, issued + 1)
    BY DEF IInv, DiskInv
  <2> QED
    BY <1>1, <1>2, <2>1, <2>2, <2>3, RejectPreserves
<1> QED
  BY <1>3, <1>4

(* While compaction runs, the next file and the promise are one of these.  *)
CompactionSteps == {"temporary", "rename", "directory", "reopen"}
OpeningSteps    == {"openTemporary", "openRename", "openDirectory", "openReopen"}

(* A failed compaction rejects the append, or ends the opening process;    *)
(* the files are what they were.                                           *)
LEMMA CompactFailsPreserves ==
  ASSUME IInv, pc \in CompactionSteps \cup OpeningSteps,
         NEW usable \in BOOLEAN, CompactFails(usable),
         faults' \in Nat, crashes' \in Nat,
         disk' = disk, stale' = stale, issued' = issued
  PROVE  IInv'
<1>1. /\ \A d \in stale' \cup {disk'} : FileOK(d) /\ Below(d, issued + 1)
      /\ Durable => \A e \in Promised : Holds(disk', e)
      /\ Durable /\ PowerLoss => \A d \in stale' : \A e \in Promised : Holds(d, e)
      /\ disk' \in File /\ stale' \subseteq File
  BY DEF IInv, DiskInv, TypeOK
<1>2. CASE Opening
  BY <1>1, <1>2, ExitPreserves DEF CompactFails
<1>3. CASE ~Opening
  <2>1. /\ Reject /\ handle' \in BOOLEAN /\ pc # "down"
        /\ UNCHANGED <<events, persistedLines, pending, issued>>
    BY <1>3 DEF CompactFails, CompactionSteps, OpeningSteps
  <2>2. \A i \in 1..Len(pending) : pending[i] # 0 => Below(disk', pending[i])
    BY DEF IInv, QueueInv, Newer
  <2> QED
    BY <1>1, <1>3, <2>1, <2>2, RejectPreserves
<1> QED
  BY <1>2, <1>3

(* compact when a call fails.                                              *)
LEMMA CompactionFailuresPreserve ==
  ASSUME IInv, WriteTemporaryFails \/ CloseFails \/ RenameFails \/ SyncDirectoryFails \/ ReopenFails
  PROVE  IInv'
<1>1. pc \in CompactionSteps \cup OpeningSteps
  BY DEF WriteTemporaryFails, CloseFails, RenameFails, SyncDirectoryFails, ReopenFails,
     CompactionSteps, OpeningSteps
<1>2. faults' = faults + 1 /\ crashes' = crashes
  BY DEF WriteTemporaryFails, CloseFails, RenameFails, SyncDirectoryFails, ReopenFails, Fault
<1>3. disk' = disk /\ stale' = stale /\ issued' = issued
  BY DEF WriteTemporaryFails, CloseFails, RenameFails, SyncDirectoryFails, ReopenFails
<1>4. \E usable \in BOOLEAN : CompactFails(usable)
  BY DEF WriteTemporaryFails, CloseFails, RenameFails, SyncDirectoryFails, ReopenFails, Reopens,
     IInv, TypeOK
<1>5. faults' \in Nat /\ crashes' \in Nat
  BY <1>2 DEF IInv, TypeOK
<1> QED
  BY <1>1, <1>3, <1>4, <1>5, CompactFailsPreserves

(* The steps of a compaction that leave memory and queue as they are.      *)
LEMMA CompactionAdvances ==
  ASSUME IInv,
         \/ pc \in CompactionSteps /\ pc' \in CompactionSteps
         \/ pc \in OpeningSteps /\ pc' \in OpeningSteps,
         UNCHANGED <<events, persistedLines, pending, current, history, bounds>>,
         handle' \in BOOLEAN,
         \A d \in stale' \cup {disk'} : FileOK(d) /\ Below(d, issued + 1),
         Durable => \A e \in Promised : Holds(disk', e),
         Durable /\ PowerLoss => \A d \in stale' : \A e \in Promised : Holds(d, e),
         \A i \in 1..Len(pending) : pending[i] # 0 => Below(disk', pending[i])
  PROVE  IInv'
<1> USE DEF history, bounds, CompactionSteps, OpeningSteps
<1>1. /\ Promised' = Promised /\ (Opening' <=> Opening) /\ (Compacting' <=> Compacting)
      /\ pc # "down" /\ pc' # "down"
  BY DEF Promised, Compacting, Opening
<1>2. TypeOK'
  BY DEF IInv, TypeOK, FileOK
<1>3. DiskInv'
  BY <1>1 DEF DiskInv, FileOK, Below, Holds, Kept, LineAt
<1>4. WindowInv'
  BY <1>1 DEF IInv, WindowInv, SnapshotOrdered, InWindow
<1>5. QueueInv'
  BY <1>1 DEF IInv, QueueInv, Newer, Below
<1>6. OperationInv'
  BY <1>1 DEF IInv, OperationInv
<1> QED
  BY <1>2, <1>3, <1>4, <1>5, <1>6 DEF IInv

(* compact: the rewritten file holds what the window holds.                *)
LEMMA CompactionPreserves ==
  IInv /\ (WriteTemporary \/ Rename \/ SyncDirectory \/ Reopen) => IInv'
<1> SUFFICES ASSUME IInv PROVE WriteTemporary \/ Rename \/ SyncDirectory \/ Reopen => IInv'
  OBVIOUS
<1>1. /\ \A d \in stale \cup {disk} : FileOK(d) /\ Below(d, issued + 1)
      /\ Durable => \A e \in Promised : Holds(disk, e)
      /\ Durable /\ PowerLoss => \A d \in stale : \A e \in Promised : Holds(d, e)
      /\ \A i \in 1..Len(pending) : pending[i] # 0 => Below(disk, pending[i])
      /\ Promised \subseteq Event /\ handle \in BOOLEAN
  BY BasicFacts DEF IInv, DiskInv, QueueInv, Newer, TypeOK
<1>2. ASSUME WriteTemporary PROVE IInv'
  <2>1. /\ \/ pc \in CompactionSteps /\ pc' \in CompactionSteps
           \/ pc \in OpeningSteps /\ pc' \in OpeningSteps
        /\ UNCHANGED <<disk, stale>> /\ handle' \in BOOLEAN
        /\ UNCHANGED <<events, persistedLines, pending, current, history, bounds>>
    BY <1>2 DEF WriteTemporary, Opening, CompactionSteps, OpeningSteps
  <2> QED
    BY <1>1, <2>1, CompactionAdvances
<1>3. ASSUME Rename PROVE IInv'
  <2>1. /\ \/ pc \in CompactionSteps /\ pc' \in CompactionSteps
           \/ pc \in OpeningSteps /\ pc' \in OpeningSteps
        /\ disk' = Compacted /\ stale' = stale \cup {disk} /\ handle' \in BOOLEAN
        /\ UNCHANGED <<events, persistedLines, pending, current, history, bounds>>
    BY <1>1, <1>3 DEF Rename, Opening, CompactionSteps, OpeningSteps, memory
  <2>2. /\ FileOK(disk')
        /\ \A n \in Nat : (\A i \in 1..Len(events) : events[i] < n) => Below(disk', n)
        /\ \A a \in Event : InWindow(a, events) => Holds(disk', a)
    BY <2>1, CompactedFile DEF IInv, TypeOK, WindowInv
  <2>3. Below(disk', issued + 1)
    BY <2>2, BasicFacts DEF IInv, WindowInv, Event
  <2>4. \A i \in 1..Len(pending) : pending[i] # 0 => Below(disk', pending[i])
    BY <2>2, BasicFacts DEF IInv, QueueInv, Newer
  <2>5. Durable => \A e \in Promised : Holds(disk', e)
    <3>1. pc # "down"
      BY <2>1 DEF CompactionSteps, OpeningSteps
    <3> QED
      BY <1>1, <2>2, <3>1 DEF IInv, WindowInv
  <2>6. /\ \A d \in stale' \cup {disk'} : FileOK(d) /\ Below(d, issued + 1)
        /\ Durable /\ PowerLoss => \A d \in stale' : \A e \in Promised : Holds(d, e)
    BY <1>1, <2>1, <2>2, <2>3
  <2> QED
    BY <2>1, <2>4, <2>5, <2>6, CompactionAdvances
<1>4. ASSUME SyncDirectory PROVE IInv'
  <2>1. /\ \/ pc \in CompactionSteps /\ pc' \in CompactionSteps
           \/ pc \in OpeningSteps /\ pc' \in OpeningSteps
        /\ disk' = disk /\ stale' = {} /\ handle' \in BOOLEAN
        /\ UNCHANGED <<events, persistedLines, pending, current, history, bounds>>
    BY <1>1, <1>4 DEF SyncDirectory, Opening, CompactionSteps, OpeningSteps, memory
  <2> QED
    BY <1>1, <2>1, CompactionAdvances
<1>5. ASSUME Reopen PROVE IInv'
  <2>1. /\ pc \in {"reopen", "openReopen"} /\ pc' = "idle" /\ current' = 0
        /\ handle' = TRUE /\ persistedLines' = Len(events)
        /\ acked' = IF current = 0 THEN acked ELSE acked \cup {current}
        /\ UNCHANGED <<disk, stale, events, pending, issued, faults, crashes>>
    BY <1>5 DEF Reopen, Resolve, bounds
  <2>2. Promised' = Promised /\ Promised = acked'
    BY <2>1 DEF IInv, OperationInv, Promised, Compacting
  <2>3. TypeOK'
    BY <1>1, <2>1, <2>2, BasicFacts DEF IInv, TypeOK
  <2>4. DiskInv'
    BY <2>1, <2>2, SameDisk, BasicFacts
  <2>5. WindowInv'
    BY <2>1, <2>2 DEF IInv, WindowInv, SnapshotOrdered, InWindow
  <2>6. QueueInv'
    <3>1. ASSUME NEW i \in 1..Len(pending), pending[i] # 0
          PROVE  Newer(pending[i])'
      <4>1. pending[i] \in Nat /\ Newer(pending[i])
        BY <3>1, BasicFacts DEF IInv, QueueInv
      <4>2. current' < pending[i]
        BY <2>1, <3>1, <4>1
      <4> QED
        BY <2>1, <3>1, <4>1, <4>2 DEF Newer, Below
    <3>2. pc' # "down" /\ ~Opening'
      BY <2>1 DEF Opening
    <3> QED
      BY <2>1, <3>1, <3>2 DEF QueueInv, IInv
  <2>7. OperationInv'
    BY <2>1, BasicFacts DEF OperationInv, Compacting
  <2> QED
    BY <2>3, <2>4, <2>5, <2>6, <2>7 DEF IInv
<1> QED
  BY <1>2, <1>3, <1>4, <1>5

(* The end of the process, in order, by a kill or by a power loss.         *)
LEMMA FailuresPreserve == IInv /\ (Stop \/ Kill \/ PowerCut) => IInv'
<1> SUFFICES ASSUME IInv, Stop \/ Kill \/ PowerCut PROVE IInv'
  OBVIOUS
<1>1. /\ Exit /\ issued' = issued /\ acked' = acked
      /\ faults' \in Nat /\ crashes' \in Nat
  BY DEF Stop, Kill, PowerCut, history, bounds, IInv, TypeOK
<1>2. /\ \A d \in stale \cup {disk} : FileOK(d) /\ Below(d, issued + 1)
      /\ Durable => \A e \in Promised : Holds(disk, e)
      /\ Durable /\ PowerLoss => \A d \in stale : \A e \in Promised : Holds(d, e)
      /\ Promised \subseteq Event /\ issued + 1 \in Nat
  BY BasicFacts DEF IInv, DiskInv
<1>3. ASSUME NEW d \in Interrupted
      PROVE  /\ FileOK(d) /\ Below(d, issued + 1)
             /\ Durable => \A e \in Promised : Holds(d, e)
  <2>1. CASE pc = "write"
    <3>1. /\ d \in HalfWritten(disk, current) /\ Below(disk, current)
          /\ current \in Event /\ current < issued + 1
      BY <1>3, <2>1, CurrentFacts DEF Interrupted, IInv, OperationInv
    <3>2. /\ FileOK(d) /\ Below(d, issued + 1)
          /\ \A a \in Event : Holds(disk, a) => Holds(d, a)
      BY <1>2, <3>1, HalfWrittenFile
    <3> QED
      BY <1>2, <3>2
  <2>2. CASE pc # "write"
    BY <1>2, <1>3, <2>2 DEF Interrupted
  <2> QED
    BY <2>1, <2>2
<1>4. ASSUME Stop PROVE IInv'
  <2>1. disk' = disk /\ stale' = stale
    BY <1>4 DEF Stop
  <2> QED
    BY <1>1, <1>2, <2>1, ExitPreserves DEF FileOK
<1>5. ASSUME Kill PROVE IInv'
  <2>1. disk' \in Interrupted /\ stale' = stale
    BY <1>5 DEF Kill
  <2>2. \A d \in stale' \cup {disk'} : FileOK(d) /\ Below(d, issued + 1)
    BY <1>2, <1>3, <2>1
  <2>3. Durable => \A e \in Promised : Holds(disk', e)
    BY <1>3, <2>1
  <2> QED
    BY <1>1, <1>2, <2>1, <2>2, <2>3, ExitPreserves DEF FileOK
<1>6. ASSUME PowerCut PROVE IInv'
  <2>1. PICK d \in Interrupted \cup stale : disk' \in Survivors(d)
    BY <1>6 DEF PowerCut
  <2>2. PowerLoss /\ stale' = {}
    BY <1>6 DEF PowerCut
  <2>3. /\ FileOK(d) /\ Below(d, issued + 1)
        /\ Durable => \A e \in Promised : Holds(d, e)
    BY <1>2, <1>3, <2>1, <2>2
  <2>4. /\ FileOK(disk') /\ Below(disk', issued + 1)
        /\ \A a \in Event : Holds(d, a) => Holds(disk', a)
    BY <1>2, <2>1, <2>2, <2>3, SurvivorsFile
  <2>5. Durable => \A e \in Promised : Holds(disk', e)
    BY <1>2, <2>3, <2>4
  <2>6. disk' \in File /\ stale' \subseteq File
    BY <2>2, <2>4 DEF FileOK
  <2> QED
    BY <1>1, <2>2, <2>4, <2>5, <2>6, ExitPreserves
<1> QED
  BY <1>4, <1>5, <1>6

(* A step that changes nothing.                                            *)
LEMMA StutteringPreserves == IInv /\ UNCHANGED vars => IInv'
<1> SUFFICES ASSUME IInv, UNCHANGED vars PROVE IInv'
  OBVIOUS
<1>1. /\ UNCHANGED <<disk, stale, pc, events, persistedLines, handle, pending, current>>
      /\ UNCHANGED <<issued, acked, faults, crashes>>
  BY DEF vars, memory, history, bounds
<1>2. Promised' = Promised
  BY <1>1 DEF Promised, Compacting
<1>3. DiskInv'
  BY <1>1, <1>2, SameDisk, BasicFacts
<1>4. WindowInv'
  BY <1>1, <1>2 DEF IInv, WindowInv, SnapshotOrdered, InWindow
<1>5. QueueInv'
  BY <1>1 DEF IInv, QueueInv, Newer, Below, Opening
<1> QED
  BY <1>1, <1>3, <1>4, <1>5 DEF IInv, TypeOK, OperationInv, Compacting, Below, Parses

(* Every reachable state of the journal satisfies the invariant.           *)
THEOREM InductiveInvariant == Spec => []IInv
<1>1. IInv /\ [Next]_vars => IInv'
  BY OpenPreserves, RequestsPreserve, StartsPreserve, WritePreserves, DatasyncPreserves,
     CompactionPreserves, CompactionFailuresPreserve, FailuresPreserve, StutteringPreserves
  DEF Next, Step
<1> QED
  BY Initially, <1>1, PTL DEF Spec

-----------------------------------------------------------------------------
(* The size of the file.                                                   *)

(* Between two awaits of compact, before and after the rename.             *)
Rewriting == pc \in {"temporary", "rename", "openTemporary", "openRename"}
Rewritten == pc \in {"directory", "reopen", "openDirectory", "openReopen"}

(* A line that persistedLines does not count is there by a call that       *)
(* failed, or is about to be counted; so the file is compacted before it   *)
(* has more lines than the limit and such calls allow.                     *)
SizeInv ==
  /\ pc # "down" =>
       Len(disk.lines) <= persistedLines + faults + (IF pc = "datasync" THEN 1 ELSE 0)
  /\ pc \in {"idle", "write"} => Len(disk.lines) < CompactionLimit + faults
  /\ pc \in {"datasync", "temporary", "rename"} =>
       Len(disk.lines) <= CompactionLimit + faults
  /\ Rewriting \/ Rewritten => Len(events) <= persistedLines
  /\ Rewritten => Len(disk.lines) = Len(events)

(* A full window is shorter than the limit.                                *)
LEMMA Limit ==
  MaxEvents \in Nat /\ CompactionLimit \in Nat /\ MaxEvents < CompactionLimit
BY MaxEventsAssumption DEF CompactionLimit

(* The numbers are numbers, before a step and after it.                    *)
LEMMA Sizes ==
  ASSUME TypeOK
  PROVE  /\ Len(disk.lines) \in Nat /\ Len(events) \in Nat
         /\ persistedLines \in Nat /\ faults \in Nat
BY DEF TypeOK, File

(* They still are after a step.                                            *)
LEMMA NextSizes ==
  ASSUME TypeOK'
  PROVE  /\ Len(disk'.lines) \in Nat /\ Len(events') \in Nat
         /\ persistedLines' \in Nat /\ faults' \in Nat
BY DEF TypeOK, File

(* An append that was written counts its line, and compacts a long file.   *)
LEMMA RecordedSizes ==
  ASSUME IInv, IInv', Record, faults' = faults,
         Len(disk'.lines) <= persistedLines + faults + 1,
         Len(disk'.lines) <= CompactionLimit + faults
  PROVE  SizeInv'
<1>1. /\ persistedLines' = persistedLines + 1
      /\ \/ persistedLines + 1 >= CompactionLimit /\ pc' = "temporary"
         \/ persistedLines + 1 < CompactionLimit /\ pc' = "idle"
  BY Limit, Sizes DEF Record, Resolve, IInv
<1>2. Len(events') <= MaxEvents /\ Len(events') \in Nat /\ Len(disk'.lines) \in Nat
  BY NextSizes DEF IInv, WindowInv
<1>3. persistedLines \in Nat /\ faults \in Nat
  BY Sizes DEF IInv
<1> QED
  BY <1>1, <1>2, <1>3, Limit DEF SizeInv, Rewriting, Rewritten

(* A step that fails is one fault more, and a failed compaction leaves the *)
(* file that was there or the one it made.                                 *)
LEMMA FailedSizes ==
  ASSUME IInv, IInv', SizeInv, pc' \in {"idle", "down"}, faults' = faults + 1,
         pc # "down", Opening => pc' = "down", Len(disk'.lines) = Len(disk.lines),
         pc' = "idle" => persistedLines' = persistedLines /\ events' = events
  PROVE  SizeInv'
<1>1. /\ Len(disk.lines) \in Nat /\ Len(events) \in Nat /\ Len(events) <= MaxEvents
      /\ persistedLines \in Nat /\ faults \in Nat
  BY Sizes DEF IInv, WindowInv
<1>2. CASE pc' = "down"
  BY <1>2 DEF SizeInv, Rewriting, Rewritten
<1>3. CASE pc' = "idle" /\ pc \in {"idle", "write", "datasync", "temporary", "rename"}
  BY <1>1, <1>3, Limit DEF SizeInv, Rewriting, Rewritten
<1>4. CASE pc' = "idle" /\ Rewritten
  BY <1>1, <1>4, Limit DEF SizeInv, Rewriting, Rewritten
<1> QED
  BY <1>2, <1>3, <1>4 DEF IInv, TypeOK, Opening, Rewritten

(* Nothing is in the file and nothing in the window at first.              *)
LEMMA SizesInitially == Init => SizeInv
BY Limit DEF Init, SizeInv, Rewriting, Rewritten, EmptyFile

(* Every step keeps the sizes.                                             *)
LEMMA SizeStep == IInv /\ IInv' /\ SizeInv /\ [Next]_vars => SizeInv'
<1> SUFFICES ASSUME IInv, IInv', SizeInv, [Next]_vars PROVE SizeInv'
  OBVIOUS
<1>1. /\ Len(disk.lines) \in Nat /\ Len(events) \in Nat /\ Len(events) <= MaxEvents
      /\ persistedLines \in Nat /\ faults \in Nat
  BY Sizes DEF IInv, WindowInv
<1>2. /\ Len(disk'.lines) \in Nat /\ Len(events') \in Nat /\ Len(events') <= MaxEvents
      /\ persistedLines' \in Nat /\ faults' \in Nat
  BY NextSizes DEF IInv, WindowInv
<1>3. CASE UNCHANGED <<disk, events, persistedLines, faults>>
           /\ pc' \in {pc, "down"} \cup (IF pc = "idle" THEN {"write"} ELSE {})
  BY <1>3 DEF SizeInv, Rewriting, Rewritten
<1>4. CASE Exit
  BY <1>4 DEF Exit, SizeInv, Rewriting, Rewritten
<1>5. CASE Open
  <2>1. /\ UNCHANGED <<disk, faults>> /\ pc' \in {"idle", "openTemporary"}
        /\ pc' = "idle" => persistedLines' <= MaxEvents
    BY <1>2, <1>5, Limit DEF Open, bounds
  <2>2. Len(disk.lines) <= persistedLines' /\ Len(events') <= persistedLines'
    BY <1>5, BasicFacts, ReplayedFile DEF Open
  <2> QED
    BY <1>1, <1>2, <2>1, <2>2, Limit DEF SizeInv, Rewriting, Rewritten
<1>6. CASE RequestAppend \/ RequestClose \/ StartAppend \/ StartClose \/ UNCHANGED vars
  BY <1>3, <1>6 DEF RequestAppend, RequestClose, StartAppend, StartClose, vars, memory, bounds
<1>7. CASE Write
  <2>1. Len(disk'.lines) = Len(disk.lines) + 1 /\ pc = "write" /\ faults' = faults
    <3>1. disk \in File /\ Append(disk.tail, current) \in Seq(Piece)
      BY <1>7, CurrentFacts, AppendProperties DEF IInv, TypeOK, File, Write, Piece
    <3>2. Written(disk, current).lines = Append(disk.lines, Append(disk.tail, current))
      BY <3>1 DEF Written, File
    <3> QED
      BY <1>7, <3>1, <3>2, AppendProperties DEF Write, File, bounds
  <2>2. Len(disk'.lines) <= persistedLines + faults + 1 /\ Len(disk'.lines) <= CompactionLimit + faults
    BY <1>1, <2>1, Limit DEF SizeInv
  <2>3. CASE SyncWrites
    <3>1. pc' = "datasync" /\ UNCHANGED <<events, persistedLines>>
      BY <1>7, <2>3 DEF Write, memory
    <3> QED
      BY <1>1, <2>1, <2>2, <3>1 DEF SizeInv, Rewriting, Rewritten
  <2>4. CASE ~SyncWrites
    BY <1>7, <2>1, <2>2, <2>4, RecordedSizes DEF Write
  <2> QED
    BY <2>3, <2>4
<1>8. CASE Datasync
  <2>1. disk'.lines = disk.lines /\ pc = "datasync" /\ faults' = faults
    BY <1>8 DEF Datasync, Synced, IInv, TypeOK, File, bounds
  <2> QED
    BY <1>1, <1>8, <2>1, RecordedSizes DEF SizeInv, Datasync
<1>9. CASE WriteFails \/ DatasyncFails
  <2>1. Len(disk'.lines) = Len(disk.lines)
    <3>1. \A d \in HalfWritten(disk, current) : d.lines = disk.lines
      BY DEF HalfWritten, IInv, TypeOK, File
    <3> QED
      BY <1>9, <3>1 DEF WriteFails, DatasyncFails
  <2> QED
    BY <1>9, <2>1, FailedSizes DEF WriteFails, DatasyncFails, Fault, Reject, Opening, memory
<1>10. CASE WriteTemporary
  BY <1>1, <1>10 DEF WriteTemporary, SizeInv, Rewriting, Rewritten, Opening, bounds
<1>11. CASE Rename
  <2>1. disk'.lines = [i \in DOMAIN events |-> <<events[i]>>] /\ events \in Seq(Event)
    BY <1>11 DEF Rename, Compacted, IInv, TypeOK
  <2>2. Len(disk'.lines) = Len(events)
    BY <2>1
  <2>3. Rewriting /\ Rewritten' /\ UNCHANGED <<events, persistedLines, faults>>
    BY <1>11 DEF Rename, Rewriting, Rewritten, memory, bounds, Opening
  <2> QED
    BY <1>1, <2>2, <2>3 DEF SizeInv, Rewriting, Rewritten
<1>12. CASE SyncDirectory
  BY <1>1, <1>12 DEF SyncDirectory, SizeInv, Rewriting, Rewritten, Opening, memory, bounds
<1>13. CASE Reopen
  BY <1>1, <1>13, Limit DEF Reopen, Resolve, SizeInv, Rewriting, Rewritten, bounds
<1>14. CASE WriteTemporaryFails \/ CloseFails \/ RenameFails \/ SyncDirectoryFails \/ ReopenFails
  <2>1. PICK usable : CompactFails(usable)
    BY <1>14 DEF WriteTemporaryFails, CloseFails, RenameFails, SyncDirectoryFails, ReopenFails
  <2>2. pc # "down" /\ disk' = disk /\ faults' = faults + 1
    BY <1>14 DEF WriteTemporaryFails, CloseFails, RenameFails, SyncDirectoryFails, ReopenFails, Fault
  <2>3. IF Opening THEN pc' = "down"
        ELSE pc' = "idle" /\ UNCHANGED <<events, persistedLines>>
    BY <2>1 DEF CompactFails, Exit, Reject
  <2> QED
    BY <2>2, <2>3, FailedSizes
<1>15. CASE Stop \/ Kill \/ PowerCut
  BY <1>4, <1>15 DEF Stop, Kill, PowerCut
<1> QED
  BY <1>5, <1>6, <1>7, <1>8, <1>9, <1>10, <1>11, <1>12, <1>13, <1>14, <1>15 DEF Next, Step

-----------------------------------------------------------------------------
(* The theorems.                                                           *)

(* Every variable of the journal keeps its type.                           *)
THEOREM TypeCorrect == Spec => []TypeOK
<1>1. IInv => TypeOK
  BY DEF IInv
<1> QED
  BY <1>1, InductiveInvariant, PTL

(* Snapshots list events in the order of their append calls, each once.    *)
THEOREM SnapshotsAreOrdered == Spec => []SnapshotOrdered
<1>1. IInv => SnapshotOrdered
  BY DEF IInv, WindowInv
<1> QED
  BY <1>1, InductiveInvariant, PTL

(* With synced writes (or where only the process can fail), an event whose *)
(* append resolved is in every later snapshot, or MaxEvents later ones are: *)
(* for any window, any failing calls and any number of crashes.            *)
THEOREM AcknowledgedEventsSurvive ==
  ASSUME SyncWrites \/ ~PowerLoss
  PROVE  Spec => []AckedSurvives
<1>1. IInv => AckedSurvives
  BY DEF IInv, WindowInv, Durable, AckedSurvives, Promised
<1> QED
  BY <1>1, InductiveInvariant, PTL

(* For any window, crashes and failing calls: between operations the file  *)
(* has fewer lines than the compaction limit, but for one more for every   *)
(* call that failed.                                                       *)
THEOREM FileStaysBounded == Spec => []JournalBounded
<1>1. Init => IInv /\ SizeInv
  BY Initially, SizesInitially
<1>2. SizeInv => JournalBounded
  BY DEF SizeInv, JournalBounded
<1> QED
  BY <1>1, <1>2, InductiveInvariant, SizeStep, PTL DEF Spec

-----------------------------------------------------------------------------
(* The journal implements DurableLog: every step of it, of its faults and  *)
(* of its crashes issues, admits or acknowledges an event, fails, recovers,*)
(* or cannot be seen.                                                      *)

(* An abstract step, or none.                                              *)
Visible == Log!Next \/ UNCHANGED Log!vars

(* What neither the window nor a caller sees.                              *)
LEMMA Unseen ==
  ASSUME pc # "down", pc' # "down", UNCHANGED <<events, issued, acked>>
  PROVE  Visible
BY DEF Visible, Log!vars

(* The process is gone, and the window with it.                            *)
LEMMA Fails ==
  ASSUME Exit, UNCHANGED <<issued, acked>>
  PROVE  Visible
BY DEF Visible, Exit, Log!Next, Log!Fail

(* The window slides as the log says.                                      *)
LEMMA Slides ==
  ASSUME events \in Seq(Event), Len(events) <= MaxEvents, NEW e \in Event
  PROVE  Newest(Append(events, e), MaxEvents) =
           IF Len(Append(events, e)) <= MaxEvents THEN Append(events, e)
           ELSE Tail(Append(events, e))
<1> DEFINE all == Append(events, e)
<1>1. all \in Seq(Event) /\ all # <<>> /\ Len(all) = Len(events) + 1 /\ Len(events) \in Nat
  BY AppendProperties
<1> SUFFICES Newest(all, MaxEvents) = IF Len(all) <= MaxEvents THEN all ELSE Tail(all)
  OBVIOUS
<1> HIDE DEF all
<1>2. CASE Len(all) <= MaxEvents
  BY <1>2 DEF Newest
<1>3. CASE ~(Len(all) <= MaxEvents)
  <2>1. Len(all) - MaxEvents + 1 = 2
    BY <1>1, <1>3, MaxEventsAssumption
  <2>2. Tail(all) = SubSeq(all, 2, Len(all))
    BY <1>1, TailIsSubSeq
  <2> QED
    BY <1>3, <2>1, <2>2 DEF Newest
<1> QED
  BY <1>2, <1>3

(* The end of a successful write admits the event, and acknowledges it     *)
(* unless a compaction comes first.                                        *)
LEMMA Records ==
  ASSUME IInv, pc \in {"write", "datasync"}, Record
  PROVE  Visible
<1>1. /\ current \in Event /\ current \in 1..issued /\ Len(events) <= MaxEvents
      /\ events \in Seq(Event) /\ \A i \in 1..Len(events) : events[i] < current
  BY DEF IInv, OperationInv, WindowInv, TypeOK, Event
<1>2. /\ events' = Newest(Append(events, current), MaxEvents)
      /\ pc' # "down" /\ pc # "down" /\ issued' = issued
      /\ acked' \in {acked, acked \cup {current}}
  BY DEF Record, Resolve
<1>3. DOMAIN events = 1..Len(events)
  BY <1>1
<1>4. Log!Admit(current)
  BY <1>1, <1>2, <1>3, Slides DEF Log!Admit
<1> QED
  BY <1>1, <1>4 DEF Visible, Log!Next

(* The end of a compaction acknowledges the append that it was part of,    *)
(* whose event the window shows.                                           *)
LEMMA Acknowledges ==
  ASSUME IInv, Durable, Reopen
  PROVE  Visible
<1>1. /\ pc \in {"reopen", "openReopen"} /\ pc' # "down"
      /\ UNCHANGED <<events, issued>>
      /\ acked' = IF current = 0 THEN acked ELSE acked \cup {current}
  BY DEF Reopen, Resolve
<1>2. CASE current = 0
  BY <1>1, <1>2, Unseen
<1>3. CASE current # 0
  <2>1. Compacting /\ current \in 1..issued
    BY <1>1, <1>3 DEF IInv, OperationInv, TypeOK, Compacting
  <2>2. InWindow(current, events)
    BY <1>1, <2>1 DEF IInv, WindowInv, Promised
  <2>3. Log!Acknowledge(current)
    BY <1>1, <1>3, <2>2 DEF InWindow, Log!Acknowledge, Log!Shows
  <2> QED
    BY <2>1, <2>3 DEF Visible, Log!Next
<1> QED
  BY <1>2, <1>3

(* Startup shows what was acknowledged, in order.                          *)
LEMMA Recovers ==
  ASSUME IInv, Durable, Open
  PROVE  Visible
<1>1. IInv'
  BY OpenPreserves
<1>2. pc = "down" /\ pc' # "down" /\ UNCHANGED <<issued, acked>>
  BY DEF Open, history
<1>3. /\ events' \in Seq(Event) /\ Len(events') <= MaxEvents
      /\ \A i \in 1..Len(events') : events'[i] <= issued'
      /\ DOMAIN events' = 1..Len(events') /\ issued \in Nat
  BY <1>1 DEF IInv, TypeOK, WindowInv
<1>4. events' \in Seq(1..issued)
  <2>1. \A i \in 1..Len(events') : events'[i] \in 1..issued
    BY <1>2, <1>3 DEF Event
  <2> QED
    BY <1>3, <2>1
<1>5. Log!Increasing(events')
  BY <1>1 DEF IInv, WindowInv, SnapshotOrdered, Log!Increasing
<1>6. \A e \in acked : Log!Shows(events', e)
  <2>1. \A e \in acked' : InWindow(e, events)'
    BY <1>1, <1>2 DEF IInv, WindowInv, Promised, Durable
  <2> QED
    BY <1>2, <2>1 DEF InWindow, Log!Shows
<1>7. Log!Recover
  BY <1>2, <1>3, <1>4, <1>5, <1>6 DEF Log!Recover
<1> QED
  BY <1>7 DEF Visible, Log!Next

(* A failed append or compaction is not seen, or ends the process.         *)
LEMMA CompactionFails ==
  ASSUME pc # "down", NEW usable, CompactFails(usable), UNCHANGED issued
  PROVE  Visible
<1>1. CASE Opening
  BY <1>1, Fails DEF CompactFails
<1>2. CASE ~Opening
  BY <1>2, Unseen DEF CompactFails, Reject
<1> QED
  BY <1>1, <1>2

(* Every step of the journal, its faults and its crashes.                  *)
LEMMA Steps == Durable /\ IInv /\ [Next]_vars => Visible
<1> SUFFICES ASSUME Durable, IInv, [Next]_vars PROVE Visible
  OBVIOUS
<1>1. CASE Open
  BY <1>1, Recovers
<1>2. CASE RequestAppend
  <2>1. Log!Issue
    BY <1>2 DEF RequestAppend, Log!Issue
  <2> QED
    BY <2>1 DEF Visible, Log!Next
<1>3. CASE RequestClose \/ StartAppend \/ StartClose
  BY <1>3, Unseen DEF RequestClose, StartAppend, StartClose, history
<1>4. CASE Write
  <2>1. CASE SyncWrites
    BY <1>4, <2>1, Unseen DEF Write, memory, history
  <2>2. CASE ~SyncWrites
    BY <1>4, <2>2, Records DEF Write
  <2> QED
    BY <2>1, <2>2
<1>5. CASE Datasync
  BY <1>5, Records DEF Datasync
<1>6. CASE WriteFails \/ DatasyncFails
  BY <1>6, Unseen DEF WriteFails, DatasyncFails, Reject
<1>7. CASE WriteTemporary \/ Rename \/ SyncDirectory
  BY <1>7, Unseen DEF WriteTemporary, Rename, SyncDirectory, memory, history, Opening
<1>8. CASE WriteTemporaryFails \/ CloseFails \/ RenameFails \/ SyncDirectoryFails \/ ReopenFails
  BY <1>8, CompactionFails DEF WriteTemporaryFails, CloseFails, RenameFails, SyncDirectoryFails, ReopenFails
<1>9. CASE Reopen
  BY <1>9, Acknowledges
<1>10. CASE Stop \/ Kill \/ PowerCut
  BY <1>10, Fails DEF Stop, Kill, PowerCut, history
<1>11. CASE UNCHANGED vars
  BY <1>11 DEF vars, memory, history, Visible, Log!vars
<1> QED
  BY <1>1, <1>2, <1>3, <1>4, <1>5, <1>6, <1>7, <1>8, <1>9, <1>10, <1>11 DEF Next, Step

(* With synced writes (or where only the process can fail) the journal is  *)
(* a durable log: its window only grows by newer events while it is up,    *)
(* and what it shows after a restart holds all that was acknowledged.      *)
THEOREM JournalIsDurable ==
  ASSUME SyncWrites \/ ~PowerLoss
  PROVE  Spec => ImplementsDurableLog
<1>1. Init => Log!Init
  BY DEF Init, Log!Init
<1>2. IInv /\ [Next]_vars => [Log!Next]_(Log!vars)
  BY Steps DEF Durable, Visible
<1> QED
  BY <1>1, <1>2, InductiveInvariant, PTL DEF Spec, ImplementsDurableLog, Log!Spec
=============================================================================
