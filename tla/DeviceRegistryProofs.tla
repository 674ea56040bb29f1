------------------------ MODULE DeviceRegistryProofs ------------------------
(***************************************************************************)
(* Proofs about DeviceRegistry: its types, and that it implements          *)
(* DeviceGrants, for every set of devices and any number of writes.        *)
(***************************************************************************)
EXTENDS DeviceRegistry, TLAPS

(* The inductive invariant.  A device's standing can only grow, and it     *)
(* grows first in memory, then in what is written, then in the file, and   *)
(* last in what was reported.  A write that waits reports no more than     *)
(* memory has; once it writes, no more than it writes; and once it has     *)
(* replaced the file, no more than the file has.                           *)

Behind(f, g) == \A d \in Devices : f[d] <= g[d]

Reported(r, f) == r.standing <= f[r.device]

MemoryInv ==
  /\ up => Behind(file, devices)
  /\ ~up => persists = <<>> /\ phase = "mkdir"
  /\ \A i \in 1..Len(persists) : Reported(persists[i], devices)

WriteInv ==
  /\ phase = "writeFile" =>
       Behind(file, payload) /\ Behind(payload, devices) /\ Reported(persists[1], payload)
  /\ phase = "rename" => Reported(persists[1], file)

IInv == RegistryTypeOK /\ Behind(told, file) /\ MemoryInv /\ WriteInv

Record == [device : Devices, standing : Standing]

-----------------------------------------------------------------------------
(* Lemmas.                                                                 *)

(* Taking the first element of a queue, and adding at its end.             *)
LEMMA Queue ==
  ASSUME NEW S, NEW s \in Seq(S)
  PROVE  /\ Len(s) \in Nat /\ \A i \in 1..Len(s) : s[i] \in S
         /\ s # <<>> => /\ Head(s) = s[1] /\ 1 \in 1..Len(s)
                        /\ Tail(s) \in Seq(S) /\ Len(Tail(s)) = Len(s) - 1
                        /\ \A i \in 1..Len(Tail(s)) : i + 1 \in 1..Len(s) /\ Tail(s)[i] = s[i + 1]
         /\ \A t \in Seq(S) :
              /\ s \o t \in Seq(S) /\ Len(t) \in Nat /\ Len(s \o t) = Len(s) + Len(t)
              /\ \A i \in 1..Len(s) : (s \o t)[i] = s[i]
              /\ \A i \in Len(s) + 1..Len(s) + Len(t) : (s \o t)[i] = t[i - Len(s)]
         /\ s = <<>> <=> Len(s) = 0
  OBVIOUS

(* Standings are compared like the numbers they are.                       *)
LEMMA Standings == Standing = 0..2 /\ Unknown = 0 /\ Paired = 1 /\ Revoked = 2
  BY DEF Standing, Unknown, Paired, Revoked

(* A registry without a record is one.                                     *)
LEMMA NoneKnown == NoRecords \in Records /\ Behind(NoRecords, NoRecords) /\ <<>> \in Seq(Record)
  BY Standings DEF NoRecords, Records, Behind

(* What is behind f is behind all that f is behind.                        *)
LEMMA Transitive ==
  ASSUME NEW f \in Records, NEW g \in Records, NEW h \in Records, Behind(f, g), Behind(g, h)
  PROVE  Behind(f, h)
<1> SUFFICES ASSUME NEW d \in Devices PROVE f[d] <= h[d]
  BY DEF Behind
<1>1. f[d] \in 0..2 /\ g[d] \in 0..2 /\ h[d] \in 0..2
  BY Standings DEF Records
<1>2. f[d] <= g[d] /\ g[d] <= h[d]
  BY DEF Behind
<1> QED
  BY <1>1, <1>2

(* So is a report of what f has.                                           *)
LEMMA ReportedToo ==
  ASSUME NEW r \in Record, NEW f \in Records, NEW g \in Records, Reported(r, f), Behind(f, g)
  PROVE  Reported(r, g)
<1>1. r.device \in Devices /\ r.standing \in 0..2
  BY Standings DEF Record
<1>2. f[r.device] \in 0..2 /\ g[r.device] \in 0..2 /\ f[r.device] <= g[r.device]
  BY <1>1, Standings DEF Records, Behind
<1> QED
  BY <1>1, <1>2 DEF Reported

(* What was true of the reports stays so when standings grow and reports   *)
(* of what is there are added.                                             *)
LEMMA Enqueued ==
  ASSUME IInv, NEW reports \in Seq(Record), up,
         devices' \in Records, Behind(devices, devices'),
         \A i \in 1..Len(reports) : Reported(reports[i], devices'),
         persists' = persists \o reports,
         UNCHANGED <<up, writeVars, told>>
  PROVE  IInv'
<1> USE DEF IInv
<1>0. persists \in Seq(Record) /\ file \in Records /\ told \in Records /\ devices \in Records
      /\ payload \in Records
  BY DEF RegistryTypeOK, Record
<1>1. persists' \in Seq(Record) /\ (persists # <<>> => persists' # <<>> /\ persists'[1] = persists[1])
  BY <1>0, Queue
<1>2. RegistryTypeOK'
  BY <1>1 DEF RegistryTypeOK, writeVars, Record
<1>3. Behind(told, file)'
  BY DEF Behind, writeVars
<1>4. ASSUME NEW f \in Records, Behind(f, devices)
      PROVE  Behind(f, devices')
  BY <1>0, <1>4, Transitive
<1>5. MemoryInv'
  <2>1. Behind(file, devices')
    BY <1>0, <1>4 DEF MemoryInv
  <2>2. ASSUME NEW i \in 1..Len(persists')
        PROVE  Reported(persists'[i], devices')
    <3>1. CASE i \in 1..Len(persists)
      <4>1. persists'[i] = persists[i] /\ persists[i] \in Record
        BY <3>1, <1>0, Queue
      <4>2. Reported(persists[i], devices)
        BY <3>1 DEF MemoryInv
      <4> QED
        BY <4>1, <4>2, <1>0, ReportedToo
    <3>2. CASE i \in Len(persists) + 1..Len(persists) + Len(reports)
      <4>1. persists'[i] = reports[i - Len(persists)] /\ i - Len(persists) \in 1..Len(reports)
        BY <3>2, <1>0, Queue
      <4> QED
        BY <4>1
    <3>3. Len(persists') = Len(persists) + Len(reports) /\ {Len(persists), Len(reports)} \subseteq Nat
      BY <1>0, Queue
    <3> QED
      BY <2>2, <3>1, <3>2, <3>3
  <2> QED
    BY <2>1, <2>2 DEF MemoryInv, Behind, writeVars
<1>6. WriteInv'
  <2>1. phase # "mkdir" => persists # <<>> /\ persists'[1] = persists[1]
    BY <1>1 DEF RegistryTypeOK
  <2>2. phase = "writeFile" => Behind(payload, devices')
    BY <1>0, <1>4 DEF WriteInv
  <2> QED
    BY <2>1, <2>2 DEF WriteInv, Behind, Reported, writeVars
<1> QED
  BY <1>2, <1>3, <1>5, <1>6

(* What verify enqueues reports nothing.                                   *)
LEMMA SeenReports ==
  ASSUME NEW caller \in Devices \cup {Shared}, NEW f \in Records
  PROVE  /\ Seen(caller) \in Seq(Record) /\ Len(Seen(caller)) \in {0, 1}
         /\ \A i \in 1..Len(Seen(caller)) : Reported(Seen(caller)[i], f)
<1>1. CASE caller = Shared
  BY <1>1 DEF Seen
<1>2. CASE caller # Shared
  <2>1. Report(caller, Unknown) \in Record /\ Reported(Report(caller, Unknown), f)
    BY <1>2, Standings DEF Report, Record, Reported, Records
  <2>2. Seen(caller) = <<Report(caller, Unknown)>>
    BY <1>2 DEF Seen
  <2> QED
    BY <2>1, <2>2
<1> QED
  BY <1>1, <1>2

(* The end of a write: the next may begin.                                 *)
LEMMA Ended ==
  ASSUME IInv, persists # <<>>, NextWrite, told' \in Records, Behind(told', file)
  PROVE  IInv'
<1> USE DEF IInv, Record
<1>0. persists \in Seq(Record) /\ up
  BY DEF RegistryTypeOK, MemoryInv
<1>1. persists' \in Seq(Record) /\ Len(persists') = Len(persists) - 1
      /\ \A i \in 1..Len(persists') : i + 1 \in 1..Len(persists) /\ persists'[i] = persists[i + 1]
  BY <1>0, Queue DEF NextWrite
<1>2. RegistryTypeOK'
  BY <1>1, Standings DEF RegistryTypeOK, NextWrite, NoRecords, Records
<1>3. Behind(told, file)'
  BY DEF NextWrite, Behind
<1>4. MemoryInv'
  BY <1>0, <1>1 DEF MemoryInv, NextWrite, Behind, Reported
<1>5. WriteInv'
  BY DEF WriteInv, NextWrite
<1> QED
  BY <1>2, <1>3, <1>4, <1>5

-----------------------------------------------------------------------------
(* Every step keeps the invariant.                                         *)

(* Nothing is known and nothing was reported at first.                     *)
LEMMA InitInv == RegistryInit => IInv
<1> SUFFICES ASSUME RegistryInit PROVE IInv
  OBVIOUS
<1>1. RegistryTypeOK
  BY NoneKnown DEF RegistryInit, RegistryTypeOK, Record
<1>2. Behind(told, file)
  BY NoneKnown DEF RegistryInit
<1>3. MemoryInv /\ WriteInv
  BY DEF RegistryInit, MemoryInv, WriteInv
<1> QED
  BY <1>1, <1>2, <1>3 DEF IInv

(* Every await, write, failure and kill keeps the order: what was reported *)
(* is behind the file, the file behind what is written, that behind memory. *)
LEMMA StepInv ==
  ASSUME IInv, [RegistryNext]_registryVars
  PROVE  IInv'
<1>0. persists \in Seq(Record) /\ file \in Records /\ told \in Records /\ devices \in Records
      /\ payload \in Records
  BY DEF IInv, RegistryTypeOK, Record
<1>1. CASE Open
  <2>1. Behind(file, file)
    BY <1>0, Standings DEF Behind, Records
  <2> QED
    BY <1>1, <1>0, <2>1
    DEF Open, IInv, RegistryTypeOK, MemoryInv, WriteInv, Behind, Reported, writeVars
<1>2. CASE TakePayload
  <2>1. up /\ 1 \in 1..Len(persists)
    BY <1>2, <1>0, Queue DEF TakePayload, IInv, MemoryInv
  <2>2. Behind(devices, devices)
    BY <1>0, Standings DEF Behind, Records
  <2>3. WriteInv'
    BY <1>2, <2>1, <2>2 DEF TakePayload, IInv, MemoryInv, WriteInv, Behind, Reported
  <2> QED
    BY <1>2, <2>3 DEF TakePayload, IInv, RegistryTypeOK, MemoryInv, Behind, Reported
<1>3. CASE Rename
  <2>1. Behind(told, payload)
    BY <1>3, <1>0, Transitive DEF Rename, IInv, WriteInv
  <2> QED
    BY <1>3, <1>0, <2>1
    DEF Rename, IInv, RegistryTypeOK, MemoryInv, WriteInv, Behind, Reported
<1>4. CASE Persisted
  <2>1. persists # <<>> /\ Head(persists) \in Record /\ Reported(Head(persists), file)
    BY <1>4, <1>0, Queue DEF Persisted, IInv, RegistryTypeOK, WriteInv
  <2>2. told' \in Records /\ Behind(told', file)
    BY <1>4, <1>0, <2>1 DEF Persisted, Tell, Behind, Reported, Record, Records, IInv
  <2> QED
    BY <1>4, <2>1, <2>2, Ended DEF Persisted
<1>5. CASE PersistFails
  BY <1>5, <1>0, Ended DEF PersistFails, IInv
<1>6. CASE Killed
  <2>1. RegistryTypeOK'
    BY <1>6, <1>0, NoneKnown DEF Killed, RegistryTypeOK, Record
  <2>2. MemoryInv' /\ WriteInv'
    BY <1>6 DEF Killed, MemoryInv, WriteInv
  <2> QED
    BY <1>6, <2>1, <2>2 DEF Killed, IInv, Behind
<1>7. ASSUME NEW d \in Devices, Issue(d)
      PROVE  IInv'
  <2>1. devices' \in Records /\ Behind(devices, devices')
    BY <1>7, <1>0, Standings DEF Issue, Records, Behind
  <2>2. Report(d, Paired) \in Record /\ Reported(Report(d, Paired), devices')
    BY <1>7, <1>0, Standings DEF Issue, Report, Record, Reported, Records
  <2>3. /\ <<Report(d, Paired)>> \in Seq(Record)
        /\ \A i \in 1..Len(<<Report(d, Paired)>>) : Reported(<<Report(d, Paired)>>[i], devices')
    BY <2>2
  <2> QED
    BY <1>7, <2>1, <2>3, Enqueued DEF Issue, enqueuePersist
<1>8. ASSUME NEW d \in Devices, Verify(d)
      PROVE  IInv'
  <2>1. Behind(devices, devices') /\ devices' \in Records
    BY <1>8, <1>0, Standings DEF Verify, Behind, Records
  <2>2. /\ Seen(d) \in Seq(Record)
        /\ \A i \in 1..Len(Seen(d)) : Reported(Seen(d)[i], devices')
    BY <2>1, SeenReports
  <2>3. up /\ persists' = persists \o Seen(d) /\ UNCHANGED <<up, writeVars, told>>
    BY <1>8 DEF Verify, enqueuePersist
  <2> QED
    BY <2>1, <2>2, <2>3, Enqueued
<1>9. ASSUME NEW caller \in Devices \cup {Shared}, NEW d \in Devices, Revoke(caller, d)
      PROVE  IInv'
  <2>1. devices' \in Records /\ Behind(devices, devices')
    <3>1. devices' = [devices EXCEPT ![d] = Revoked] /\ devices \in [Devices -> 0..2]
      BY <1>9, <1>0, Standings DEF Revoke, Records
    <3>2. devices' \in [Devices -> 0..2]
      BY <3>1, Standings
    <3>3. \A e \in Devices : devices[e] <= devices'[e]
      BY <3>1, Standings
    <3> QED
      BY <3>2, <3>3, Standings DEF Records, Behind
  <2>2. Report(d, Revoked) \in Record /\ Reported(Report(d, Revoked), devices')
    BY <1>9, <1>0, Standings DEF Revoke, Report, Record, Reported, Records
  <2>3. /\ Seen(caller) \o <<Report(d, Revoked)>> \in Seq(Record)
        /\ \A i \in 1..Len(Seen(caller) \o <<Report(d, Revoked)>>) :
             Reported((Seen(caller) \o <<Report(d, Revoked)>>)[i], devices')
    BY <2>1, <2>2, SeenReports
  <2> QED
    BY <1>9, <2>1, <2>3, Enqueued DEF Revoke, enqueuePersist
<1>10. CASE UNCHANGED registryVars
  BY <1>10
  DEF registryVars, IInv, RegistryTypeOK, MemoryInv, WriteInv, Behind, Reported
<1> QED
  BY <1>1, <1>2, <1>3, <1>4, <1>5, <1>6, <1>7, <1>8, <1>9, <1>10 DEF RegistryNext

-----------------------------------------------------------------------------
(* Theorems.                                                               *)

(* The invariant is one.                                                   *)
THEOREM InductiveInvariant == RegistrySpec => []IInv
  BY InitInv, StepInv, PTL DEF RegistrySpec

(* Every variable of the registry keeps its type.                          *)
THEOREM TypeCorrect == RegistrySpec => []RegistryTypeOK
<1>1. IInv => RegistryTypeOK
  BY DEF IInv
<1> QED
  BY <1>1, InductiveInvariant, PTL

(* A step of the registry is one of the grants, or none.                   *)
LEMMA StepRefines ==
  ASSUME IInv, [RegistryNext]_registryVars
  PROVE  [Grants!Next]_(Grants!vars)
<1> DEFINE standing == IF up THEN devices ELSE file
<1> USE DEF Grants!vars
<1>0. persists \in Seq(Record) /\ file \in Records /\ told \in Records /\ devices \in Records
      /\ payload \in Records
  BY DEF IInv, RegistryTypeOK, Record
<1>1. phase # "mkdir" \/ persists # <<>> => up
  BY DEF IInv, MemoryInv
<1>2. CASE Open
  BY <1>2 DEF Open, Grants!Next, Grants!Recover
<1>3. CASE TakePayload \/ Rename \/ PersistFails
  BY <1>1, <1>3 DEF TakePayload, Rename, PersistFails, NextWrite
<1>4. CASE Persisted
  <2> DEFINE r == Head(persists)
  <2>1. persists # <<>> /\ up
    BY <1>1, <1>4 DEF Persisted, IInv, RegistryTypeOK
  <2>2. r \in Record /\ Reported(r, devices)
    BY <1>0, <2>1, Queue DEF IInv, MemoryInv
  <2>3. CASE r.standing > told[r.device]
    <3>1. told' = [told EXCEPT ![r.device] = r.standing]
      BY <2>3, <1>4 DEF Persisted, Tell
    <3>2. r.standing \in Grants!Standing /\ r.device \in Devices
      BY <2>2 DEF Record, Standing, Unknown, Paired, Revoked,
         Grants!Standing, Grants!Unknown, Grants!Paired, Grants!Revoked
    <3>3. told[r.device] < r.standing /\ r.standing <= devices[r.device]
      BY <2>2, <2>3 DEF Reported
    <3>4. Grants!Tell(r.device)
      BY <2>1, <3>1, <3>2, <3>3, <1>4 DEF Grants!Tell, Persisted, NextWrite
    <3> QED
      BY <3>2, <3>4 DEF Grants!Next
  <2>4. CASE ~(r.standing > told[r.device])
    BY <2>1, <2>4, <1>0, <1>4 DEF Persisted, Tell, NextWrite, Records
  <2> QED
    BY <2>3, <2>4
<1>6. CASE Killed
  <2>1. standing' = file /\ standing = devices
    BY <1>6 DEF Killed
  <2>2. Behind(told, file) /\ Behind(file, devices)
    BY <1>6 DEF Killed, IInv, MemoryInv
  <2>3. file \in [Devices -> Grants!Standing]
    BY <1>0 DEF Records, Standing, Unknown, Paired, Revoked,
       Grants!Standing, Grants!Unknown, Grants!Paired, Grants!Revoked
  <2> QED
    BY <1>6, <2>1, <2>2, <2>3 DEF Killed, Behind, Grants!Next, Grants!Fail
<1>7. ASSUME NEW d \in Devices, Issue(d)
      PROVE  Grants!Advance(d)
  BY <1>7, <1>0, Standings DEF Issue, Grants!Advance, Grants!Standing, Grants!Paired,
     Grants!Unknown, Grants!Revoked
<1>8. ASSUME NEW d \in Devices, Verify(d)
      PROVE  UNCHANGED Grants!vars
  BY <1>8 DEF Verify
<1>9. ASSUME NEW caller \in Devices \cup {Shared}, NEW d \in Devices, Revoke(caller, d)
      PROVE  Grants!Advance(d) \/ UNCHANGED Grants!vars
  <2>1. devices[d] \in {Paired, Revoked}
    BY <1>9, <1>0 DEF Revoke, Records, Standing
  <2>2. CASE devices[d] = Paired
    BY <2>2, <1>9, <1>0 DEF Revoke, Records, Paired, Revoked, Grants!Advance, Grants!Standing,
       Grants!Paired, Grants!Unknown, Grants!Revoked
  <2>3. CASE devices[d] = Revoked
    <3>1. devices' = devices
      BY <2>3, <1>9, <1>0 DEF Revoke, Records
    <3> QED
      BY <3>1, <1>9 DEF Revoke
  <2> QED
    BY <2>1, <2>2, <2>3
<1>10. CASE UNCHANGED registryVars
  BY <1>10 DEF registryVars
<1> QED
  BY <1>2, <1>3, <1>4, <1>6, <1>7, <1>8, <1>9, <1>10 DEF RegistryNext, Grants!Next

(* Whatever write fails and whenever the relay is killed, what a caller    *)
(* was told of a device is there ever after.                               *)
THEOREM RegistryImplementsGrants == RegistrySpec => ImplementsDeviceGrants
<1>1. RegistryInit => Grants!Init
  BY DEF RegistryInit, Grants!Init, NoRecords, Unknown, Grants!Unknown
<1> QED
  BY <1>1, StepRefines, InductiveInvariant, PTL
  DEF RegistrySpec, ImplementsDeviceGrants, Grants!Spec
=============================================================================
