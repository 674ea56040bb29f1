--------------------------- MODULE DeviceRegistry ---------------------------
(***************************************************************************)
(* The registry of paired devices (apps/relay/src/device-registry.ts): a   *)
(* map in memory, changed at once, and a file that a queue of writes makes *)
(* follow it.  A caller hears of a change when its write has ended.        *)
(*                                                                         *)
(* A record is the device's standing; names, keys and times never change   *)
(* it.  Writes are not synced: what a power loss does to the file is out   *)
(* of this model, in which the process may be killed at any time.          *)
(***************************************************************************)
EXTENDS Naturals, Sequences

CONSTANT Devices    \* the ids randomBytes may yield

Shared == 0         \* the caller with the shared token, which is no device
ASSUME DevicesAssumption == Shared \notin Devices

Unknown == 0        \* no record
Paired  == 1
Revoked == 2        \* a record with revokedAt
Standing == {Unknown, Paired, Revoked}

NoRecords == [d \in Devices |-> Unknown]

VARIABLES
  up,        \* a registry is open
  devices,   \* this.devices
  persists,  \* persistQueue: per write not ended, the device and standing to report
  phase,     \* of the first write: "mkdir", "writeFile" or "rename" once it is done
  payload,   \* what the first write writes
  file,      \* the records in the file
  told       \* history: the furthest standing of each device reported to a caller

registryVars == <<up, devices, persists, phase, payload, file, told>>
writeVars    == <<phase, payload, file>>

Report(d, s) == [device |-> d, standing |-> s]

(* lastSeenAt changes and is written, and nobody waits for it.             *)
Seen(caller) == IF caller = Shared THEN <<>> ELSE <<Report(caller, Unknown)>>

RegistryInit ==
  /\ up = FALSE /\ devices = NoRecords
  /\ persists = <<>> /\ phase = "mkdir" /\ payload = NoRecords
  /\ file = NoRecords /\ told = NoRecords

(* open: a missing file is as good as one without records.                 *)
Open ==
  /\ ~up
  /\ up' = TRUE
  /\ devices' = file
  /\ UNCHANGED <<persists, writeVars, told>>

enqueuePersist(reports) == persists' = persists \o reports

Issue(d) ==
  /\ up
  /\ devices[d] = Unknown
  /\ devices' = [devices EXCEPT ![d] = Paired]
  /\ enqueuePersist(<<Report(d, Paired)>>)
  /\ UNCHANGED <<up, writeVars, told>>

Admitted(caller) == caller # Shared => devices[caller] = Paired

(* The shared token never reaches verify.                                  *)
Verify(caller) ==
  /\ up
  /\ Admitted(caller)
  /\ enqueuePersist(Seen(caller))
  /\ UNCHANGED <<up, devices, writeVars, told>>

(* A request that verify has let in may revoke any device, also again.     *)
Revoke(caller, d) ==
  /\ up
  /\ Admitted(caller)
  /\ devices[d] # Unknown
  /\ devices' = [devices EXCEPT ![d] = Revoked]
  /\ enqueuePersist(Seen(caller) \o <<Report(d, Revoked)>>)
  /\ UNCHANGED <<up, writeVars, told>>

-----------------------------------------------------------------------------
(* persist: the first of the queue runs.                                   *)

TakePayload ==
  /\ persists # <<>> /\ phase = "mkdir"
  /\ phase' = "writeFile"
  /\ payload' = devices
  /\ UNCHANGED <<up, devices, persists, file, told>>

Rename ==
  /\ phase = "writeFile"
  /\ phase' = "rename"
  /\ file' = payload
  /\ UNCHANGED <<up, devices, persists, payload, told>>

NextWrite ==
  /\ persists' = Tail(persists)
  /\ phase' = "mkdir"
  /\ payload' = NoRecords
  /\ UNCHANGED <<up, devices, file>>

Tell(d, s) == told' = [told EXCEPT ![d] = IF s > @ THEN s ELSE @]

(* The promise of the write is fulfilled, and the caller answers.          *)
Persisted ==
  /\ phase = "rename"
  /\ NextWrite
  /\ Tell(Head(persists).device, Head(persists).standing)

(* Mutant: a failed write counts as done.                                  *)
PersistFails_Swallowed ==
  /\ persists # <<>> /\ phase \in {"mkdir", "writeFile"}
  /\ NextWrite
  /\ Tell(Head(persists).device, Head(persists).standing)

(* mkdir, writeFile or rename rejects: the caller gets the error, the map  *)
(* keeps the change, and the next write goes ahead.                        *)
PersistFails ==
  /\ persists # <<>> /\ phase \in {"mkdir", "writeFile"}
  /\ NextWrite
  /\ UNCHANGED told

(* The process ends, and with it the queue.                                *)
Killed ==
  /\ up
  /\ up' = FALSE
  /\ devices' = NoRecords
  /\ persists' = <<>> /\ phase' = "mkdir" /\ payload' = NoRecords
  /\ UNCHANGED <<file, told>>

RegistryNext ==
  \/ Open \/ TakePayload \/ Rename \/ Persisted \/ PersistFails \/ Killed
  \/ \E d \in Devices : Issue(d) \/ Verify(d)
  \/ \E caller \in Devices \cup {Shared}, d \in Devices : Revoke(caller, d)

RegistrySpec == RegistryInit /\ [][RegistryNext]_registryVars

-----------------------------------------------------------------------------
Records == [Devices -> Standing]

(* Types of the registry; a write goes on only while there is one.         *)
RegistryTypeOK ==
  /\ up \in BOOLEAN
  /\ devices \in Records /\ payload \in Records /\ file \in Records /\ told \in Records
  /\ persists \in Seq([device : Devices, standing : Standing])
  /\ phase \in {"mkdir", "writeFile", "rename"}
  /\ phase # "mkdir" => persists # <<>>

(* The devices as DeviceGrants knows them: those in memory, or, while no   *)
(* relay runs, those it will find.                                         *)
Grants == INSTANCE DeviceGrants WITH standing <- IF up THEN devices ELSE file

(* docs/architecture.md: paired browser tokens survive relay restarts and  *)
(* can be revoked.  Whatever write fails and whenever the relay is killed, *)
(* a pairing or a revocation that was reported is there ever after.        *)
ImplementsDeviceGrants == Grants!Spec
=============================================================================
