---------------------------- MODULE DeviceGrants ----------------------------
(***************************************************************************)
(* What the relay promises about paired devices.  A device's standing only *)
(* moves forward: unknown, paired, revoked.  Whatever a caller was told of *)
(* a device stays true through every crash; a change nobody was told of    *)
(* may be forgotten in one, or not.                                        *)
(***************************************************************************)
EXTENDS Naturals

CONSTANT Devices

Unknown  == 0
Paired   == 1
Revoked  == 2
Standing == {Unknown, Paired, Revoked}

VARIABLES
  up,        \* somebody can be told
  standing,  \* of each device
  told       \* the furthest standing of each device that a caller was told

vars == <<up, standing, told>>

Init ==
  /\ up = FALSE
  /\ standing = [d \in Devices |-> Unknown]
  /\ told = [d \in Devices |-> Unknown]

Recover == up' = TRUE /\ UNCHANGED <<standing, told>>

Advance(d) ==
  /\ up
  /\ \E s \in Standing : s > standing[d] /\ standing' = [standing EXCEPT ![d] = s]
  /\ UNCHANGED <<up, told>>

Tell(d) ==
  /\ up
  /\ \E s \in Standing :
       /\ told[d] < s /\ s <= standing[d]
       /\ told' = [told EXCEPT ![d] = s]
  /\ UNCHANGED <<up, standing>>

Fail ==
  /\ up' = FALSE
  /\ standing' \in [Devices -> Standing]
  /\ \A d \in Devices : told[d] <= standing'[d] /\ standing'[d] <= standing[d]
  /\ UNCHANGED told

Next == Recover \/ Fail \/ \E d \in Devices : Advance(d) \/ Tell(d)

Spec == Init /\ [][Next]_vars
=============================================================================
