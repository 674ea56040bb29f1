------------------------- MODULE RelayAccessProofs -------------------------
(***************************************************************************)
(* Proofs about RelayAccess, for any devices and any bounds: it does to    *)
(* the registry what DeviceRegistry allows; a pairing code pairs once; the *)
(* host is reached by its last connection; and no decision of a device     *)
(* whose revocation was reported reaches a host.                           *)
(***************************************************************************)
EXTENDS RelayAccess, DeviceRegistryProofs, SequenceTheorems

(* The inductive invariant.  The offer that can be used has paired nobody. *)
OfferInv ==
  /\ offers \in Nat /\ offer \in 0..offers
  /\ origin \in [Devices -> 0..offers]
  /\ offer # 0 => \A d \in Devices : origin[d] # offer
  /\ OneDevicePerOffer

(* Only the link that is registered can be open, and it is the last.       *)
LinkInv ==
  /\ links \in Seq({"open", "closing", "gone"})
  /\ agents \in {0, Len(links)}
  /\ \A l \in 1..Len(links) : links[l] = "open" => agents = l

(* A relay that does not run has no frames; a late decision is of a device *)
(* that was reported revoked; and no check of such a decision is under way. *)
CommandInv ==
  /\ settings.token \in Peer /\ peer \in Peer \cup {Nobody}
  /\ received \in Nat /\ frames \in Seq(Nat)
  /\ DOMAIN waiting \subseteq 1..received
  /\ ~up => frames = <<>> /\ offering = {} /\ peer = Nobody
  /\ \A n \in DOMAIN waiting : waiting[n].device \in Peer
  /\ \A n \in DOMAIN waiting : waiting[n].late =>
       waiting[n].device \in Devices /\ told[waiting[n].device] = Revoked
  /\ checking \in BOOLEAN
  /\ checking => /\ frames # <<>> /\ Head(frames) \in DOMAIN waiting
                 /\ ~waiting[Head(frames)].late

(* A device that signs was paired with a key pair of the browser, and was  *)
(* reported.                                                               *)
Holds(d) == d \in Devices => publicKey[d] \in 1..keys /\ told[d] # Unknown

(* A command is signed for a device that signs, by a key of the browser,   *)
(* and with the settings of its socket, if with any.                       *)
IsSigned(c) ==
  /\ Holds(c.signer) /\ (c.signer \in Devices => c.key \in 1..keys)
  /\ c.id \in {Shared, c.device}

KeyTypes ==
  /\ keys \in Nat /\ losses \in Nat
  /\ key \in 0..keys /\ asking \in 0..keys /\ signing \in 0..keys
  /\ publicKey \in [Devices -> 0..keys]

(* As long as no key pair is lost, the browser makes only one.             *)
OneKeyPair ==
  losses = 0 => /\ keys <= 1 /\ key = keys
                /\ pairing = Shared /\ asking = 0 => keys = 0
                /\ deciding \in Devices => signing = keys

KeyInv ==
  /\ KeyTypes /\ OneKeyPair
  /\ peer \in {Nobody, settings.token} /\ settings.device \in {Shared, settings.token}
  /\ deciding \in Peer \cup {Nobody}
  /\ pairing \in Devices => publicKey[pairing] \in 1..keys
  /\ Holds(settings.device) /\ Holds(deciding)
  /\ \A n \in DOMAIN waiting : IsSigned(waiting[n])

AccessInv == IInv /\ OfferInv /\ LinkInv /\ CommandInv /\ KeyInv

-----------------------------------------------------------------------------
(* What a step does to the registry.                                       *)

(* A step of the system is a step of the registry, or leaves it alone.     *)
LEMMA StepOfRegistry ==
  ASSUME IInv, settings.token \in Peer, [Next]_vars
  PROVE  [RegistryNext]_registryVars
<1>1. CASE Start
  BY <1>1 DEF Start, RegistryNext
<1>2. CASE Write
  BY <1>2 DEF Write, RegistryNext
<1>3. CASE Kill
  BY <1>3 DEF Kill, RegistryNext
<1>4. ASSUME NEW d \in Devices, Pair(d)
      PROVE  RegistryNext
  BY <1>4 DEF Pair, RegistryNext
<1>5. ASSUME NEW d \in Devices, NEW caller \in Devices \cup {Shared}, Remove(caller, d)
      PROVE  RegistryNext
  BY <1>5 DEF Remove, RegistryNext
<1>6. CASE ClientConnects
  <2>1. CASE settings.token = Shared
    <3>1. persists \o <<>> = persists
      BY Queue DEF IInv, RegistryTypeOK
    <3> QED
      BY <3>1, <2>1, <1>6 DEF ClientConnects, Verify, enqueuePersist, Seen, registryVars, writeVars
  <2>2. CASE settings.token \in Devices
    BY <2>2, <1>6 DEF ClientConnects, RegistryNext
  <2> QED
    BY <2>1, <2>2 DEF Peer
<1>7. ASSUME NEW l \in DOMAIN links, OfferArrives(l) \/ LinkEnds(l) \/ LinkCloses(l)
      PROVE  UNCHANGED registryVars
  BY <1>7 DEF OfferArrives, LinkEnds, LinkCloses
<1>8. ASSUME NEW n \in DOMAIN waiting, CommandNext(n)
      PROVE  UNCHANGED registryVars
  BY <1>8 DEF CommandNext, StartCheck, Refuse, Expire, Offline, Forward, Expires, Ends, Done
<1>9. CASE AgentConnects \/ HandleOffer \/ LoseKey \/ AskToPair \/ MakeKey \/ PairLapsed
           \/ Adopt \/ PairingFails \/ SaveSettings \/ ClientRejected \/ ClientLoses \/ Decide
  BY <1>9 DEF AgentConnects, HandleOffer, LoseKey, AskToPair, MakeKey, PairLapsed, Adopt,
     PairingFails, SaveSettings, ClientRejected, ClientLoses, Decide
<1>10. CASE SendDecision \/ SendPrompt
  BY <1>10 DEF SendDecision, SendPrompt, Receive
<1>11. CASE UNCHANGED vars
  BY <1>11 DEF vars
<1> QED
  BY <1>1, <1>2, <1>3, <1>4, <1>5, <1>6, <1>7, <1>8, <1>9, <1>10, <1>11 DEF Next

(* A revocation that was reported stays reported.                          *)
LEMMA RevokedStays ==
  ASSUME IInv, [RegistryNext]_registryVars, NEW d \in Devices, told[d] = Revoked
  PROVE  told'[d] = Revoked
<1>0. told \in Records /\ persists \in Seq(Record)
  BY DEF IInv, RegistryTypeOK, Record
<1>1. CASE Persisted
  <2>1. Head(persists) \in Record
    BY <1>1, <1>0, Queue DEF Persisted, IInv, RegistryTypeOK
  <2>2. Head(persists).standing \in 0..2 /\ Revoked = 2
    BY <2>1, Standings DEF Record
  <2> QED
    BY <1>0, <1>1, <2>2 DEF Persisted, Tell, Records
<1>2. CASE ~Persisted
  BY <1>2 DEF RegistryNext, Open, TakePayload, Rename, PersistFails, Killed, Issue, Verify,
     Revoke, registryVars, NextWrite
<1> QED
  BY <1>1, <1>2

-----------------------------------------------------------------------------
(* The pairing offers.                                                     *)

(* An offer that can be used has paired nobody, after every step.          *)
LEMMA OfferStep ==
  ASSUME OfferInv, [Next]_vars
  PROVE  OfferInv'
<1> USE DEF OfferInv, OneDevicePerOffer
<1>1. CASE HandleOffer
  BY <1>1 DEF HandleOffer
<1>2. ASSUME NEW d \in Devices, Pair(d)
      PROVE  OfferInv'
  BY <1>2 DEF Pair, Spent
<1>3. CASE PairLapsed
  BY <1>3 DEF PairLapsed, pairVars
<1>4. CASE Kill
  BY <1>4 DEF Kill, pairVars
<1>5. CASE UNCHANGED <<offers, offer, origin>>
  BY <1>5
<1>6. ASSUME NEW l \in DOMAIN links, OfferArrives(l) \/ LinkEnds(l) \/ LinkCloses(l)
      PROVE  UNCHANGED <<offers, offer, origin>>
  BY <1>6 DEF OfferArrives, LinkEnds, LinkCloses, pairVars
<1>7. ASSUME NEW n \in DOMAIN waiting, CommandNext(n)
      PROVE  UNCHANGED <<offers, offer, origin>>
  BY <1>7 DEF CommandNext, StartCheck, Refuse, Expire, Offline, Forward, Expires, Ends, Done,
     pairVars, relayVars
<1>8. ASSUME NEW d \in Devices, NEW caller \in Devices \cup {Shared}, Remove(caller, d)
      PROVE  UNCHANGED <<offers, offer, origin>>
  BY <1>8 DEF Remove, pairVars, relayVars
<1>9. CASE Start \/ Write \/ AgentConnects \/ LoseKey \/ AskToPair \/ MakeKey \/ Adopt
           \/ PairingFails \/ SaveSettings \/ ClientConnects \/ ClientRejected \/ ClientLoses
           \/ Decide
  BY <1>9 DEF Start, Write, AgentConnects, LoseKey, AskToPair, MakeKey, Adopt, PairingFails,
     SaveSettings, ClientConnects, ClientRejected, ClientLoses, Decide, pairVars, relayVars
<1>10. CASE SendDecision \/ SendPrompt
  BY <1>10 DEF SendDecision, SendPrompt, Receive, pairVars, relayVars
<1>11. CASE UNCHANGED vars
  BY <1>11 DEF vars, pairVars, relayVars
<1> QED
  BY <1>1, <1>2, <1>3, <1>4, <1>5, <1>6, <1>7, <1>8, <1>9, <1>10, <1>11 DEF Next

-----------------------------------------------------------------------------
(* The links.                                                              *)

(* A replaced or closed connection takes no newer one away.                *)
LEMMA LinkStep ==
  ASSUME LinkInv, [Next]_vars
  PROVE  LinkInv'
<1>0. Len(links) \in Nat /\ DOMAIN links = 1..Len(links)
      /\ \A l \in 1..Len(links) : links[l] \in {"open", "closing", "gone"}
  BY DEF LinkInv
<1>1. CASE AgentConnects
  <2> DEFINE closed == [l \in DOMAIN links |-> IF l = agents THEN "closing" ELSE links[l]]
  <2>1. closed \in Seq({"open", "closing", "gone"}) /\ Len(closed) = Len(links)
    BY <1>0
  <2>2. \A l \in 1..Len(links) : closed[l] # "open"
    BY <1>0 DEF LinkInv
  <2>3. links' = Append(closed, "open") /\ agents' = Len(links')
    BY <1>1 DEF AgentConnects
  <2> HIDE DEF closed
  <2>4. /\ links' \in Seq({"open", "closing", "gone"}) /\ Len(links') = Len(links) + 1
        /\ \A l \in 1..Len(links) : links'[l] = closed[l]
    BY <2>1, <2>3, <1>0
  <2>5. ASSUME NEW l \in 1..Len(links'), links'[l] = "open"
        PROVE  agents' = l
    <3>1. l \in 1..Len(links) => links'[l] # "open"
      BY <2>2, <2>4
    <3> QED
      BY <3>1, <2>3, <2>4, <2>5, <1>0
  <2> QED
    BY <2>3, <2>4, <2>5 DEF LinkInv
<1>2. ASSUME NEW l \in DOMAIN links, LinkCloses(l)
      PROVE  LinkInv'
  <2>1. links' \in Seq({"open", "closing", "gone"}) /\ Len(links') = Len(links)
        /\ \A k \in 1..Len(links) : links'[k] = IF k = l THEN "gone" ELSE links[k]
    BY <1>0, <1>2 DEF LinkCloses, LinkInv
  <2>2. agents' = IF agents = l THEN 0 ELSE agents
    BY <1>2 DEF LinkCloses, Forgets
  <2> QED
    BY <2>1, <2>2, <1>0 DEF LinkInv
<1>3. CASE Kill
  <2>1. links' \in Seq({"open", "closing", "gone"}) /\ Len(links') = Len(links)
        /\ \A k \in 1..Len(links) : links'[k] = "gone"
    BY <1>0, <1>3 DEF Kill
  <2> QED
    BY <2>1, <1>3, <1>0 DEF LinkInv, Kill
<1>4. CASE UNCHANGED <<links, agents>>
  BY <1>4 DEF LinkInv
<1>5. ASSUME NEW l \in DOMAIN links, OfferArrives(l)
      PROVE  UNCHANGED <<links, agents>>
  BY <1>5 DEF OfferArrives
<1>6. ASSUME NEW n \in DOMAIN waiting, CommandNext(n)
      PROVE  UNCHANGED <<links, agents>>
  BY <1>6 DEF CommandNext, StartCheck, Refuse, Expire, Offline, Forward, Expires, Ends, Done,
     relayVars
<1>7. ASSUME NEW d \in Devices
      PROVE  /\ Pair(d) => UNCHANGED <<links, agents>>
             /\ \A caller \in Devices \cup {Shared} :
                  Remove(caller, d) => UNCHANGED <<links, agents>>
  BY DEF Pair, Remove, relayVars
<1>8. CASE Start \/ Write \/ HandleOffer \/ LoseKey \/ AskToPair \/ MakeKey \/ PairLapsed
           \/ Adopt \/ PairingFails \/ SaveSettings \/ ClientConnects \/ ClientRejected
           \/ ClientLoses \/ Decide
  BY <1>4, <1>8 DEF Start, Write, HandleOffer, LoseKey, AskToPair, MakeKey, PairLapsed, Adopt,
     PairingFails, SaveSettings, ClientConnects, ClientRejected, ClientLoses, Decide, relayVars
<1>9. CASE SendDecision \/ SendPrompt
  BY <1>4, <1>9 DEF SendDecision, SendPrompt, Receive, relayVars
<1>10. CASE UNCHANGED vars
  BY <1>4, <1>10 DEF vars, relayVars
<1>11. ASSUME NEW l \in DOMAIN links, LinkEnds(l)
       PROVE  LinkInv'
  <2>1. links' \in Seq({"open", "closing", "gone"}) /\ Len(links') = Len(links)
        /\ \A k \in 1..Len(links) : links'[k] = IF k = l THEN "closing" ELSE links[k]
    BY <1>0, <1>11 DEF LinkEnds, LinkInv
  <2>2. agents' = agents
    BY <1>11 DEF LinkEnds
  <2> QED
    BY <2>1, <2>2, <1>0 DEF LinkInv
<1> QED
  BY <1>1, <1>2, <1>3, <1>4, <1>5, <1>6, <1>7, <1>8, <1>9, <1>10, <1>11 DEF Next

-----------------------------------------------------------------------------
(* The frames.                                                             *)

(* What is taken out of a queue leaves a queue.                            *)
LEMMA WithoutIsQueue ==
  ASSUME frames \in Seq(Nat), NEW n, First(n)
  PROVE  Without(n) \in Seq(Nat)
<1> DEFINE i == CHOOSE i \in DOMAIN frames : frames[i] = n
<1>1. Head(frames) = frames[1] /\ 1 \in DOMAIN frames
  BY DEF First
<1>2. i \in 1..Len(frames) /\ Len(frames) \in Nat
  BY <1>1 DEF First
<1>3. SubSeq(frames, 1, i - 1) \in Seq(Nat) /\ SubSeq(frames, i + 1, Len(frames)) \in Seq(Nat)
  <2> HIDE DEF i
  <2> QED
    BY <1>2
<1> QED
  BY <1>3 DEF Without

(* The relay knows at least what it told.                                  *)
LEMMA ToldIsSo ==
  ASSUME IInv, up, NEW d \in Devices
  PROVE  told[d] <= devices[d]
BY Transitive DEF IInv, MemoryInv, RegistryTypeOK, Behind

(* What a queued command knows of its device stays true while its          *)
(* signature is checked.                                                   *)
LEMMA CommandStep ==
  ASSUME IInv, CommandInv, [Next]_vars
  PROVE  CommandInv'
<1>0. /\ [RegistryNext]_registryVars
      /\ \A d \in Devices : told[d] = Revoked => told'[d] = Revoked
  BY StepOfRegistry, RevokedStays DEF CommandInv
<1> USE DEF CommandInv
<1>1. CASE Start
  BY <1>0, <1>1 DEF Start, Open, relayVars, browserVars, commandVars
<1>2. CASE Write
  <2>1. up' = up
    BY <1>2 DEF Write, TakePayload, Rename, Persisted, PersistFails, NextWrite
  <2> QED
    BY <2>1, <1>0, <1>2 DEF Write, relayVars, browserVars, commandVars
<1>3. CASE Kill
  <2>1. frames' = <<>> /\ offering' = {} /\ peer' = Nobody /\ DOMAIN waiting' = {}
        /\ checking' = FALSE /\ UNCHANGED <<settings, received>>
    BY <1>3 DEF Kill
  <2>2. <<>> \in Seq(Nat)
    OBVIOUS
  <2> QED
    BY <2>1, <2>2
<1>4. CASE AgentConnects
  BY <1>0, <1>4 DEF AgentConnects, browserVars, commandVars, registryVars
<1>5. ASSUME NEW l \in DOMAIN links, OfferArrives(l)
      PROVE  CommandInv'
  <2>1. /\ frames' \in Seq(Nat) /\ frames' # <<>>
        /\ frames # <<>> => Head(frames') = Head(frames)
    BY <1>5 DEF OfferArrives
  <2> QED
    BY <2>1, <1>5 DEF OfferArrives, browserVars, commandVars, registryVars
<1>6. ASSUME NEW l \in DOMAIN links, LinkEnds(l) \/ LinkCloses(l)
      PROVE  CommandInv'
  BY <1>6 DEF LinkEnds, LinkCloses, browserVars, commandVars, registryVars
<1>7. CASE HandleOffer
  <2>1. frames' \in Seq(Nat) /\ ~checking
    BY <1>7 DEF HandleOffer
  <2> QED
    BY <2>1, <1>7 DEF HandleOffer, browserVars, commandVars, registryVars
<1>8. ASSUME NEW d \in Devices, Pair(d)
      PROVE  CommandInv'
  BY <1>0, <1>8 DEF Pair, Issue, commandVars
<1>9. ASSUME NEW d \in Devices, NEW caller \in Devices \cup {Shared}, Remove(caller, d)
      PROVE  CommandInv'
  BY <1>0, <1>9 DEF Remove, Revoke, relayVars, browserVars, commandVars
<1>10. CASE LoseKey \/ AskToPair \/ MakeKey \/ PairLapsed \/ PairingFails \/ ClientRejected
            \/ Decide
  BY <1>10 DEF LoseKey, AskToPair, MakeKey, PairLapsed, PairingFails, ClientRejected, Decide,
     relayVars, browserVars, commandVars, registryVars
<1>11. CASE Adopt \/ SaveSettings
  BY <1>11 DEF Adopt, SaveSettings, Configure, Peer, relayVars, commandVars, registryVars
<1>12. CASE ClientConnects \/ ClientLoses
  BY <1>0, <1>12 DEF ClientConnects, ClientLoses, Verify, relayVars, commandVars, registryVars
<1>13. ASSUME NEW device \in Peer, NEW signer, NEW pair, Receive(device, signer, pair),
              peer # Nobody
       PROVE  CommandInv'
  <2>1. /\ frames' \in Seq(Nat) /\ frames' # <<>> /\ received' = received + 1
        /\ frames # <<>> => Head(frames') = Head(frames)
    BY <1>13 DEF Receive
  <2>2. /\ DOMAIN waiting' = DOMAIN waiting \cup {received'}
        /\ \A n \in DOMAIN waiting : waiting'[n] = waiting[n]
        /\ waiting'[received'].device = device
        /\ waiting'[received'].late => device \in Devices /\ told[device] = Revoked
    <3>1. received' \notin DOMAIN waiting
      BY <2>1
    <3>2. DOMAIN waiting' = DOMAIN waiting \cup {received'}
          /\ \A n \in DOMAIN waiting : waiting'[n] = waiting[n]
      BY <1>13 DEF Receive
    <3>3. waiting'[received'] =
            [device |-> device, signer |-> signer, key |-> pair,
             id |-> IF device = Shared THEN Shared ELSE settings.device, lapsed |-> FALSE,
             late |-> device \in Devices /\ told[device] = Revoked]
      BY <3>1, <1>13 DEF Receive
    <3>4. waiting'[received'].device = device
          /\ waiting'[received'].late = (device \in Devices /\ told[device] = Revoked)
      BY <3>3
    <3> QED
      BY <3>2, <3>4
  <2>3. UNCHANGED <<registryVars, checking, offering, settings, peer>>
    BY <1>13 DEF Receive
  <2> QED
    BY <2>1, <2>2, <2>3, <1>13 DEF registryVars
<1>14. CASE SendDecision
  <2>1. CASE peer = Nobody
    BY <2>1, <1>14 DEF SendDecision, registryVars, relayVars, commandVars
  <2>2. CASE peer \in Peer /\ peer # Nobody
    BY <2>2, <1>13, <1>14 DEF SendDecision
  <2> QED
    BY <2>1, <2>2
<1>15. CASE SendPrompt
  <2>1. Shared \in Peer
    BY DEF Peer
  <2> QED
    BY <2>1, <1>13, <1>15 DEF SendPrompt
<1>16. ASSUME NEW n \in DOMAIN waiting, Expires(n)
       PROVE  CommandInv'
  <2>1. /\ DOMAIN waiting' = DOMAIN waiting
        /\ \A m \in DOMAIN waiting : waiting'[m].device = waiting[m].device
                                     /\ waiting'[m].late = waiting[m].late
    BY <1>16 DEF Expires
  <2> QED
    BY <2>1, <1>16 DEF Expires, relayVars, browserVars, registryVars
<1>17. ASSUME NEW n \in DOMAIN waiting, StartCheck(n)
       PROVE  CommandInv'
  <2>1. frames # <<>> /\ Head(frames) = n /\ up
    BY <1>17 DEF StartCheck, First
  <2>2. ~waiting[n].late
    <3> SUFFICES ASSUME waiting[n].late PROVE FALSE
      OBVIOUS
    <3>1. waiting[n].device \in Devices /\ told[waiting[n].device] = Revoked
      OBVIOUS
    <3>2. devices[waiting[n].device] = Paired
      BY <1>17 DEF StartCheck, Signs
    <3> QED
      BY <2>1, <3>1, <3>2, ToldIsSo, Standings
  <2> QED
    BY <2>1, <2>2, <1>17 DEF StartCheck, browserVars, commandVars, registryVars
<1>18. ASSUME NEW n \in DOMAIN waiting, NEW outcome, First(n), Ends(n, outcome)
       PROVE  CommandInv'
  <2>1. frames' \in Seq(Nat) /\ ~checking' /\ up
    BY <1>18, WithoutIsQueue DEF Ends, Done, First
  <2>2. /\ DOMAIN waiting' \subseteq DOMAIN waiting
        /\ \A m \in DOMAIN waiting' : waiting'[m] = waiting[m]
    BY <1>18 DEF Ends, Done
  <2> QED
    BY <2>1, <2>2, <1>18 DEF Ends, Done, browserVars, registryVars
<1>19. ASSUME NEW n \in DOMAIN waiting, CommandNext(n)
       PROVE  CommandInv'
  BY <1>16, <1>17, <1>18, <1>19 DEF CommandNext, Refuse, Expire, Offline, Forward, Admissible
<1>20. CASE UNCHANGED vars
  BY <1>20 DEF vars, relayVars, browserVars, commandVars, registryVars
<1> QED
  BY <1>1, <1>2, <1>3, <1>4, <1>5, <1>6, <1>7, <1>8, <1>9, <1>10, <1>11, <1>12, <1>14, <1>15,
     <1>19, <1>20 DEF Next

-----------------------------------------------------------------------------
(* The keys.                                                               *)

(* A device that was reported stays reported.                              *)
LEMMA ReportedStays ==
  ASSUME IInv, [RegistryNext]_registryVars, NEW d \in Devices, told[d] # Unknown
  PROVE  told'[d] # Unknown
<1>0. told \in Records /\ persists \in Seq(Record)
  BY DEF IInv, RegistryTypeOK, Record
<1>1. CASE Persisted
  <2>1. Head(persists) \in Record
    BY <1>1, <1>0, Queue DEF Persisted, IInv, RegistryTypeOK
  <2>2. Head(persists).standing \in 0..2 /\ told[d] \in 0..2 /\ Unknown = 0
    BY <2>1, <1>0, Standings DEF Record, Records
  <2> QED
    BY <1>0, <1>1, <2>2 DEF Persisted, Tell, Records
<1>2. CASE ~Persisted
  BY <1>2 DEF RegistryNext, Open, TakePayload, Rename, PersistFails, Killed, Issue, Verify,
     Revoke, registryVars, NextWrite
<1> QED
  BY <1>1, <1>2

(* What is held stays held, as no device loses its key.                    *)
LEMMA HoldsStays ==
  ASSUME IInv, CommandInv, KeyTypes, KeyTypes', [Next]_vars, keys <= keys',
         \A d \in Devices : publicKey[d] # 0 => publicKey'[d] # 0,
         NEW d, Holds(d), d \in Devices
  PROVE  publicKey'[d] \in 1..keys' /\ told'[d] # Unknown
<1>1. [RegistryNext]_registryVars
  BY StepOfRegistry DEF CommandInv
<1>2. told'[d] # Unknown
  BY <1>1, ReportedStays DEF Holds
<1>3. publicKey[d] \in 1..keys /\ keys \in Nat /\ keys' \in Nat /\ publicKey'[d] \in 0..keys'
  BY DEF Holds, KeyTypes
<1> QED
  BY <1>2, <1>3

(* What there is to show of a step for the keys: those that the browser    *)
(* may name afterwards, and those in the commands of the relay's queue,    *)
(* were held before.                                                       *)
LEMMA KeyGrows ==
  ASSUME IInv, CommandInv, KeyInv, [Next]_vars, KeyTypes', OneKeyPair', keys <= keys',
         \A d \in Devices : publicKey[d] # 0 => publicKey'[d] # 0,
         peer' \in {Nobody, settings'.token}, settings'.device \in {Shared, settings'.token},
         pairing' \in Devices => publicKey'[pairing'] \in 1..keys',
         NEW s, Holds(s), settings'.device = s,
         NEW d \in Peer \cup {Nobody}, Holds(d), deciding' = d,
         \A n \in DOMAIN waiting' : \E e :
           /\ Holds(e) /\ waiting'[n].signer = e
           /\ e \in Devices => waiting'[n].key \in 1..keys'
           /\ waiting'[n].id \in {Shared, waiting'[n].device}
  PROVE  KeyInv'
<1>1. \A e : Holds(e) /\ e \in Devices => publicKey'[e] \in 1..keys' /\ told'[e] # Unknown
  BY HoldsStays DEF KeyInv
<1>2. Holds(settings.device)' /\ Holds(deciding)'
  BY <1>1 DEF Holds
<1>3. ASSUME NEW n \in DOMAIN waiting'
      PROVE  IsSigned(waiting[n])'
  <2>1. PICK e : /\ Holds(e) /\ waiting'[n].signer = e
                 /\ e \in Devices => waiting'[n].key \in 1..keys'
                 /\ waiting'[n].id \in {Shared, waiting'[n].device}
    OBVIOUS
  <2> QED
    BY <2>1, <1>1 DEF IsSigned, Holds
<1> QED
  BY <1>2, <1>3 DEF KeyInv

(* A step that leaves the browser's keys and decisions as they are, and    *)
(* takes no command in.                                                    *)
LEMMA KeyQuiet ==
  ASSUME IInv, CommandInv, KeyInv, [Next]_vars,
         UNCHANGED <<publicKey, keyVars, pairing, settings, deciding>>,
         peer' \in {peer, Nobody, settings.token},
         \A n \in DOMAIN waiting' :
           /\ n \in DOMAIN waiting /\ waiting'[n].signer = waiting[n].signer
           /\ waiting'[n].key = waiting[n].key /\ waiting'[n].id = waiting[n].id
           /\ waiting'[n].device = waiting[n].device
  PROVE  KeyInv'
<1>1. KeyTypes' /\ OneKeyPair' /\ keys \in Nat /\ keys <= keys'
  BY DEF KeyInv, KeyTypes, OneKeyPair, keyVars
<1>2. Holds(settings.device) /\ Holds(deciding) /\ keys' = keys /\ deciding \in Peer \cup {Nobody}
  BY DEF KeyInv, keyVars
<1>3. ASSUME NEW n \in DOMAIN waiting'
      PROVE  \E e : /\ Holds(e) /\ waiting'[n].signer = e
                    /\ e \in Devices => waiting'[n].key \in 1..keys'
                    /\ waiting'[n].id \in {Shared, waiting'[n].device}
  <2>1. IsSigned(waiting[n])
    BY <1>3 DEF KeyInv
  <2> QED
    BY <2>1, <1>2, <1>3 DEF IsSigned
<1>4. peer' \in {Nobody, settings'.token} /\ settings'.device \in {Shared, settings'.token}
      /\ (pairing' \in Devices => publicKey'[pairing'] \in 1..keys')
  BY <1>2 DEF KeyInv
<1>5. settings'.device = settings.device /\ deciding' = deciding
  OBVIOUS
<1> QED
  BY <1>1, <1>2, <1>3, <1>4, <1>5, KeyGrows

(* The keys that the browser signs with are those of the devices it names. *)
LEMMA KeyStep ==
  ASSUME IInv, CommandInv, KeyInv, [Next]_vars
  PROVE  KeyInv'
<1> DEFINE same == \A n \in DOMAIN waiting' :
                     /\ n \in DOMAIN waiting /\ waiting'[n].signer = waiting[n].signer
                     /\ waiting'[n].key = waiting[n].key /\ waiting'[n].id = waiting[n].id
                     /\ waiting'[n].device = waiting[n].device
           quiet == /\ UNCHANGED <<publicKey, keyVars, pairing, settings, deciding>>
                    /\ peer' \in {peer, Nobody, settings.token} /\ same
           signed(n) == \E e :
             /\ Holds(e) /\ waiting'[n].signer = e
             /\ e \in Devices => waiting'[n].key \in 1..keys'
             /\ waiting'[n].id \in {Shared, waiting'[n].device}
<1>0. quiet => KeyInv'
  BY KeyQuiet
<1>a. /\ keys \in Nat /\ losses \in Nat /\ key \in 0..keys /\ asking \in 0..keys
      /\ signing \in 0..keys /\ publicKey \in [Devices -> 0..keys]
  BY DEF KeyInv, KeyTypes
<1>b. /\ Holds(settings.device) /\ Holds(deciding) /\ Holds(Shared) /\ Holds(Nobody)
      /\ {settings.device, deciding, Nobody} \subseteq Peer \cup {Nobody}
  BY DevicesAssumption, NobodyAssumption DEF KeyInv, CommandInv, Peer, Holds
<1>c. Shared # Nobody /\ Shared \notin Devices /\ Nobody \notin Devices
  BY DevicesAssumption, NobodyAssumption DEF Shared, Nobody
<1>d. ASSUME NEW n \in DOMAIN waiting', n \in DOMAIN waiting, waiting'[n] = waiting[n], keys <= keys', keys' \in Nat
      PROVE  signed(n)
  <2>1. IsSigned(waiting[n])
    BY <1>d DEF KeyInv
  <2> QED
    BY <2>1, <1>d, <1>a DEF IsSigned
<1>2. CASE Start \/ Write \/ AgentConnects \/ HandleOffer \/ PairLapsed
           \/ ClientConnects \/ ClientRejected \/ ClientLoses
  BY <1>0, <1>2 DEF Start, Write, AgentConnects, HandleOffer, PairLapsed, ClientConnects,
     ClientRejected, ClientLoses, browserVars, commandVars, pairVars
<1>3. CASE Kill
  <2>1. DOMAIN waiting' = {} /\ UNCHANGED <<publicKey, keyVars, pairing, settings, deciding>>
        /\ peer' = Nobody
    BY <1>3 DEF Kill, pairVars
  <2> QED
    BY <2>1, <1>0
<1>4. ASSUME NEW l \in DOMAIN links, OfferArrives(l) \/ LinkEnds(l) \/ LinkCloses(l)
      PROVE  KeyInv'
  BY <1>0, <1>4 DEF OfferArrives, LinkEnds, LinkCloses, browserVars, commandVars, pairVars
<1>5. ASSUME NEW d \in Devices, NEW caller \in Devices \cup {Shared}, Remove(caller, d)
      PROVE  KeyInv'
  BY <1>0, <1>5 DEF Remove, browserVars, commandVars, pairVars
<1>6. CASE LoseKey \/ AskToPair \/ MakeKey
  <2>1. /\ UNCHANGED <<publicKey, settings, peer, deciding, waiting>>
        /\ pairing' \in {pairing, Shared} /\ keys' \in {keys, keys + 1}
    BY <1>6 DEF LoseKey, AskToPair, MakeKey, StoreNewKey, browserVars, commandVars
  <2>2. KeyTypes'
    <3>1. CASE LoseKey
      BY <3>1, <1>a DEF LoseKey, KeyTypes
    <3>2. CASE AskToPair
      BY <3>2, <1>a DEF AskToPair, StoredKey, KeyTypes
    <3>3. CASE MakeKey
      BY <3>3, <1>a DEF MakeKey, StoreNewKey, KeyTypes
    <3> QED
      BY <3>1, <3>2, <3>3, <1>6
  <2>3. OneKeyPair'
    <3>1. CASE LoseKey
      BY <3>1, <1>a DEF LoseKey, OneKeyPair
    <3>2. CASE AskToPair
      BY <3>2, <1>a DEF AskToPair, StoredKey, OneKeyPair, KeyInv
    <3>3. CASE MakeKey
      BY <3>3, <1>a, <1>b DEF MakeKey, StoreNewKey, OneKeyPair, KeyInv, Holds, browserVars
    <3> QED
      BY <3>1, <3>2, <3>3, <1>6
  <2>4. keys <= keys' /\ keys' \in Nat
        /\ (pairing' \in Devices => publicKey'[pairing'] \in 1..keys')
    BY <2>1, <1>a, <1>c DEF KeyInv
  <2>5. \A n \in DOMAIN waiting' : signed(n)
    BY <2>1, <2>4, <1>d
  <2>6. peer' \in {Nobody, settings'.token} /\ settings'.device \in {Shared, settings'.token}
        /\ settings'.device = settings.device /\ deciding' = deciding
    BY <2>1 DEF KeyInv
  <2> HIDE DEF signed
  <2> QED
    BY <2>1, <2>2, <2>3, <2>4, <2>5, <2>6, <1>b, KeyGrows DEF signed
<1>7. ASSUME NEW d \in Devices, Pair(d)
      PROVE  KeyInv'
  <2>1. UNCHANGED <<settings, peer, deciding, waiting, key, keys, losses, signing>>
    BY <1>7 DEF Pair, commandVars
  <2>2. \/ /\ pairing = Shared /\ asking # 0
           /\ pairing' = d /\ publicKey' = [publicKey EXCEPT ![d] = asking] /\ asking' = 0
        \/ UNCHANGED <<pairing, publicKey, asking>>
    BY <1>7 DEF Pair
  <2>4. KeyTypes' /\ OneKeyPair' /\ keys <= keys' /\ keys' \in Nat
    BY <2>1, <2>2, <1>a, <1>c DEF KeyTypes, OneKeyPair, KeyInv
  <2>5. /\ \A e \in Devices : publicKey[e] # 0 => publicKey'[e] # 0
        /\ pairing' \in Devices => publicKey'[pairing'] \in 1..keys'
    BY <2>1, <2>2, <1>a DEF KeyInv
  <2>6. \A n \in DOMAIN waiting' : signed(n)
    BY <2>1, <2>4, <1>d
  <2>7. peer' \in {Nobody, settings'.token} /\ settings'.device \in {Shared, settings'.token}
        /\ settings'.device = settings.device /\ deciding' = deciding
    BY <2>1 DEF KeyInv
  <2> HIDE DEF signed
  <2> QED
    BY <2>1, <2>4, <2>5, <2>6, <2>7, <1>b, KeyGrows DEF signed
<1>8. CASE Adopt \/ PairingFails \/ SaveSettings
  <2>1. /\ UNCHANGED <<deciding, waiting, publicKey, key, keys, losses, signing>>
        /\ pairing' \in {pairing, Nobody} /\ asking' \in {asking, 0}
        /\ asking' # asking => pairing' = Nobody
    BY <1>8 DEF Adopt, PairingFails, SaveSettings, Configure, commandVars, pairVars, keyVars
  <2>2. KeyTypes' /\ OneKeyPair' /\ keys <= keys' /\ keys' \in Nat
    BY <2>1, <1>a, <1>c DEF KeyTypes, OneKeyPair, KeyInv
  <2>3. pairing' \in Devices => publicKey'[pairing'] \in 1..keys'
    BY <2>1, <1>c DEF KeyInv
  <2>4. PICK s : /\ Holds(s) /\ settings'.device = s
                 /\ peer' \in {Nobody, settings'.token}
                 /\ settings'.device \in {Shared, settings'.token}
    <3>1. CASE Adopt
      BY <3>1 DEF Adopt, Configure, KeyInv, Holds
    <3>2. CASE PairingFails
      BY <3>2 DEF PairingFails, KeyInv
    <3>3. CASE SaveSettings
      BY <3>3, <1>b DEF SaveSettings, Configure
    <3> QED
      BY <3>1, <3>2, <3>3, <1>8
  <2>5. \A n \in DOMAIN waiting' : signed(n)
    BY <2>1, <2>2, <1>d
  <2> HIDE DEF signed
  <2> QED
    BY <2>1, <2>2, <2>3, <2>4, <2>5, <1>b, KeyGrows DEF signed
<1>11. CASE Decide
  <2>1. /\ deciding' = settings.device /\ signing' \in {0, key}
        /\ settings.device \in Devices => signing' = key
        /\ UNCHANGED <<publicKey, key, keys, losses, asking, pairing, settings, peer, waiting>>
    BY <1>11, <1>c DEF Decide, StoredKey, commandVars
  <2>2. KeyTypes' /\ OneKeyPair' /\ keys <= keys' /\ keys' \in Nat
    BY <2>1, <1>a, <1>c DEF KeyTypes, OneKeyPair, KeyInv
  <2>3. \A n \in DOMAIN waiting' : signed(n)
    BY <2>1, <2>2, <1>d
  <2>4. peer' \in {Nobody, settings'.token} /\ settings'.device \in {Shared, settings'.token}
        /\ settings'.device = settings.device /\ (pairing' \in Devices => publicKey'[pairing'] \in 1..keys')
    BY <2>1 DEF KeyInv
  <2> HIDE DEF signed
  <2> QED
    BY <2>1, <2>2, <2>3, <2>4, <1>b, KeyGrows DEF signed
<1>12. ASSUME NEW device, NEW signer, NEW pair, Receive(device, signer, pair),
              device # Shared => device = peer, peer # Nobody,
              Holds(signer), signer \in Devices => pair \in 1..keys', deciding' \in {deciding, Nobody},
              KeyTypes', OneKeyPair', keys <= keys'
       PROVE  KeyInv'
  <2>1. UNCHANGED <<publicKey, pairing, settings, peer>>
    BY <1>12 DEF Receive
  <2>2. ASSUME NEW n \in DOMAIN waiting', n \notin DOMAIN waiting
        PROVE  signed(n)
    <3>1. waiting'[n] = [device |-> device, signer |-> signer, key |-> pair,
             id |-> IF device = Shared THEN Shared ELSE settings.device, lapsed |-> FALSE,
             late |-> device \in Devices /\ told[device] = Revoked]
      BY <2>2, <1>12 DEF Receive
    <3>2. waiting'[n].signer = signer /\ waiting'[n].key = pair /\ waiting'[n].device = device
          /\ waiting'[n].id = IF device = Shared THEN Shared ELSE settings.device
      BY <3>1
    <3>3. waiting'[n].id \in {Shared, waiting'[n].device}
      BY <3>2, <1>12 DEF KeyInv
    <3> QED
      BY <3>2, <3>3, <1>12
  <2>3. ASSUME NEW n \in DOMAIN waiting', n \in DOMAIN waiting
        PROVE  signed(n)
    <3>1. waiting'[n] = waiting[n] /\ keys' \in Nat
      BY <2>3, <1>12 DEF Receive, KeyTypes
    <3> QED
      BY <3>1, <2>3, <1>12, <1>d
  <2>4. \A n \in DOMAIN waiting' : signed(n)
    BY <2>2, <2>3
  <2>5. PICK d \in Peer \cup {Nobody} : Holds(d) /\ deciding' = d
    BY <1>12, <1>b
  <2>6. peer' \in {Nobody, settings'.token} /\ settings'.device \in {Shared, settings'.token}
        /\ settings'.device = settings.device
    BY <2>1 DEF KeyInv
  <2>7. pairing' \in Devices => publicKey'[pairing'] \in 1..keys'
    <3>1. keys' \in Nat
      BY <1>12 DEF KeyTypes
    <3> QED
      BY <3>1, <2>1, <1>12, <1>a DEF KeyInv
  <2> HIDE DEF signed
  <2> QED
    BY <2>1, <2>4, <2>5, <2>6, <2>7, <1>b, <1>12, KeyGrows DEF signed
<1>13. CASE SendDecision
  <2>1. /\ deciding' = Nobody /\ signing' = 0 /\ deciding # Nobody
        /\ \/ /\ deciding # Shared /\ signing = 0
              /\ keys' = keys + 1 /\ key' = keys + 1
           \/ ~(deciding # Shared /\ signing = 0) /\ keys' = keys /\ key' = key
        /\ UNCHANGED <<publicKey, losses, asking, pairing, settings, peer>>
    BY <1>13 DEF SendDecision, StoreNewKey, Receive
  <2>2. KeyTypes' /\ keys <= keys' /\ keys' \in Nat
    BY <2>1, <1>a DEF KeyTypes
  <2>3. OneKeyPair'
    <3> SUFFICES ASSUME losses' = 0
                 PROVE  /\ keys' <= 1 /\ key' = keys'
                        /\ pairing' = Shared /\ asking' = 0 => keys' = 0
      BY <2>1, <1>c DEF OneKeyPair
    <3>1. deciding # Shared => deciding \in Devices
      BY <2>1, <1>b DEF Peer
    <3> QED
      BY <3>1, <2>1, <1>a, <1>b DEF KeyInv, OneKeyPair, Holds
  <2>4. CASE waiting' = waiting
    <3>1. \A n \in DOMAIN waiting' : signed(n)
      BY <2>4, <2>2, <1>d
    <3>2. peer' \in {Nobody, settings'.token} /\ settings'.device \in {Shared, settings'.token}
          /\ settings'.device = settings.device /\ (pairing' \in Devices => publicKey'[pairing'] \in 1..keys')
      BY <2>1, <2>2, <1>a DEF KeyInv
    <3> HIDE DEF signed
    <3> QED
      BY <2>1, <2>2, <2>3, <3>1, <3>2, <1>b, KeyGrows DEF signed
  <2>5. \/ waiting' = waiting
        \/ peer # Nobody /\ Receive(peer, Shared, 0)
        \/ /\ peer # Nobody /\ deciding # Shared
           /\ Receive(peer, deciding, IF signing = 0 THEN keys' ELSE signing)
    BY <1>13 DEF SendDecision, commandVars
  <2>6. (IF signing = 0 THEN keys' ELSE signing) \in 1..keys' \/ deciding = Shared
    BY <2>1, <1>a
  <2> QED
    BY <2>1, <2>2, <2>3, <2>4, <2>5, <2>6, <1>12, <1>b, <1>c
<1>14. CASE SendPrompt
  <2>1. /\ Receive(Shared, Shared, 0) /\ peer # Nobody
        /\ UNCHANGED <<deciding, keyVars, publicKey, pairing>>
    BY <1>14 DEF SendPrompt, Receive, keyVars
  <2>2. KeyTypes' /\ OneKeyPair' /\ keys <= keys'
    BY <2>1, <1>a DEF KeyTypes, OneKeyPair, KeyInv, keyVars
  <2> QED
    BY <2>1, <2>2, <1>12, <1>b, <1>c
<1>15. ASSUME NEW n \in DOMAIN waiting, Expires(n)
       PROVE  KeyInv'
  <2>1. /\ DOMAIN waiting' = DOMAIN waiting
        /\ \A m \in DOMAIN waiting :
             /\ waiting'[m].signer = waiting[m].signer /\ waiting'[m].key = waiting[m].key
             /\ waiting'[m].id = waiting[m].id /\ waiting'[m].device = waiting[m].device
    BY <1>15 DEF Expires
  <2> QED
    BY <2>1, <1>0, <1>15 DEF Expires, browserVars, pairVars
<1>16. ASSUME NEW n \in DOMAIN waiting, NEW outcome, Ends(n, outcome)
       PROVE  KeyInv'
  BY <1>0, <1>16 DEF Ends, Done, browserVars, pairVars
<1>17. ASSUME NEW n \in DOMAIN waiting, CommandNext(n)
       PROVE  KeyInv'
  <2>1. CASE StartCheck(n)
    BY <2>1, <1>0 DEF StartCheck, browserVars, commandVars, pairVars
  <2> QED
    BY <2>1, <1>15, <1>16, <1>17 DEF CommandNext, Refuse, Expire, Offline, Forward
<1>18. CASE UNCHANGED vars
  BY <1>0, <1>18 DEF vars, browserVars, commandVars, pairVars
<1> QED
  BY <1>2, <1>3, <1>4, <1>5, <1>6, <1>7, <1>8, <1>11, <1>13, <1>14, <1>17, <1>18 DEF Next

-----------------------------------------------------------------------------
(* Theorems.                                                               *)

(* Nothing is offered, linked or queued at first.                          *)
LEMMA InitAccess == Init => AccessInv
<1> SUFFICES ASSUME Init PROVE AccessInv
  OBVIOUS
<1>1. IInv
  BY InitInv DEF Init
<1>2. OfferInv
  BY DEF Init, OfferInv, OneDevicePerOffer
<1>3. LinkInv
  BY DEF Init, LinkInv
<1>4. CommandInv
  <2>1. <<>> \in Seq(Nat) /\ frames = <<>>
    BY DEF Init
  <2>2. DOMAIN waiting = {}
    BY DEF Init
  <2>3. received = 0 /\ checking = FALSE /\ offering = {} /\ peer = Nobody
    BY DEF Init
  <2>4. settings.token \in Peer
    BY DEF Init, Peer
  <2> QED
    BY <2>1, <2>2, <2>3, <2>4 DEF CommandInv
<1>5. KeyInv
  <2>1. KeyTypes /\ DOMAIN waiting = {}
    BY DEF Init, KeyTypes
  <2>2. settings.device \notin Devices
    BY DevicesAssumption DEF Init
  <2>3. deciding \notin Devices /\ pairing \notin Devices
    BY NobodyAssumption DEF Init
  <2>4. OneKeyPair /\ peer = Nobody /\ deciding = Nobody /\ settings.device = Shared
    BY <2>3, NobodyAssumption DEF Init, OneKeyPair, Shared, Nobody
  <2> QED
    BY <2>1, <2>2, <2>3, <2>4 DEF KeyInv, Holds
<1> QED
  BY <1>1, <1>2, <1>3, <1>4, <1>5 DEF AccessInv

(* Every step of relay, agent and browser keeps the invariant.             *)
LEMMA StepAccess == AccessInv /\ [Next]_vars => AccessInv'
<1> SUFFICES ASSUME AccessInv, [Next]_vars PROVE AccessInv'
  OBVIOUS
<1>1. IInv'
  BY StepOfRegistry, StepInv DEF AccessInv, CommandInv
<1> QED
  BY <1>1, OfferStep, LinkStep, CommandStep, KeyStep DEF AccessInv

(* The invariant of the relay's access is one.                             *)
THEOREM AccessInvariant == Spec => []AccessInv
  BY InitAccess, StepAccess, PTL DEF Spec

(* What the whole system does to the registry is what the registry allows. *)
THEOREM AccessImplementsRegistry == Spec => RegistrySpec
<1>1. Init => RegistryInit
  BY DEF Init
<1>2. AccessInv /\ [Next]_vars => [RegistryNext]_registryVars
  BY StepOfRegistry DEF AccessInv, CommandInv
<1> QED
  BY <1>1, <1>2, AccessInvariant, PTL DEF Spec, RegistrySpec

(* So what was reported of a device stays true in the whole system, too.   *)
THEOREM AccessImplementsGrants == Spec => ImplementsDeviceGrants
  BY AccessImplementsRegistry, RegistryImplementsGrants, PTL

(* A registration of a pairing code pairs one device at most.              *)
THEOREM CodesPairOnce == Spec => []OneDevicePerOffer
<1>1. AccessInv => OneDevicePerOffer
  BY DEF AccessInv, OfferInv
<1> QED
  BY <1>1, AccessInvariant, PTL

(* The host is reached by its last connection.                             *)
THEOREM LastLinkServes == Spec => []NewestLinkServes
<1>1. AccessInv => NewestLinkServes
  BY DEF AccessInv, LinkInv, NewestLinkServes
<1> QED
  BY <1>1, AccessInvariant, PTL

(* Only a command that is handled changes the answer.                      *)
LEMMA AnswerKept ==
  ASSUME [Next]_vars, ~\E n \in DOMAIN waiting : CommandNext(n)
  PROVE  answer' = answer
<1>1. CASE Start \/ Write \/ Kill \/ AgentConnects \/ HandleOffer \/ LoseKey \/ AskToPair \/ MakeKey
           \/ PairLapsed \/ Adopt \/ PairingFails \/ SaveSettings
  BY <1>1 DEF Start, Write, Kill, AgentConnects, HandleOffer, LoseKey, AskToPair, MakeKey,
     PairLapsed, Adopt, PairingFails, SaveSettings, commandVars
<1>2. CASE ClientConnects \/ ClientRejected \/ ClientLoses \/ Decide \/ SendDecision \/ SendPrompt
  BY <1>2 DEF ClientConnects, ClientRejected, ClientLoses, Decide, SendDecision, SendPrompt,
     Receive, commandVars
<1>3. ASSUME NEW l \in DOMAIN links, OfferArrives(l) \/ LinkEnds(l) \/ LinkCloses(l)
      PROVE  answer' = answer
  BY <1>3 DEF OfferArrives, LinkEnds, LinkCloses, commandVars
<1>4. ASSUME NEW d \in Devices,
             Pair(d) \/ \E caller \in Devices \cup {Shared} : Remove(caller, d)
      PROVE  answer' = answer
  BY <1>4 DEF Pair, Remove, commandVars
<1>5. CASE UNCHANGED vars
  BY <1>5 DEF vars, commandVars
<1> QED
  BY <1>1, <1>2, <1>3, <1>4, <1>5 DEF Next

(* Only Forward forwards, and only Refuse refuses.                         *)
LEMMA HandledBy ==
  ASSUME [Next]_vars, NEW n
  PROVE  /\ n \in Handled("forwarded") => Forward(n)
         /\ n \in Handled("refused") => Refuse(n)
<1>1. ASSUME NEW m \in DOMAIN waiting, CommandNext(m), answer' # answer
      PROVE  \E o \in {"refused", "failed", "forwarded"} :
               /\ answer' = Answer(m, o)
               /\ o = "forwarded" => Forward(m)
               /\ o = "refused" => Refuse(m)
  BY <1>1 DEF CommandNext, StartCheck, Refuse, Expire, Offline, Forward, Expires, Ends, Done,
     commandVars
<1>2. ASSUME NEW outcome, n \in Handled(outcome)
      PROVE  \/ outcome = "forwarded" /\ Forward(n)
             \/ outcome = "refused" /\ Refuse(n)
             \/ outcome \notin {"forwarded", "refused"}
  <2>1. answer' = Answer(n, outcome) /\ answer' # answer
    BY <1>2 DEF Handled
  <2>2. PICK m \in DOMAIN waiting : CommandNext(m)
    BY <2>1, AnswerKept
  <2>3. PICK o \in {"refused", "failed", "forwarded"} :
          /\ answer' = Answer(m, o)
          /\ o = "forwarded" => Forward(m)
          /\ o = "refused" => Refuse(m)
    BY <1>1, <2>1, <2>2
  <2>4. m = n /\ o = outcome
    BY <2>1, <2>3 DEF Answer
  <2> QED
    BY <2>3, <2>4
<1> QED
  BY <1>2

(* No decision that arrives after its device's revocation was reported     *)
(* goes to a host: a check begins only of a device that is paired in       *)
(* memory, and what was reported is there.                                 *)
THEOREM RevokedDecideNothing == Spec => RevokedIsSilent
<1>1. ASSUME AccessInv, [Next]_vars, NEW n \in Handled("forwarded")
      PROVE  ~waiting[n].late
  <2>1. Forward(n) /\ n \in DOMAIN waiting
    BY <1>1, HandledBy DEF Handled
  <2>2. Head(frames) = n /\ (waiting[n].device # Shared => checking)
    BY <2>1 DEF Forward, Admissible, First, NeedsCheck
  <2> QED
    <3> SUFFICES ASSUME waiting[n].late PROVE FALSE
      OBVIOUS
    <3>1. waiting[n].device # Shared
      BY <1>1, <2>1, DevicesAssumption DEF AccessInv, CommandInv
    <3>2. ~waiting[Head(frames)].late
      BY <1>1, <2>2, <3>1 DEF AccessInv, CommandInv
    <3> QED
      BY <2>2, <3>2
<1>2. AccessInv /\ [Next]_vars => [\A n \in Handled("forwarded") : ~waiting[n].late]_vars
  BY <1>1
<1> QED
  BY <1>2, AccessInvariant, PTL DEF Spec, RevokedIsSilent

(* What goes to a host has not expired, and goes by an open connection     *)
(* that is the host's last.                                                *)
THEOREM ForwardedInTime == Spec => ForwardsAreLive
<1>1. ASSUME AccessInv, [Next]_vars, NEW n \in Handled("forwarded")
      PROVE  ~waiting[n].lapsed /\ links[Len(links)] = "open"
  <2>1. Forward(n)
    BY <1>1, HandledBy
  <2>2. ~waiting[n].lapsed /\ agents # 0 /\ links[agents] = "open"
    BY <2>1 DEF Forward, Reachable
  <2> QED
    BY <2>2, <1>1 DEF AccessInv, LinkInv
<1>2. AccessInv /\ [Next]_vars =>
        [\A n \in Handled("forwarded") :
           ~waiting[n].lapsed /\ links[Len(links)] = "open"]_vars
  BY <1>1
<1> QED
  BY <1>2, AccessInvariant, PTL DEF Spec, ForwardsAreLive

(* A decision signed with the settings of its socket, which name its       *)
(* device, is refused only if that device has been revoked, or a key pair  *)
(* of the browser has been lost: it was reported, so the relay knows it,   *)
(* and as long as none is lost there is only one key pair.                 *)
THEOREM RefusedWithReason == Spec => RefusedForReason
<1> DEFINE reason(n) ==
      \/ devices[waiting[n].device] = Revoked
      \/ waiting[n].id = Shared
      \/ waiting[n].signer # waiting[n].id
      \/ losses > 0 /\ ~Verifies(n)
<1>1. ASSUME AccessInv, [Next]_vars, NEW n \in Handled("refused"),
             waiting[n].id # Shared, waiting[n].signer = waiting[n].id,
             devices[waiting[n].device] # Revoked
      PROVE  losses > 0 /\ ~Verifies(n)
  <2> DEFINE d == waiting[n].device
  <2>1. Refuse(n) /\ n \in DOMAIN waiting /\ First(n)
    BY <1>1, HandledBy DEF Handled, Refuse
  <2>2. up /\ d \in Peer
    BY <2>1, <1>1 DEF First, AccessInv, CommandInv
  <2>3. IsSigned(waiting[n])
    BY <2>1, <1>1 DEF AccessInv, KeyInv
  <2>4. waiting[n].signer = d /\ d \in Devices
    BY <2>2, <2>3, <1>1 DEF IsSigned, Peer
  <2>5. publicKey[d] \in 1..keys /\ told[d] # Unknown /\ waiting[n].key \in 1..keys
    BY <2>3, <2>4 DEF IsSigned, Holds
  <2>6. Signs(n)
    <3>1. told[d] <= devices[d] /\ told[d] \in 0..2 /\ devices[d] \in 0..2
      BY <2>2, <2>4, <1>1, ToldIsSo, Standings DEF AccessInv, IInv, RegistryTypeOK, Records
    <3>2. devices[d] = Paired
      BY <3>1, <2>5, <1>1, Standings
    <3> QED
      BY <3>2, <2>4 DEF Signs
  <2>7. ~Verifies(n)
    BY <2>1, <2>6 DEF Refuse
  <2>8. losses > 0
    <3> SUFFICES ASSUME losses = 0 PROVE FALSE
      BY <1>1 DEF AccessInv, KeyInv, KeyTypes
    <3>1. keys \in Nat /\ keys <= 1
      BY <1>1 DEF AccessInv, KeyInv, KeyTypes, OneKeyPair
    <3>2. publicKey[d] = 1 /\ waiting[n].key = 1
      BY <3>1, <2>5
    <3> QED
      BY <3>2, <2>7 DEF Verifies
  <2> QED
    BY <2>7, <2>8
<1>2. AccessInv /\ [Next]_vars => [\A n \in Handled("refused") : reason(n)]_vars
  BY <1>1
<1> QED
  BY <1>2, AccessInvariant, PTL DEF Spec, RefusedForReason

-----------------------------------------------------------------------------
(* Types, and the order of the frames.                                     *)

(* What LinkInv and CommandInv leave of the types.                         *)
KindInv ==
  /\ offering \subseteq DOMAIN links
  /\ waiting \in [DOMAIN waiting -> Command]
  /\ settings \in [token : Peer, device : Peer] /\ settings.device \in {Shared, settings.token}
  /\ {pairing, deciding} \subseteq Peer \cup {Nobody} /\ refused \in BOOLEAN
  /\ kills \in Nat /\ (~up => agents = 0)

(* Commands wait in the order in which they came, and behind the answer.   *)
QueueInv ==
  /\ frames \in Seq({0} \cup DOMAIN waiting)
  /\ answer \in [command : 0..received, outcome : Outcome]
  /\ \A i \in 1..Len(frames) : frames[i] # 0 =>
       /\ answer.command < frames[i]
       /\ \A j \in 1..Len(frames) : i < j /\ frames[j] # 0 => frames[i] < frames[j]
  /\ checking => NeedsCheck(Head(frames))

(* A sequence is one of the elements it has.                               *)
LEMMA Elements ==
  ASSUME NEW S, NEW T, NEW s \in Seq(S), \A i \in 1..Len(s) : s[i] \in T
  PROVE  s \in Seq(T)
<1>1. Len(s) \in Nat /\ s \in [1..Len(s) -> T]
  OBVIOUS
<1> QED
  BY <1>1, SeqDef

(* The frame whose turn it is, is there once: without it, the rest is left. *)
LEMMA WithoutIsTail ==
  ASSUME QueueInv, CommandInv, NEW n \in DOMAIN waiting, First(n)
  PROVE  /\ Without(n) = Tail(frames)
         /\ Tail(frames) \in Seq({0} \cup (DOMAIN waiting \ {n}))
         /\ Len(Tail(frames)) = Len(frames) - 1
         /\ \A i \in 1..Len(frames) - 1 : Tail(frames)[i] = frames[i + 1]
         /\ n # 0 /\ n = frames[1] /\ Len(frames) \in Nat \ {0}
<1>1. frames # <<>> /\ frames \in Seq(Nat) /\ n \in 1..received /\ received \in Nat
  BY DEF First, CommandInv
<1>2. Len(frames) \in Nat \ {0} /\ Head(frames) = frames[1] /\ DOMAIN frames = 1..Len(frames)
  BY <1>1
<1>3. n = frames[1] /\ n # 0
  BY <1>1, <1>2 DEF First
<1>4. ASSUME NEW i \in 2..Len(frames)
      PROVE  frames[i] # n
  <2>1. 1 \in 1..Len(frames) /\ i \in 1..Len(frames) /\ 1 < i
    BY <1>2
  <2>2. frames[i] # 0 => frames[1] < frames[i]
    BY <1>3, <2>1 DEF QueueInv
  <2>3. n \in Nat
    BY <1>1
  <2> QED
    BY <1>3, <2>2, <2>3
<1> DEFINE i == CHOOSE i \in DOMAIN frames : frames[i] = n
<1>5. i = 1
  BY <1>2, <1>3, <1>4
<1>6. Without(n) = SubSeq(frames, 1, 0) \o SubSeq(frames, 2, Len(frames))
  <2>1. Without(n) = SubSeq(frames, 1, i - 1) \o SubSeq(frames, i + 1, Len(frames))
    BY DEF Without
  <2> HIDE DEF i
  <2>2. i - 1 = 0 /\ i + 1 = 2
    BY <1>5
  <2> QED
    BY <2>1, <2>2
<1>7. Tail(frames) \in Seq(Nat) /\ Len(Tail(frames)) = Len(frames) - 1
      /\ \A k \in 1..Len(frames) - 1 : Tail(frames)[k] = frames[k + 1]
  BY <1>1, <1>2
<1>8. SubSeq(frames, 1, 0) = <<>> /\ SubSeq(frames, 2, Len(frames)) = Tail(frames)
  BY <1>1, <1>2
<1>9. <<>> \o Tail(frames) = Tail(frames)
  BY <1>7
<1>10. \A k \in 1..Len(frames) : frames[k] \in {0} \cup DOMAIN waiting
  BY DEF QueueInv
<1>11. Tail(frames) \in Seq({0} \cup (DOMAIN waiting \ {n}))
  <2>1. \A k \in 1..Len(Tail(frames)) : Tail(frames)[k] \in {0} \cup (DOMAIN waiting \ {n})
    BY <1>2, <1>4, <1>7, <1>10
  <2> QED
    BY <2>1, <1>7, Elements
<1> QED
  BY <1>2, <1>3, <1>6, <1>7, <1>8, <1>9, <1>11

(* A step that leaves the queue and what waits in it.                      *)
LEMMA QueueQuiet ==
  ASSUME QueueInv, UNCHANGED <<frames, received, waiting, answer, checking>>
  PROVE  QueueInv'
BY DEF QueueInv, NeedsCheck

(* A frame that comes goes behind the others.                              *)
LEMMA QueueGrows ==
  ASSUME QueueInv, CommandInv,
         \/ frames' = Append(frames, 0) /\ received' = received
         \/ /\ received' = received + 1 /\ received' \in DOMAIN waiting'
            /\ frames' = Append(frames, received'),
         UNCHANGED <<answer, checking>>, DOMAIN waiting \subseteq DOMAIN waiting',
         \A n \in DOMAIN waiting : waiting'[n] = waiting[n]
  PROVE  QueueInv'
<1>1. PICK f \in {0} \cup DOMAIN waiting' :
        frames' = Append(frames, f) /\ (f # 0 => f = received + 1)
  BY DEF CommandInv
<1>2. frames \in Seq({0} \cup DOMAIN waiting') /\ Len(frames) \in Nat
  <2>1. \A i \in 1..Len(frames) : frames[i] \in {0} \cup DOMAIN waiting'
    BY DEF QueueInv
  <2> QED
    BY <2>1, Elements DEF QueueInv
<1>3. /\ frames' \in Seq({0} \cup DOMAIN waiting') /\ Len(frames') = Len(frames) + 1
      /\ \A i \in 1..Len(frames) : frames'[i] = frames[i]
      /\ frames'[Len(frames) + 1] = f
  BY <1>1, <1>2
<1>4. \A i \in 1..Len(frames) : frames[i] # 0 => frames[i] \in 1..received
  BY DEF QueueInv, CommandInv
<1>5. answer' \in [command : 0..received', outcome : Outcome] /\ answer.command \in 0..received
      /\ received \in Nat
  BY DEF QueueInv, CommandInv
<1>6. \A i \in 1..Len(frames') : frames'[i] # 0 =>
        /\ answer'.command < frames'[i]
        /\ \A j \in 1..Len(frames') : i < j /\ frames'[j] # 0 => frames'[i] < frames'[j]
  BY <1>1, <1>2, <1>3, <1>4, <1>5 DEF QueueInv
<1>7. checking' => NeedsCheck(Head(frames))'
  <2> SUFFICES ASSUME checking PROVE NeedsCheck(Head(frames))'
    OBVIOUS
  <2>1. frames # <<>> /\ Head(frames) \in DOMAIN waiting /\ NeedsCheck(Head(frames))
    BY DEF QueueInv, CommandInv
  <2>2. Head(frames') = Head(frames)
    BY <2>1, <1>1, <1>2, <1>3
  <2> QED
    BY <2>1, <2>2 DEF NeedsCheck
<1> QED
  BY <1>3, <1>5, <1>6, <1>7 DEF QueueInv

(* A frame that goes is the first.                                         *)
LEMMA QueueShrinks ==
  ASSUME QueueInv, CommandInv, KindInv, NEW n \in DOMAIN waiting, First(n),
         NEW o \in Outcome, Ends(n, o)
  PROVE  QueueInv' /\ KindInv' /\ answer'.command > answer.command
<1>1. /\ answer' = [command |-> n, outcome |-> o] /\ frames' = Without(n) /\ ~checking'
      /\ waiting' = [m \in DOMAIN waiting \ {n} |-> waiting[m]] /\ received' = received
      /\ UNCHANGED <<registryVars, offer, agents, links, offering, browserVars, pairVars>>
  BY DEF Ends, Done, First, Answer
<1>2. frames' = Tail(frames) /\ DOMAIN waiting' = DOMAIN waiting \ {n}
  BY <1>1, WithoutIsTail
<1>3. n \in 1..received /\ received \in Nat
  BY DEF CommandInv
<1>4. answer' \in [command : 0..received', outcome : Outcome] /\ answer'.command = n
  BY <1>1, <1>3
<1>5. frames' \in Seq({0} \cup DOMAIN waiting')
  BY <1>2, WithoutIsTail
<1>6. \A i \in 1..Len(frames') : frames'[i] # 0 =>
        /\ answer'.command < frames'[i]
        /\ \A j \in 1..Len(frames') : i < j /\ frames'[j] # 0 => frames'[i] < frames'[j]
  <2>1. Len(frames) \in Nat \ {0} /\ Len(frames') = Len(frames) - 1 /\ n # 0 /\ n = frames[1]
        /\ \A i \in 1..Len(frames) - 1 : frames'[i] = frames[i + 1]
    BY <1>2, WithoutIsTail
  <2>2. \A i \in 1..Len(frames') : frames'[i] # 0 => n < frames'[i]
    <3> SUFFICES ASSUME NEW i \in 1..Len(frames'), frames'[i] # 0 PROVE n < frames'[i]
      OBVIOUS
    <3>1. i + 1 \in 1..Len(frames) /\ 1 \in 1..Len(frames) /\ 1 < i + 1 /\ frames'[i] = frames[i + 1]
      BY <2>1
    <3> QED
      BY <2>1, <3>1 DEF QueueInv
  <2>3. ASSUME NEW i \in 1..Len(frames'), frames'[i] # 0,
               NEW j \in 1..Len(frames'), i < j, frames'[j] # 0
        PROVE  frames'[i] < frames'[j]
    <3>1. /\ i + 1 \in 1..Len(frames) /\ frames'[i] = frames[i + 1]
          /\ j + 1 \in 1..Len(frames) /\ frames'[j] = frames[j + 1] /\ i + 1 < j + 1
      BY <2>1, <2>3
    <3> QED
      BY <2>3, <3>1 DEF QueueInv
  <2> QED
    BY <1>4, <2>2, <2>3
<1>7. answer'.command > answer.command
  <2>1. Len(frames) \in Nat \ {0} /\ n # 0 /\ n = frames[1]
    BY WithoutIsTail
  <2>2. 1 \in 1..Len(frames)
    BY <2>1
  <2>3. answer.command < n
    BY <2>1, <2>2 DEF QueueInv
  <2>4. answer.command \in Nat /\ n \in Nat
    BY <1>3 DEF QueueInv
  <2> QED
    BY <1>4, <2>3, <2>4
<1>8. KindInv'
  <2>1. kills' = kills /\ UNCHANGED <<up, agents, links, offering, settings, pairing, refused, deciding>>
    BY <1>1 DEF Ends, Done, registryVars, browserVars
  <2>2. waiting' \in [DOMAIN waiting' -> Command]
    BY <1>1, <1>2 DEF KindInv
  <2> QED
    BY <2>1, <2>2 DEF KindInv
<1> QED
  BY <1>1, <1>4, <1>5, <1>6, <1>7, <1>8 DEF QueueInv

(* A step of the commands' queue leaves what is not its own.               *)
LEMMA KindQuiet ==
  ASSUME KindInv, offering' \subseteq DOMAIN links',
         UNCHANGED <<waiting, settings, pairing, deciding, refused, kills>>,
         ~up' => agents' = 0
  PROVE  KindInv'
BY DEF KindInv

(* The writer of the registry neither starts nor stops the relay.          *)
LEMMA UpKept ==
  ASSUME TakePayload \/ Rename \/ Persisted \/ PersistFails
  PROVE  up' = up
BY DEF TakePayload, Rename, Persisted, PersistFails, NextWrite

(* Every step keeps the order of the queue and the types.                  *)
LEMMA TypeStep ==
  ASSUME AccessInv, QueueInv, KindInv, [Next]_vars
  PROVE  QueueInv' /\ KindInv'
<1>0. CommandInv /\ LinkInv /\ KeyInv
  BY DEF AccessInv
<1>1. Len(links) \in Nat /\ DOMAIN links = 1..Len(links)
  BY <1>0 DEF LinkInv
<1>2. Nobody \in Peer \cup {Nobody} /\ Shared \in Peer /\ Devices \subseteq Peer
  BY DEF Peer
<1>3. CASE Start
  <2>1. up' /\ UNCHANGED <<relayVars, browserVars, commandVars, kills>>
    BY <1>3 DEF Start, Open
  <2> QED
    BY <2>1, QueueQuiet, KindQuiet DEF relayVars, browserVars, commandVars, KindInv
<1>4. CASE Write
  <2>1. up' = up /\ UNCHANGED <<relayVars, browserVars, commandVars, kills>>
    BY <1>4, UpKept DEF Write
  <2> QED
    BY <2>1, QueueQuiet, KindQuiet DEF relayVars, browserVars, commandVars, KindInv
<1>5. CASE Kill
  <2>1. /\ frames' = <<>> /\ checking' = FALSE /\ offering' = {} /\ agents' = 0
        /\ DOMAIN waiting' = {} /\ kills' = kills + 1
        /\ UNCHANGED <<settings, pairing, refused, deciding, received, answer>>
    BY <1>5 DEF Kill
  <2>2. frames' \in Seq({0} \cup DOMAIN waiting') /\ Len(frames') = 0
    BY <2>1
  <2>3. waiting' \in [DOMAIN waiting' -> Command]
    <3>1. waiting' = [n \in {} |-> {}]
      BY <1>5 DEF Kill
    <3> QED
      BY <3>1
  <2>4. QueueInv'
    BY <2>1, <2>2 DEF QueueInv
  <2> QED
    BY <2>1, <2>3, <2>4 DEF KindInv
<1>6. CASE AgentConnects
  <2>1. /\ Len(links') = Len(links) + 1 /\ DOMAIN links' = 1..Len(links')
        /\ offering' = offering \cup {Len(links')} /\ up' = up /\ up
    <3>1. links' = Append([l \in DOMAIN links |-> IF l = agents THEN "closing" ELSE links[l]], "open")
      BY <1>6 DEF AgentConnects
    <3>2. [l \in 1..Len(links) |-> IF l = agents THEN "closing" ELSE links[l]]
             \in Seq({"open", "closing", "gone"})
      <4>1. \A l \in 1..Len(links) : links[l] \in {"open", "closing", "gone"}
        BY <1>0 DEF LinkInv
      <4> QED
        BY <4>1, <1>1
    <3> QED
      BY <3>1, <3>2, <1>1, <1>6 DEF AgentConnects, registryVars
  <2>2. offering' \subseteq DOMAIN links'
    BY <2>1, <1>1 DEF KindInv
  <2> QED
    BY <2>1, <2>2, <1>6, QueueQuiet, KindQuiet DEF AgentConnects, browserVars, commandVars
<1>7. ASSUME NEW l \in DOMAIN links, OfferArrives(l)
      PROVE  QueueInv' /\ KindInv'
  <2>1. /\ frames' = Append(frames, 0)
        /\ UNCHANGED <<answer, checking, received, waiting>>
    BY <1>7 DEF OfferArrives, commandVars
  <2>2. QueueInv'
    BY <1>0, <2>1, QueueGrows
  <2> QED
    BY <2>2, <1>7, KindQuiet DEF OfferArrives, browserVars, commandVars, registryVars, KindInv
<1>8. ASSUME NEW l \in DOMAIN links, LinkCloses(l)
      PROVE  QueueInv' /\ KindInv'
  <2>1. DOMAIN links' = DOMAIN links /\ offering' \subseteq offering
        /\ agents' \in {0, agents} /\ up' = up
    BY <1>8 DEF LinkCloses, Forgets, registryVars
  <2> QED
    BY <2>1, <1>8, QueueQuiet, KindQuiet DEF LinkCloses, browserVars, commandVars, KindInv
<1>9. CASE HandleOffer
  <2>1. ~checking /\ frames' = Tail(frames) /\ frames # <<>>
    BY <1>0, <1>9 DEF HandleOffer, CommandInv
  <2>2. /\ Len(frames) \in Nat \ {0} /\ frames' \in Seq({0} \cup DOMAIN waiting)
        /\ Len(frames') = Len(frames) - 1
        /\ \A i \in 1..Len(frames) - 1 : frames'[i] = frames[i + 1]
    BY <2>1 DEF QueueInv
  <2>3. UNCHANGED <<received, waiting, answer, checking>>
    BY <1>9 DEF HandleOffer, commandVars
  <2>4. QueueInv'
    BY <2>1, <2>2, <2>3 DEF QueueInv
  <2> QED
    BY <2>4, <1>9, KindQuiet DEF HandleOffer, browserVars, commandVars, registryVars, KindInv
<1>10. CASE LoseKey \/ AskToPair \/ MakeKey \/ PairLapsed \/ PairingFails \/ ClientRejected
            \/ Decide
  <2>1. QueueInv'
    BY <1>10, QueueQuiet DEF LoseKey, AskToPair, MakeKey, PairLapsed, PairingFails,
       ClientRejected, Decide,
       relayVars, commandVars
  <2>2. UNCHANGED <<up, agents, links, offering, waiting, settings, kills>>
    BY <1>10 DEF LoseKey, AskToPair, MakeKey, PairLapsed, PairingFails,
       ClientRejected, Decide,
       relayVars, browserVars, commandVars, registryVars
  <2>3. pairing' \in {pairing, Shared, Nobody} /\ refused' \in {refused, TRUE}
        /\ deciding' \in {deciding, settings.device}
    BY <1>10 DEF LoseKey, AskToPair, MakeKey, PairLapsed, PairingFails, ClientRejected, Decide,
       browserVars
  <2> QED
    BY <2>1, <2>2, <2>3, <1>2 DEF KindInv
<1>11. ASSUME NEW d \in Devices, Pair(d)
       PROVE  QueueInv' /\ KindInv'
  <2>1. QueueInv'
    BY <1>11, QueueQuiet DEF Pair, commandVars
  <2>2. up' = up /\ pairing' \in {pairing, d}
        /\ UNCHANGED <<agents, links, offering, waiting, settings, deciding, refused, kills>>
    BY <1>11 DEF Pair, Issue, commandVars
  <2> QED
    BY <2>1, <2>2, <1>2 DEF KindInv
<1>12. ASSUME NEW d \in Devices, NEW caller \in Devices \cup {Shared}, Remove(caller, d)
       PROVE  QueueInv' /\ KindInv'
  <2>1. up' = up /\ UNCHANGED <<relayVars, browserVars, commandVars, kills>>
    BY <1>12 DEF Remove, Revoke
  <2> QED
    BY <2>1, QueueQuiet, KindQuiet DEF relayVars, browserVars, commandVars, KindInv
<1>13. CASE Adopt \/ SaveSettings
  <2>1. QueueInv'
    BY <1>13, QueueQuiet DEF Adopt, SaveSettings, relayVars, commandVars
  <2>2. UNCHANGED <<up, agents, links, offering, waiting, deciding, kills>>
        /\ pairing' \in {pairing, Nobody} /\ refused' = FALSE
    BY <1>13 DEF Adopt, SaveSettings, Configure, relayVars, commandVars, registryVars
  <2>3. PICK token \in Peer, device \in Peer :
          settings' = [token |-> token, device |-> device] /\ device \in {Shared, token}
    BY <1>13, <1>2 DEF Adopt, SaveSettings, Configure, KindInv
  <2>4. settings' \in [token : Peer, device : Peer] /\ settings'.device \in {Shared, settings'.token}
    BY <2>3
  <2> QED
    BY <2>1, <2>2, <2>4, <1>2 DEF KindInv
<1>14. CASE ClientConnects \/ ClientLoses
  <2>1. up' = up /\ UNCHANGED <<relayVars, settings, pairing, refused, deciding, commandVars, kills>>
    BY <1>14 DEF ClientConnects, ClientLoses, Verify, registryVars
  <2> QED
    BY <2>1, QueueQuiet, KindQuiet DEF relayVars, commandVars, KindInv
<1>15. ASSUME NEW device \in Peer, NEW signer \in Peer, NEW pair \in Nat,
              Receive(device, signer, pair), deciding' \in {deciding, Nobody}
       PROVE  QueueInv' /\ KindInv'
  <2> DEFINE new == [device |-> device, signer |-> signer, key |-> pair,
                     id |-> IF device = Shared THEN Shared ELSE settings.device,
                     lapsed |-> FALSE, late |-> device \in Devices /\ told[device] = Revoked]
  <2>1. /\ received' = received + 1 /\ frames' = Append(frames, received')
        /\ waiting' = [n \in DOMAIN waiting \cup {received'} |->
                         IF n \in DOMAIN waiting THEN waiting[n] ELSE new]
        /\ UNCHANGED <<up, agents, links, offering, settings, pairing, refused, answer, checking, kills>>
    BY <1>15 DEF Receive, registryVars
  <2>2. new \in Command
    BY <1>2 DEF Command, KindInv
  <2>3. waiting' \in [DOMAIN waiting' -> Command] /\ DOMAIN waiting' = DOMAIN waiting \cup {received'}
        /\ \A n \in DOMAIN waiting : waiting'[n] = waiting[n]
    <3> HIDE DEF new
    <3> QED
      BY <2>1, <2>2 DEF KindInv
  <2>4. QueueInv'
    BY <1>0, <2>1, <2>3, QueueGrows
  <2> QED
    BY <2>1, <2>3, <2>4, <1>15 DEF KindInv
<1>16. CASE SendDecision
  <2>1. deciding' = Nobody /\ deciding \in Peer /\ peer \in Peer \cup {Nobody}
    BY <1>0, <1>16 DEF SendDecision, KindInv, CommandInv
  <2>2. CASE peer = Nobody
    <3>1. UNCHANGED <<up, relayVars, settings, pairing, refused, commandVars, kills>>
      BY <2>2, <1>16 DEF SendDecision, registryVars
    <3>2. QueueInv'
      BY <3>1, QueueQuiet DEF relayVars, commandVars
    <3> QED
      BY <3>1, <3>2, <2>1 DEF KindInv, relayVars, commandVars
  <2>3. CASE peer \in Peer /\ peer # Nobody
    <3>1. signing \in Nat /\ (signing = 0 /\ deciding # Shared => keys' \in Nat)
      BY <1>0, <1>16 DEF SendDecision, StoreNewKey, KeyInv, KeyTypes
    <3>2. \/ Receive(peer, Shared, 0)
          \/ deciding # Shared /\ Receive(peer, deciding, IF signing = 0 THEN keys' ELSE signing)
      BY <2>3, <1>16 DEF SendDecision
    <3> QED
      BY <3>1, <3>2, <2>1, <2>3, <1>2, <1>15
  <2> QED
    BY <2>1, <2>2, <2>3
<1>17. CASE SendPrompt
  BY <1>2, <1>15, <1>17 DEF SendPrompt
<1>18. ASSUME NEW n \in DOMAIN waiting, Expires(n)
       PROVE  QueueInv' /\ KindInv'
  <2>1. /\ waiting' = [waiting EXCEPT ![n].lapsed = TRUE]
        /\ UNCHANGED <<registryVars, relayVars, browserVars, received, answer, kills>>
    BY <1>18 DEF Expires
  <2>2. waiting' \in [DOMAIN waiting' -> Command] /\ DOMAIN waiting' = DOMAIN waiting
        /\ \A m \in DOMAIN waiting : waiting'[m].device = waiting[m].device
    BY <2>1 DEF KindInv, Command
  <2>3. checking => Head(frames) \in DOMAIN waiting
    BY <1>0 DEF CommandInv
  <2>4. QueueInv'
    BY <2>1, <2>2, <2>3 DEF QueueInv, NeedsCheck, relayVars
  <2> QED
    BY <2>1, <2>2, <2>4 DEF KindInv, registryVars, relayVars, browserVars
<1>19. ASSUME NEW n \in DOMAIN waiting, StartCheck(n)
       PROVE  QueueInv' /\ KindInv'
  <2>1. /\ checking' = TRUE /\ NeedsCheck(n) /\ Head(frames) = n
        /\ UNCHANGED <<registryVars, agents, frames, links, offering, browserVars, commandVars, kills>>
    BY <1>19 DEF StartCheck, First
  <2>2. QueueInv'
    BY <2>1 DEF QueueInv, NeedsCheck, commandVars
  <2> QED
    BY <2>1, <2>2, KindQuiet DEF registryVars, browserVars, commandVars, KindInv
<1>20. ASSUME NEW n \in DOMAIN waiting, CommandNext(n)
       PROVE  QueueInv' /\ KindInv'
  <2>1. {"refused", "failed", "forwarded"} \subseteq Outcome
    BY DEF Outcome
  <2> QED
    BY <1>0, <1>18, <1>19, <1>20, <2>1, QueueShrinks
       DEF CommandNext, Refuse, Expire, Offline, Forward, Admissible
<1>21. CASE UNCHANGED vars
  BY <1>21, QueueQuiet, KindQuiet DEF vars, relayVars, browserVars, commandVars, registryVars, KindInv
<1>22. ASSUME NEW l \in DOMAIN links, LinkEnds(l)
      PROVE  QueueInv' /\ KindInv'
  <2>1. DOMAIN links' = DOMAIN links /\ UNCHANGED <<offering, agents, up>>
    BY <1>22 DEF LinkEnds, registryVars
  <2> QED
    BY <2>1, <1>22, QueueQuiet, KindQuiet DEF LinkEnds, browserVars, commandVars, KindInv
<1> QED
  BY <1>3, <1>4, <1>5, <1>6, <1>7, <1>8, <1>9, <1>10, <1>11, <1>12, <1>13, <1>14, <1>16, <1>17,
     <1>20, <1>21, <1>22 DEF Next

(* The queue is empty at first.                                            *)
LEMMA InitTypes == Init => QueueInv /\ KindInv
<1> SUFFICES ASSUME Init PROVE QueueInv /\ KindInv
  OBVIOUS
<1>1. /\ frames = <<>> /\ received = 0 /\ checking = FALSE
      /\ answer = [command |-> 0, outcome |-> "none"]
  BY DEF Init, Answer
<1>2. QueueInv
  BY <1>1 DEF QueueInv, Outcome
<1>3. waiting \in [DOMAIN waiting -> Command]
  <2>1. waiting = [n \in {} |-> {}]
    BY DEF Init
  <2> QED
    BY <2>1
<1>4. KindInv
  BY <1>3 DEF Init, KindInv, Peer
<1> QED
  BY <1>2, <1>4

(* So they hold in every state.                                            *)
LEMMA TypesHold == Spec => [](AccessInv /\ QueueInv /\ KindInv)
<1>1. AccessInv /\ QueueInv /\ KindInv /\ [Next]_vars => (AccessInv /\ QueueInv /\ KindInv)'
  BY StepAccess, TypeStep
<1> QED
  BY <1>1, InitAccess, InitTypes, PTL DEF Spec

(* Every variable has its type: the queue holds offers and the commands    *)
(* that wait, a check is of the first of them, and a relay that does not   *)
(* run has neither frames nor sockets.                                     *)
THEOREM AccessTypes == Spec => []TypeOK
<1>1. ASSUME AccessInv, QueueInv, KindInv
      PROVE  TypeOK
  <2>1. agents \in 0..Len(links) /\ links \in Seq({"open", "closing", "gone"})
    BY <1>1 DEF AccessInv, LinkInv
  <2>2. RegistryTypeOK /\ offers \in Nat /\ offer \in 0..offers /\ origin \in [Devices -> 0..offers]
    BY <1>1 DEF AccessInv, IInv, OfferInv
  <2>3. KeyTypes
    BY <1>1 DEF AccessInv, KeyInv
  <2>4. received \in Nat /\ checking \in BOOLEAN /\ peer \in Peer \cup {Nobody}
        /\ (~up => frames = <<>> /\ peer = Nobody)
        /\ (checking => frames # <<>> /\ Head(frames) \in DOMAIN waiting)
    BY <1>1 DEF AccessInv, CommandInv
  <2> QED
    BY <1>1, <2>1, <2>2, <2>3, <2>4 DEF TypeOK, QueueInv, KindInv, KeyTypes
<1> QED
  BY <1>1, TypesHold, PTL

(* Commands are handled in the order in which they arrived: whoever is     *)
(* handled was the first of the queue, all behind it came after it, and so *)
(* did all that have been handled before it come before.                   *)
THEOREM CommandsInOrder == Spec => HandledInOrder
<1>1. ASSUME AccessInv, QueueInv, KindInv, [Next]_vars, answer' # answer
      PROVE  answer'.command > answer.command
  <2>1. PICK n \in DOMAIN waiting : CommandNext(n)
    BY <1>1, AnswerKept
  <2>2. {"refused", "failed", "forwarded"} \subseteq Outcome
    BY DEF Outcome
  <2>3. PICK o \in Outcome : First(n) /\ Ends(n, o)
    BY <1>1, <2>1, <2>2 DEF CommandNext, StartCheck, Refuse, Expire, Offline, Forward,
       Admissible, Expires, commandVars
  <2> QED
    BY <1>1, <2>3, QueueShrinks DEF AccessInv
<1>2. AccessInv /\ QueueInv /\ KindInv /\ [Next]_vars =>
        [answer' # answer => answer'.command > answer.command]_vars
  BY <1>1
<1> QED
  BY <1>2, TypesHold, PTL DEF Spec, HandledInOrder
=============================================================================
