----------------------------- MODULE RelayAccess -----------------------------
(***************************************************************************)
(* Who may do what at the relay: pairing offers, paired devices and their  *)
(* signatures, and the way of a command to a host (apps/relay/src/         *)
(* server.ts over DeviceRegistry), with the agent that offers codes        *)
(* (apps/agent/src/controller.ts) and the browser that pairs, connects,    *)
(* decides and revokes (apps/web/src/connection.ts and App.tsx).           *)
(*                                                                         *)
(* One host, whose agent prints a new code in every run, and one tab of a  *)
(* browser.  Others pair, too, and hold the shared token.  A device id     *)
(* stands for its token.  Frames of all sockets wait in one queue; events, *)
(* which wait there too, are EventPath's.                                  *)
(***************************************************************************)
EXTENDS DeviceRegistry, Integers

CONSTANTS
  MaxEvents,     \* bound: connections of the agent, offers, commands and lost keys,
                 \* taken together
  MaxKills,      \* bound: kills
  MaxPersists    \* bound: writes that wait

ASSUME BoundsAssumption ==
  {MaxEvents, MaxKills, MaxPersists} \subseteq Nat

Nobody == -1        \* no device, and not the caller with the shared token
ASSUME NobodyAssumption == Nobody \notin Devices

VARIABLES
  offer,       \* pairingOffers: the registration that can be used, 0 for none
  agents,      \* agents.get(host): a link, 0 for none
  frames,      \* agentFrameQueue: commands by number, offers as 0
  checking,    \* the first of them awaits verifySignature
  links,       \* sockets of agents, in order of authentication: their states
  offering,    \* those whose pairing offer is still to come
  settings,    \* of the browser: a token, and a device id or Shared for none
  pairing,     \* pairDevice: Nobody, Shared once asked, or the device issued to it
  peer,        \* as whom the browser's socket is authenticated, or Nobody
  refused,     \* the browser no longer reconnects
  deciding,    \* resolveApproval: settings.deviceId it works with, or Nobody
  received,    \* commands the relay got
  waiting,     \* those in frames: what there is to check about them
  answer,      \* the command handled last, and what became of it
  offers,      \* history: offers registered
  origin,      \* history: by device, the offer it was paired by
  publicKey,   \* by device: the number of its key pair, 0 for another browser's
  key,         \* the key pair that the browser has stored, 0 for none
  keys,        \* key pairs it has made, which are numbered
  losses,      \* how often the stored one could no longer be read
  asking,      \* pairDevice: the key pair of the request, 0 while there is none
  signing,     \* resolveApproval: the key pair it signs with, 0 if it has to make one
  kills        \* kills of the relay

relayVars   == <<offer, agents, frames, checking, links, offering>>
browserVars == <<settings, pairing, peer, refused, deciding>>
commandVars == <<received, waiting, answer>>
keyVars     == <<key, keys, losses, asking, signing>>
pairVars    == <<offers, origin, publicKey, keyVars>>
vars == <<registryVars, relayVars, browserVars, commandVars, pairVars, kills>>

Answer(n, outcome) == [command |-> n, outcome |-> outcome]

Init ==
  /\ RegistryInit
  /\ offer = 0 /\ agents = 0 /\ frames = <<>> /\ checking = FALSE
  /\ links = <<>> /\ offering = {}
  /\ settings = [token |-> Shared, device |-> Shared]
  /\ pairing = Nobody /\ peer = Nobody /\ refused = FALSE /\ deciding = Nobody
  /\ received = 0 /\ waiting = [n \in {} |-> {}] /\ answer = Answer(0, "none")
  /\ offers = 0 /\ origin = [d \in Devices |-> 0]
  /\ publicKey = [d \in Devices |-> 0]
  /\ key = 0 /\ keys = 0 /\ losses = 0 /\ asking = 0 /\ signing = 0
  /\ kills = 0

Fits(caller) == Len(persists) + Len(Seen(caller)) < MaxPersists
WithinBound  == Len(links) + offers + received + losses < MaxEvents

-----------------------------------------------------------------------------
(* The agent's connections, and its pairing offers.                        *)

(* authenticate of an agent, of the same run or of the next: an existing   *)
(* connection of the host is closed.                                       *)
AgentConnects ==
  /\ up /\ WithinBound
  /\ links' = Append([l \in DOMAIN links |-> IF l = agents THEN "closing" ELSE links[l]], "open")
  /\ agents' = Len(links')
  /\ offering' = offering \cup {Len(links')}
  /\ UNCHANGED <<registryVars, offer, frames, checking, browserVars, commandVars, pairVars, kills>>

(* registerPairingCode, as soon as the agent hears it is authenticated.    *)
OfferArrives(l) ==
  /\ l \in offering
  /\ offering' = offering \ {l}
  /\ frames' = Append(frames, 0)
  /\ UNCHANGED <<registryVars, offer, agents, checking, links, browserVars, commandVars,
                 pairVars, kills>>

(* Mutant: the close handler does not look whose socket is registered.     *)
Forgets_Any(l) == 0

(* The close handler forgets the host's socket if it is this one.          *)
Forgets(l) == IF agents = l THEN 0 ELSE agents

(* The registered connection begins to close: its socket is no longer open *)
(* long before the handler hears of it.                                    *)
LinkEnds(l) ==
  /\ links[l] = "open"
  /\ links' = [links EXCEPT ![l] = "closing"]
  /\ UNCHANGED <<registryVars, offer, agents, frames, checking, offering, browserVars,
                 commandVars, pairVars, kills>>

LinkCloses(l) ==
  /\ links[l] # "gone"
  /\ links' = [links EXCEPT ![l] = "gone"]
  /\ offering' = offering \ {l}
  /\ agents' = Forgets(l)
  /\ UNCHANGED <<registryVars, offer, frames, checking, browserVars, commandVars, pairVars, kills>>

(* registerPairingOffer: of a host only the last offer stays, and only its *)
(* code is any good.                                                       *)
HandleOffer ==
  /\ up /\ frames # <<>> /\ Head(frames) = 0
  /\ WithinBound
  /\ offers' = offers + 1
  /\ offer' = offers + 1
  /\ frames' = Tail(frames)
  /\ UNCHANGED <<registryVars, agents, checking, links, offering, browserVars,
                 commandVars, origin, publicKey, keyVars, kills>>

-----------------------------------------------------------------------------
(* Pairing: POST /pair, and pairDevice in the browser.                     *)

(* Mutant: ensureDeviceKeyPair does not find what it stored.               *)
StoredKey_Never == 0

(* ensureDeviceKeyPair takes the stored key pair, for every device of the  *)
(* browser.                                                                *)
StoredKey == key

(* There is none, or none that can be read: one is made, and stored over   *)
(* what another call of it may have stored meanwhile.                      *)
StoreNewKey == keys' = keys + 1 /\ key' = keys + 1

(* The stored key pair is lost or spoiled.                                 *)
LoseKey ==
  /\ key # 0 /\ WithinBound
  /\ key' = 0
  /\ losses' = losses + 1
  /\ UNCHANGED <<registryVars, relayVars, browserVars, commandVars, offers, origin,
                 publicKey, keys, asking, signing, kills>>

(* pairDevice; pairingBusy lets in one at a time.                          *)
AskToPair ==
  /\ pairing = Nobody
  /\ pairing' = Shared
  /\ asking' = StoredKey
  /\ UNCHANGED <<registryVars, relayVars, settings, peer, refused, deciding, commandVars,
                 offers, origin, publicKey, key, keys, losses, signing, kills>>

MakeKey ==
  /\ pairing = Shared /\ asking = 0
  /\ StoreNewKey
  /\ asking' = keys'
  /\ UNCHANGED <<registryVars, relayVars, browserVars, commandVars, offers, origin,
                 publicKey, losses, signing, kills>>

(* Mutant: the code is given up only when the device is persisted.         *)
Spent_Later == offer

(* The code is used up before issue is awaited, and stays so if it fails.  *)
Spent == 0

(* A request with the code of the offer, of this browser or another.       *)
Pair(d) ==
  /\ Fits(Shared) /\ offer # 0
  /\ origin[d] = 0 /\ \A e \in Devices : origin[e] = 0 => d <= e
  /\ Issue(d)
  /\ offer' = Spent
  /\ origin' = [origin EXCEPT ![d] = offer]
  /\ \/ /\ pairing = Shared /\ asking # 0
        /\ pairing' = d
        /\ publicKey' = [publicKey EXCEPT ![d] = asking]
        /\ asking' = 0
     \/ UNCHANGED <<pairing, publicKey, asking>>
  /\ UNCHANGED <<agents, frames, checking, links, offering, settings, peer, refused,
                 deciding, commandVars, offers, key, keys, losses, signing, kills>>

(* The offer has expired, which it may at any time.                        *)
PairLapsed ==
  /\ up /\ offer # 0
  /\ offer' = 0
  /\ UNCHANGED <<registryVars, agents, frames, checking, links, offering, browserVars,
                 commandVars, pairVars, kills>>

(* The settings change: the socket is closed, and a new one is tried.      *)
Configure(token, device) ==
  /\ settings' = [token |-> token, device |-> device]
  /\ peer' = Nobody
  /\ refused' = FALSE

(* The browser has the token and keeps it with the device id.              *)
Adopt ==
  /\ pairing \in Devices /\ told[pairing] # Unknown
  /\ Configure(pairing, pairing)
  /\ pairing' = Nobody
  /\ UNCHANGED <<registryVars, relayVars, deciding, commandVars, pairVars, kills>>

(* Any other answer, or none.                                              *)
PairingFails ==
  /\ pairing # Nobody
  /\ pairing' = Nobody
  /\ asking' = 0
  /\ UNCHANGED <<registryVars, relayVars, settings, peer, refused, deciding, commandVars,
                 offers, origin, publicKey, key, keys, losses, signing, kills>>

(* saveSettings drops the device id, whatever token is saved.              *)
SaveSettings ==
  /\ \E token \in {Shared, settings.token} : Configure(token, Shared)
  /\ UNCHANGED <<registryVars, relayVars, pairing, deciding, commandVars,
                 pairVars, kills>>

(* DELETE /devices/:id, of this browser or with the shared token.          *)
Remove(caller, d) ==
  /\ Fits(caller)
  /\ caller \in {Shared, settings.token}
  /\ Revoke(caller, d)
  /\ UNCHANGED <<relayVars, browserVars, commandVars, pairVars, kills>>

-----------------------------------------------------------------------------
(* The browser's connection and its commands.                              *)

(* authenticate of a client.                                               *)
ClientConnects ==
  /\ peer = Nobody /\ ~refused /\ Fits(settings.token)
  /\ Verify(settings.token)
  /\ peer' = settings.token
  /\ UNCHANGED <<relayVars, settings, pairing, refused, deciding,
                 commandVars, pairVars, kills>>

ClientRejected ==
  /\ up /\ peer = Nobody /\ ~refused
  /\ ~Admitted(settings.token)
  /\ refused' = TRUE
  /\ UNCHANGED <<registryVars, relayVars, settings, pairing, peer, deciding,
                 commandVars, pairVars, kills>>

ClientLoses ==
  /\ peer # Nobody
  /\ peer' = Nobody
  /\ UNCHANGED <<registryVars, relayVars, settings, pairing, refused, deciding,
                 commandVars, pairVars, kills>>

(* A decision is checked and signed before it is sent; meanwhile the       *)
(* settings may change.                                                    *)
Decide ==
  /\ deciding = Nobody
  /\ WithinBound
  /\ deciding' = settings.device
  /\ signing' = IF settings.device = Shared THEN 0 ELSE StoredKey
  /\ UNCHANGED <<registryVars, relayVars, settings, pairing, peer, refused, commandVars,
                 offers, origin, publicKey, key, keys, losses, asking, kills>>

(* The relay gets a command of the browser's socket: a decision with the   *)
(* signature of a device, made with a key pair, or one of no device, which *)
(* a prompt is as well.  (`id' is what the settings say by then.)          *)
Receive(device, signer, pair) ==
  /\ WithinBound
  /\ received' = received + 1
  /\ frames' = Append(frames, received')
  /\ waiting' = [n \in DOMAIN waiting \cup {received'} |->
       IF n \in DOMAIN waiting THEN waiting[n]
       ELSE [device |-> device, signer |-> signer, key |-> pair,
             id |-> IF device = Shared THEN Shared ELSE settings.device,
             lapsed |-> FALSE, late |-> device \in Devices /\ told[device] = Revoked]]
  /\ UNCHANGED <<registryVars, offer, agents, checking, links, offering, settings,
                 pairing, peer, refused, answer, offers, origin, publicKey, losses, asking,
                 kills>>

(* Without a connection send throws, and the decision is forgotten.        *)
SendDecision ==
  /\ deciding # Nobody
  /\ deciding' = Nobody
  /\ signing' = 0
  /\ IF deciding # Shared /\ signing = 0 THEN StoreNewKey ELSE UNCHANGED <<key, keys>>
  /\ IF peer = Nobody
     THEN UNCHANGED <<registryVars, relayVars, settings, pairing, peer, refused, commandVars,
                      offers, origin, publicKey, losses, asking, kills>>
     ELSE IF peer = Shared \/ deciding = Shared
          THEN Receive(peer, Shared, 0)
          ELSE Receive(peer, deciding, IF signing = 0 THEN keys' ELSE signing)

SendPrompt ==
  /\ peer # Nobody
  /\ Receive(Shared, Shared, 0)
  /\ UNCHANGED <<deciding, key, keys, signing>>

(* Only the expiry of the first is looked at.                              *)
Expires(n) ==
  /\ frames # <<>> /\ Head(frames) = n /\ ~waiting[n].lapsed
  /\ waiting' = [waiting EXCEPT ![n].lapsed = TRUE]
  /\ UNCHANGED <<registryVars, relayVars, browserVars, received, answer, pairVars, kills>>

-----------------------------------------------------------------------------
(* handleClientFrame.                                                      *)

(* Mutant: the next frame does not wait for a check that is under way.     *)
First_NotChecked(n) ==
  \E i \in {1, 2} \cap DOMAIN frames : frames[i] = n /\ (i = 2 => checking)

(* The frame whose turn it is.                                             *)
First(n) == frames # <<>> /\ Head(frames) = n

(* verifyApprovalAuthorization has something to verify.                    *)
NeedsCheck(n) == waiting[n].device # Shared

Without(n) ==
  LET i == CHOOSE i \in DOMAIN frames : frames[i] = n
  IN  SubSeq(frames, 1, i - 1) \o SubSeq(frames, i + 1, Len(frames))

Done(n, outcome) ==
  /\ answer' = Answer(n, outcome)
  /\ frames' = Without(n)
  /\ waiting' = [m \in DOMAIN waiting \ {n} |-> waiting[m]]
  /\ UNCHANGED <<registryVars, offer, agents, links, offering, browserVars, received,
                 pairVars, kills>>

(* Mutant: the next frame finds the check still under way.                 *)
Ends_Checking(n, outcome) == Done(n, outcome) /\ UNCHANGED checking

(* The frame is done with; send of an error or to the agent.               *)
Ends(n, outcome) == Done(n, outcome) /\ checking' = (checking /\ Head(frames) # n)

(* Mutant: a revoked device's signature still counts.                      *)
Signs_Revoked(n) == waiting[n].signer = waiting[n].device

(* Signed for the device of the socket, which is not revoked.              *)
Signs(n) ==
  /\ waiting[n].signer = waiting[n].device
  /\ devices[waiting[n].device] = Paired

(* Made with the key pair of which the relay has the public half.          *)
Verifies(n) == waiting[n].key = publicKey[waiting[n].device]

StartCheck(n) ==
  /\ First(n) /\ ~checking
  /\ NeedsCheck(n) /\ Signs(n)
  /\ checking' = TRUE
  /\ UNCHANGED <<registryVars, offer, agents, frames, links, offering, browserVars,
                 commandVars, pairVars, kills>>

(* Missing, for another device, of a revoked device, or invalid.           *)
Refuse(n) ==
  /\ First(n) /\ NeedsCheck(n)
  /\ IF checking THEN ~Verifies(n) ELSE ~Signs(n)
  /\ Ends(n, "refused")

(* Nothing to check, or checked: what was valid when the frame was sent,   *)
(* or when its check began, may be so no longer.                           *)
Admissible(n) ==
  /\ First(n)
  /\ NeedsCheck(n) => checking /\ Verifies(n)

Expire(n) == Admissible(n) /\ waiting[n].lapsed /\ Ends(n, "failed")

Reachable == agents # 0 /\ links[agents] = "open"

Offline(n) ==
  /\ Admissible(n) /\ ~waiting[n].lapsed /\ ~Reachable
  /\ Ends(n, "failed")

(* Mutant: the expiry was looked at before the signature.                  *)
Forward_ExpiryFirst(n) ==
  /\ Admissible(n) /\ (waiting[n].lapsed => checking) /\ Reachable
  /\ Ends(n, "forwarded")

Forward(n) ==
  /\ Admissible(n) /\ ~waiting[n].lapsed /\ Reachable
  /\ Ends(n, "forwarded")

-----------------------------------------------------------------------------
(* Writes of the registry, and the life of the relay.                      *)

(* A revocation that is not written rejects in a handler that nobody       *)
(* awaits, and ends the process: Kill.                                     *)
Write ==
  /\ TakePayload \/ Rename \/ Persisted
     \/ (PersistFails /\ Head(persists).standing # Revoked)
  /\ UNCHANGED <<relayVars, browserVars, commandVars, pairVars, kills>>

Start == Open /\ UNCHANGED <<relayVars, browserVars, commandVars, pairVars, kills>>

(* The relay ends, by stop, a signal or a failure: offers, sockets and     *)
(* queued frames are gone.                                                 *)
Kill ==
  /\ kills < MaxKills
  /\ kills' = kills + 1
  /\ Killed
  /\ offer' = 0 /\ agents' = 0 /\ frames' = <<>> /\ checking' = FALSE
  /\ links' = [l \in DOMAIN links |-> "gone"] /\ offering' = {}
  /\ waiting' = [n \in {} |-> {}]
  /\ peer' = Nobody
  /\ UNCHANGED <<settings, pairing, refused, deciding, received, answer, pairVars>>

CommandNext(n) ==
  StartCheck(n) \/ Refuse(n) \/ Expire(n) \/ Offline(n) \/ Forward(n) \/ Expires(n)

Next ==
  \/ Start \/ Write \/ Kill
  \/ AgentConnects \/ HandleOffer
  \/ \E l \in DOMAIN links : OfferArrives(l) \/ LinkEnds(l) \/ LinkCloses(l)
  \/ LoseKey \/ AskToPair \/ MakeKey \/ PairLapsed \/ Adopt \/ PairingFails \/ SaveSettings
  \/ \E d \in Devices : Pair(d) \/ \E caller \in Devices \cup {Shared} : Remove(caller, d)
  \/ ClientConnects \/ ClientRejected \/ ClientLoses
  \/ Decide \/ SendDecision \/ SendPrompt
  \/ \E n \in DOMAIN waiting : CommandNext(n)

Spec == Init /\ [][Next]_vars

-----------------------------------------------------------------------------
Peer    == Devices \cup {Shared}
Command == [device : Peer, signer : Peer, key : Nat, id : Peer, lapsed : BOOLEAN, late : BOOLEAN]
Outcome == {"none", "refused", "failed", "forwarded"}

(* Types, the relay's queue and the frames that can be in it, and nothing  *)
(* of a relay that does not run.                                           *)
TypeOK ==
  /\ RegistryTypeOK
  /\ offer \in 0..offers /\ agents \in 0..Len(links)
  /\ links \in Seq({"open", "closing", "gone"}) /\ offering \subseteq DOMAIN links
  /\ received \in Nat /\ waiting \in [DOMAIN waiting -> Command]
  /\ answer \in [command : 0..received, outcome : Outcome]
  /\ frames \in Seq({0} \cup DOMAIN waiting)
  /\ checking \in BOOLEAN
  /\ checking => frames # <<>> /\ Head(frames) \in DOMAIN waiting /\ NeedsCheck(Head(frames))
  /\ settings \in [token : Peer, device : Peer] /\ settings.device \in {Shared, settings.token}
  /\ {pairing, peer, deciding} \subseteq Peer \cup {Nobody} /\ refused \in BOOLEAN
  /\ offers \in Nat /\ origin \in [Devices -> 0..offers]
  /\ {keys, losses, kills} \subseteq Nat /\ {key, asking, signing} \subseteq 0..keys
  /\ publicKey \in [Devices -> 0..keys]
  /\ ~up => frames = <<>> /\ agents = 0 /\ peer = Nobody

(* A registration of a pairing code pairs one device at most: although     *)
(* issue is awaited, two browsers with the same code do not both get a     *)
(* token, nor one browser two.                                             *)
OneDevicePerOffer ==
  \A d, e \in Devices : origin[d] # 0 /\ origin[d] = origin[e] => d = e

Handled(outcome) == {n \in DOMAIN waiting : answer' = Answer(n, outcome) /\ answer' # answer}

(* docs/getting-started.md: Revoke invalidates a browser's approval-       *)
(* signing key.  A decision that arrives after its device's revocation was *)
(* reported goes to no host, be its socket still open, the revocation's    *)
(* write overtaken by others, or the relay started again.                  *)
RevokedIsSilent == [][\A n \in Handled("forwarded") : ~waiting[n].late]_vars

(* Commands are handled in the order in which they arrived, although some  *)
(* wait for a signature to be checked: the prompt that follows a decision  *)
(* (askForSaferPath) does not overtake it.                                 *)
HandledInOrder == [][answer' # answer => answer'.command > answer.command]_vars

(* As long as the host's last connection is open the relay reaches the     *)
(* host by it, however late the connections it replaced are closed.        *)
NewestLinkServes ==
  up /\ links # <<>> /\ links[Len(links)] = "open" => agents = Len(links)

(* What the relay hands to a host had not expired by then, and its last    *)
(* connection is open, although both may have changed during the check.    *)
ForwardsAreLive ==
  [][\A n \in Handled("forwarded") : ~waiting[n].lapsed /\ links[Len(links)] = "open"]_vars

(* A decision that the browser signed with the settings of its socket is   *)
(* refused only if its device has been revoked.  The settings are others   *)
(* if they changed while it was signed; they name no device, and nothing   *)
(* is signed, once saveSettings has dropped the id and kept the token, and *)
(* a browser that has lost its key pair goes on with a new one, which the  *)
(* relay does not know.  Nothing else makes the relay refuse a decision.   *)
RefusedForReason ==
  [][\A n \in Handled("refused") :
       \/ devices[waiting[n].device] = Revoked
       \/ waiting[n].id = Shared
       \/ waiting[n].signer # waiting[n].id
       \/ losses > 0 /\ ~Verifies(n)]_vars
=============================================================================
