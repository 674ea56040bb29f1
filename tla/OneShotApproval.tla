-------------------------- MODULE OneShotApproval --------------------------
(***************************************************************************)
(* What a host promises about approvals: each is open until its deadline,  *)
(* is settled at most once, by an opinion somebody holds on its very       *)
(* subject, and an approval that has lapsed is never settled.              *)
(***************************************************************************)
EXTENDS Naturals, Sequences

VARIABLES
  now,       \* time
  status,    \* by approval: "open", "settled" or "lapsed"
  deadline,  \* by approval
  subject,   \* by approval: what it is about
  opinions,  \* in order: what was decided, on which subject, until when it counts
  verdicts   \* in order: which approval was settled by which opinion

vars == <<now, status, deadline, subject, opinions, verdicts>>

Extends(f, g) == DOMAIN g \subseteq DOMAIN f /\ \A x \in DOMAIN g : f[x] = g[x]

Init ==
  /\ now = 0
  /\ DOMAIN status = {} /\ DOMAIN deadline = {} /\ DOMAIN subject = {}
  /\ opinions = <<>> /\ verdicts = <<>>

Pass ==
  /\ now' = now + 1
  /\ UNCHANGED <<status, deadline, subject, opinions, verdicts>>

Open ==
  /\ \E a \in DOMAIN status' \ DOMAIN status :
       /\ DOMAIN status' = DOMAIN status \cup {a}
       /\ status'[a] = "open"
  /\ Extends(status', status)
  /\ DOMAIN deadline' = DOMAIN status' /\ Extends(deadline', deadline)
  /\ DOMAIN subject' = DOMAIN status' /\ Extends(subject', subject)
  /\ UNCHANGED <<now, opinions, verdicts>>

Opine ==
  /\ Len(opinions') = Len(opinions) + 1
  /\ SubSeq(opinions', 1, Len(opinions)) = opinions
  /\ \E a \in DOMAIN subject : opinions'[Len(opinions')].digest = subject[a]
  /\ UNCHANGED <<now, status, deadline, subject, verdicts>>

Settle(a, o) ==
  /\ status[a] = "open"
  /\ now < deadline[a]
  /\ opinions[o].digest = subject[a] /\ now < opinions[o].expiresAt
  /\ status' = [status EXCEPT ![a] = "settled"]
  /\ verdicts' = Append(verdicts, <<a, o>>)
  /\ UNCHANGED <<now, deadline, subject, opinions>>

(* Any number of open approvals lapse, at a deadline or for another cause. *)
Lapse ==
  /\ DOMAIN status' = DOMAIN status
  /\ \A a \in DOMAIN status :
       status'[a] # status[a] => status[a] = "open" /\ status'[a] = "lapsed"
  /\ UNCHANGED <<now, deadline, subject, opinions, verdicts>>

Next ==
  \/ Pass \/ Open \/ Opine \/ Lapse
  \/ \E a \in DOMAIN status, o \in DOMAIN opinions : Settle(a, o)

Spec == Init /\ [][Next]_vars
=============================================================================
