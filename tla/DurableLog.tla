----------------------------- MODULE DurableLog -----------------------------
(***************************************************************************)
(* What the relay may rely on of its journal, whatever happens to the      *)
(* process, the machine and the file: while the log is up its window only  *)
(* grows by newer events; an acknowledged event is never missing from a    *)
(* window that should hold it; and an event that was not acknowledged is   *)
(* there or not, but never out of order.                                   *)
(***************************************************************************)
EXTENDS Naturals, Sequences

CONSTANT Capacity    \* events a window holds

VARIABLES
  up,        \* the log can be read
  window,    \* the events it shows, oldest first
  issued,    \* events handed to it: 1..issued
  acked      \* events it acknowledged

vars == <<up, window, issued, acked>>

Increasing(s) == \A i, j \in DOMAIN s : i < j => s[i] < s[j]

Shows(s, e) == \/ \E i \in DOMAIN s : s[i] = e
               \/ Len(s) = Capacity /\ e < s[1]

Init == up = FALSE /\ window = <<>> /\ issued = 0 /\ acked = {}

Issue ==
  /\ up
  /\ issued' = issued + 1
  /\ UNCHANGED <<up, window, acked>>

(* The newest event enters the window, with or without its acknowledgement. *)
Admit(e) ==
  /\ up
  /\ \A i \in DOMAIN window : window[i] < e
  /\ LET all == Append(window, e)
     IN  window' = IF Len(all) <= Capacity THEN all ELSE Tail(all)
  /\ acked' \in {acked, acked \cup {e}}
  /\ UNCHANGED <<up, issued>>

Acknowledge(e) ==
  /\ up /\ Shows(window, e)
  /\ acked' = acked \cup {e}
  /\ UNCHANGED <<up, window, issued>>

Fail ==
  /\ up' = FALSE
  /\ window' = <<>>
  /\ UNCHANGED <<issued, acked>>

Recover ==
  /\ ~up
  /\ up' = TRUE
  /\ window' \in Seq(1..issued)
  /\ Len(window') <= Capacity
  /\ Increasing(window')
  /\ \A e \in acked : Shows(window', e)
  /\ UNCHANGED <<issued, acked>>

Next ==
  \/ Issue
  \/ \E e \in 1..issued : Admit(e) \/ Acknowledge(e)
  \/ Fail
  \/ Recover

Spec == Init /\ [][Next]_vars
=============================================================================
