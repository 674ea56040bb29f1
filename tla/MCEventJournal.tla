--------------------------- MODULE MCEventJournal ---------------------------
(* EventJournal on small instances, with the abstract log it implements.   *)
EXTENDS EventJournal

NoFaults  == {}
AllFaults == IOCalls

(* The journal is a durable log: up from the moment its file is replayed.  *)
Log == INSTANCE DurableLog WITH
         Capacity <- MaxEvents, up <- pc # "down", window <- events

ImplementsDurableLog == Log!Spec
=============================================================================
