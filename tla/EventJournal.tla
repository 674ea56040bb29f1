---------------------------- MODULE EventJournal ----------------------------
(***************************************************************************)
(* The relay's event journal (apps/relay/src/event-journal.ts): a JSONL    *)
(* file that every validated event is appended to, and synced to, before   *)
(* the relay broadcasts it; a window of the newest MaxEvents events in     *)
(* memory; and a compaction that rewrites the file from that window.       *)
(*                                                                         *)
(* An event is the number of its append call.  The text of the file is     *)
(* abstracted to what parsing tells apart: a line is the sequence of       *)
(* pieces written since the previous newline, a piece being the whole text *)
(* of an event or Cut, a text that stops short of its end.  A line parses  *)
(* when it is exactly one whole event.  `tail' is the last line, the one   *)
(* without a newline.                                                      *)
(***************************************************************************)
EXTENDS Naturals, Sequences

CONSTANTS
  MaxEvents,    \* options.maxEvents
  SyncWrites,   \* options.syncWrites
  PowerLoss,    \* whether the machine, and not only the process, may fail
  Faults,       \* the I/O calls that may fail, a subset of IOCalls
  Cut,          \* a text that stops short of the end of its record
  MaxAppends,   \* bound: append calls
  MaxFaults,    \* bound: I/O failures
  MaxCrashes    \* bound: crashes

IOCalls == {"write", "datasync", "temporary", "close", "rename", "directory", "reopen"}

ASSUME MaxEventsAssumption == MaxEvents \in Nat \ {0}
ASSUME OptionAssumption    == SyncWrites \in BOOLEAN /\ PowerLoss \in BOOLEAN
ASSUME FaultsAssumption    == Faults \subseteq IOCalls
ASSUME CutAssumption       == Cut \notin Nat
ASSUME BoundAssumption     == /\ MaxAppends \in Nat
                              /\ MaxFaults  \in Nat
                              /\ MaxCrashes \in Nat

VARIABLES
  disk,            \* the file at options.path, and how much of it is durable
  stale,           \* files a power loss may put back at options.path
  pc,              \* the await at which the running operation stands
  events,          \* this.events
  persistedLines,  \* this.persistedLines
  handle,          \* this.handle can be used: it is there, and no close of it failed
  pending,         \* operations queued on this.tail: event numbers, 0 for close
  current,         \* the event being appended, 0 for none
  issued,          \* history: append calls made so far
  acked,           \* history: events whose append resolved
  faults, crashes  \* bound counters

memory  == <<events, persistedLines, handle, pending, current>>
history == <<issued, acked>>
bounds  == <<faults, crashes>>
vars    == <<disk, stale, pc, memory, history, bounds>>

Event == Nat \ {0}
Piece == Event \union {Cut}

(* The newest n elements of a sequence: Array.prototype.slice(-n), n > 0.  *)
Newest(s, n) == IF Len(s) <= n THEN s ELSE SubSeq(s, Len(s) - n + 1, Len(s))

EmptyFile == [lines |-> <<>>, tail |-> <<>>, synced |-> 0, syncedTail |-> 0]

(* initialize: a text parses when it is one whole event.                   *)
Parses(line) == Len(line) = 1 /\ line[1] # Cut

(* initialize: only the last line, and only without a newline, may fail to *)
(* parse; anything else throws.                                            *)
Readable(d) == \A i \in DOMAIN d.lines : Parses(d.lines[i])

(* Mutant: no try around JSON.parse of the last line.                      *)
Parsed_TakesCutRecord(d) ==
  LET complete == [i \in DOMAIN d.lines |-> d.lines[i][1]]
  IN  IF d.tail # <<>> THEN Append(complete, d.tail[1]) ELSE complete

Parsed(d) ==
  LET complete == [i \in DOMAIN d.lines |-> d.lines[i][1]]
  IN  IF Parses(d.tail) THEN Append(complete, d.tail[1]) ELSE complete

TruncatedTail(d) == d.tail # <<>> /\ ~Parses(d.tail)

CompactionLimit == IF MaxEvents * 2 > 2 THEN MaxEvents * 2 ELSE 2

-----------------------------------------------------------------------------
(* What the file system does.                                              *)

(* appendFile of an event: its text and a newline end the last line.       *)
Written(d, e) ==
  [d EXCEPT !.lines = Append(d.lines, Append(d.tail, e)), !.tail = <<>>]

(* appendFile stopped half-way: nothing, part of the text, or all the text *)
(* but the newline has reached the file.                                   *)
HalfWritten(d, e) ==
  {[d EXCEPT !.tail = d.tail \o p] : p \in {<<>>, <<Cut>>, <<e>>}}

Synced(d) == [d EXCEPT !.synced = Len(d.lines), !.syncedTail = Len(d.tail)]

(* The file compact writes, syncs and renames into place.                  *)
Compacted ==
  [lines |-> [i \in DOMAIN events |-> <<events[i]>>], tail |-> <<>>,
   synced |-> Len(events), syncedTail |-> 0]

(* What a power loss may leave of a line of which the first n pieces are   *)
(* durable.                                                                *)
Remains(line, n) ==
       {SubSeq(line, 1, m) : m \in n..Len(line)}
  \cup {Append(SubSeq(line, 1, m), Cut) : m \in {x \in n..Len(line) : x < Len(line)}}

(* What a power loss may leave of a file: the durable part and any prefix  *)
(* of what follows it.                                                     *)
LineAt(d, i) == IF i <= Len(d.lines) THEN d.lines[i] ELSE d.tail

Survivors(d) ==
  UNION {{[lines |-> SubSeq(d.lines, 1, k), tail |-> t,
           synced |-> k, syncedTail |-> Len(t)] :
            t \in Remains(LineAt(d, k + 1),
                          IF k = d.synced THEN d.syncedTail ELSE 0)} :
         k \in d.synced..Len(d.lines)}

-----------------------------------------------------------------------------
Init ==
  /\ disk = EmptyFile
  /\ stale = {}
  /\ pc = "down"
  /\ events = <<>> /\ persistedLines = 0 /\ handle = FALSE
  /\ pending = <<>> /\ current = 0
  /\ issued = 0 /\ acked = {}
  /\ faults = 0 /\ crashes = 0

(* The process is gone: nothing of the memory is left.                     *)
Exit ==
  /\ pc' = "down"
  /\ events' = <<>> /\ persistedLines' = 0 /\ handle' = FALSE
  /\ pending' = <<>> /\ current' = 0

Fault(call) ==
  /\ call \in Faults
  /\ faults < MaxFaults
  /\ faults' = faults + 1
  /\ UNCHANGED crashes

(* The running operation is over and the next one in line may start.       *)
Resolve ==
  /\ pc' = "idle"
  /\ current' = 0
  /\ acked' = IF current = 0 THEN acked ELSE acked \cup {current}

(* Mutant: `tail' follows the result itself, so it stays rejected.         *)
Reject_HoldsQueue ==
  /\ pc' = "rejected"
  /\ current' = 0
  /\ UNCHANGED acked

Reject ==
  /\ pc' = "idle"
  /\ current' = 0
  /\ UNCHANGED acked

(* EventJournal.open: replay, and compact when the last record was cut     *)
(* short or the file holds more than the window.                           *)
Open ==
  /\ pc = "down"
  /\ Readable(disk)
  /\ events' = Newest(Parsed(disk), MaxEvents)
  /\ persistedLines' = Len(Parsed(disk))
  /\ handle' = TRUE
  /\ pc' = IF TruncatedTail(disk) \/ Len(Parsed(disk)) > MaxEvents
           THEN "openTemporary" ELSE "idle"
  /\ UNCHANGED <<disk, stale, pending, current, history, bounds>>

(* append and close queue their operation behind the ones before it.       *)
RequestAppend ==
  /\ pc # "down" /\ pc \notin {"openTemporary", "openRename", "openDirectory", "openReopen"}
  /\ issued < MaxAppends
  /\ issued' = issued + 1
  /\ pending' = Append(pending, issued + 1)
  /\ UNCHANGED <<disk, stale, pc, events, persistedLines, handle, current, acked, bounds>>

RequestClose ==
  /\ pc # "down" /\ pc \notin {"openTemporary", "openRename", "openDirectory", "openReopen"}
  /\ \A i \in DOMAIN pending : pending[i] # 0
  /\ pending' = Append(pending, 0)
  /\ UNCHANGED <<disk, stale, pc, events, persistedLines, handle, current, history, bounds>>

StartAppend ==
  /\ pc = "idle" /\ pending # <<>> /\ Head(pending) # 0
  /\ pending' = Tail(pending)
  /\ IF handle
     THEN pc' = "write" /\ current' = Head(pending)
     ELSE UNCHANGED <<pc, current>>              \* throws: the journal is closed
  /\ UNCHANGED <<disk, stale, events, persistedLines, handle, history, bounds>>

StartClose ==
  /\ pc = "idle" /\ pending # <<>> /\ Head(pending) = 0
  /\ pending' = Tail(pending)
  /\ handle' = FALSE
  /\ UNCHANGED <<disk, stale, pc, events, persistedLines, current, history, bounds>>

(* Mutant: compaction comes one line late.                                 *)
Record_OffByOne ==
  /\ persistedLines' = persistedLines + 1
  /\ events' = Newest(Append(events, current), MaxEvents)
  /\ IF persistedLines + 1 > CompactionLimit
     THEN pc' = "temporary" /\ UNCHANGED <<current, acked>>
     ELSE Resolve
  /\ UNCHANGED <<handle, pending, issued>>

(* After the last await of a successful write: count the line, slide the   *)
(* window, and compact when the file holds twice the window.               *)
Record ==
  /\ persistedLines' = persistedLines + 1
  /\ events' = Newest(Append(events, current), MaxEvents)
  /\ IF persistedLines + 1 >= CompactionLimit
     THEN pc' = "temporary" /\ UNCHANGED <<current, acked>>
     ELSE Resolve
  /\ UNCHANGED <<handle, pending, issued>>

(* Mutant: datasync is not awaited.                                        *)
Write_NotSynced ==
  /\ pc = "write"
  /\ disk' = Written(disk, current)
  /\ Record
  /\ UNCHANGED <<stale, bounds>>

Write ==
  /\ pc = "write"
  /\ disk' = Written(disk, current)
  /\ IF SyncWrites
     THEN pc' = "datasync" /\ UNCHANGED <<memory, history>>
     ELSE Record
  /\ UNCHANGED <<stale, bounds>>

WriteFails ==
  /\ pc = "write"
  /\ Fault("write")
  /\ disk' \in HalfWritten(disk, current)
  /\ Reject
  /\ UNCHANGED <<stale, events, persistedLines, handle, pending, issued>>

(* Mutant: another file is synced.                                         *)
Datasync_Elsewhere ==
  /\ pc = "datasync"
  /\ Record
  /\ UNCHANGED <<disk, stale, bounds>>

(* The data of the file is durable, and with it the file's directory entry *)
(* (what ext4, XFS and Btrfs do on fsync of a new or renamed file).        *)
Datasync ==
  /\ pc = "datasync"
  /\ disk' = Synced(disk)
  /\ stale' = {}
  /\ Record
  /\ UNCHANGED bounds

(* Mutant: a failed append is tried again from the start.                  *)
DatasyncFails_Retries ==
  /\ pc = "datasync"
  /\ Fault("datasync")
  /\ pc' = "write"
  /\ UNCHANGED <<disk, stale, memory, history>>

DatasyncFails ==
  /\ pc = "datasync"
  /\ Fault("datasync")
  /\ Reject
  /\ UNCHANGED <<disk, stale, events, persistedLines, handle, pending, issued>>

-----------------------------------------------------------------------------
(* compact, run by append ("temporary" ...) and by open ("openTemporary"   *)
(* ...).  Its failure rejects the append, or ends the process.             *)

Opening == pc \in {"openTemporary", "openRename", "openDirectory", "openReopen"}

(* The catch block: a handle that was closed is opened again, which may    *)
(* fail too; the temporary file is removed; the error goes to the caller.  *)
CompactFails(usable) ==
  IF Opening
  THEN Exit /\ UNCHANGED acked
  ELSE /\ handle' = usable
       /\ Reject
       /\ UNCHANGED <<events, persistedLines, pending>>

Reopens == {TRUE} \cup (IF "reopen" \in Faults THEN {FALSE} ELSE {})

(* Write and sync the temporary file, close the journal's handle.          *)
WriteTemporary ==
  /\ pc \in {"temporary", "openTemporary"}
  /\ pc' = IF Opening THEN "openRename" ELSE "rename"
  /\ handle' = FALSE
  /\ UNCHANGED <<disk, stale, events, persistedLines, pending, current, history, bounds>>

WriteTemporaryFails ==
  /\ pc \in {"temporary", "openTemporary"}
  /\ Fault("temporary")
  /\ CompactFails(handle)
  /\ UNCHANGED <<disk, stale, issued>>

(* The handle is still there, so nothing is opened in its stead, but its   *)
(* descriptor is given up: no call on it succeeds any more.                *)
CloseFails ==
  /\ pc \in {"temporary", "openTemporary"}
  /\ Fault("close")
  /\ CompactFails(FALSE)
  /\ UNCHANGED <<disk, stale, issued>>

Rename ==
  /\ pc \in {"rename", "openRename"}
  /\ disk' = Compacted
  /\ stale' = stale \cup {disk}
  /\ pc' = IF Opening THEN "openDirectory" ELSE "directory"
  /\ UNCHANGED <<memory, history, bounds>>

RenameFails ==
  /\ pc \in {"rename", "openRename"}
  /\ Fault("rename")
  /\ \E usable \in Reopens : CompactFails(usable)
  /\ UNCHANGED <<disk, stale, issued>>

SyncDirectory ==
  /\ pc \in {"directory", "openDirectory"}
  /\ stale' = {}
  /\ pc' = IF Opening THEN "openReopen" ELSE "reopen"
  /\ UNCHANGED <<disk, memory, history, bounds>>

SyncDirectoryFails ==
  /\ pc \in {"directory", "openDirectory"}
  /\ Fault("directory")
  /\ \E usable \in Reopens : CompactFails(usable)
  /\ UNCHANGED <<disk, stale, issued>>

Reopen ==
  /\ pc \in {"reopen", "openReopen"}
  /\ handle' = TRUE
  /\ persistedLines' = Len(events)
  /\ Resolve
  /\ UNCHANGED <<disk, stale, events, pending, issued, bounds>>

ReopenFails ==
  /\ pc \in {"reopen", "openReopen"}
  /\ Fault("reopen")
  /\ \E usable \in Reopens : CompactFails(usable)
  /\ UNCHANGED <<disk, stale, issued>>

-----------------------------------------------------------------------------
(* The relay stops once its journal is closed.                             *)
Stop ==
  /\ pc = "idle" /\ pending = <<>> /\ ~handle
  /\ Exit
  /\ UNCHANGED <<disk, stale, history, bounds>>

Interrupted == IF pc = "write" THEN HalfWritten(disk, current) ELSE {disk}

(* The process dies; what it wrote is in the hands of the system.          *)
Kill ==
  /\ pc # "down"
  /\ crashes < MaxCrashes
  /\ disk' \in Interrupted
  /\ crashes' = crashes + 1
  /\ Exit
  /\ UNCHANGED <<stale, history, faults>>

(* The machine dies: only what is durable is sure to be there afterwards.  *)
PowerCut ==
  /\ PowerLoss
  /\ crashes < MaxCrashes
  /\ \E d \in Interrupted \cup stale : disk' \in Survivors(d)
  /\ stale' = {}
  /\ crashes' = crashes + 1
  /\ Exit
  /\ UNCHANGED <<history, faults>>

(* The steps the journal takes by itself once an operation is queued.      *)
Step ==
  \/ StartAppend \/ StartClose
  \/ Write \/ WriteFails \/ Datasync \/ DatasyncFails
  \/ WriteTemporary \/ WriteTemporaryFails \/ CloseFails \/ Rename \/ RenameFails
  \/ SyncDirectory \/ SyncDirectoryFails \/ Reopen \/ ReopenFails

Next ==
  \/ Open \/ RequestAppend \/ RequestClose
  \/ Step
  \/ Stop \/ Kill \/ PowerCut

Spec == Init /\ [][Next]_vars

(* Queued operations run: promise reactions and file operations complete.  *)
FairSpec == Spec /\ WF_vars(Step)

-----------------------------------------------------------------------------
(* Properties.                                                             *)

File == [lines : Seq(Seq(Piece)), tail : Seq(Piece), synced : Nat, syncedTail : Nat]

(* The type of every variable.                                             *)
TypeOK ==
  /\ disk \in File
  /\ stale \subseteq File
  /\ pc \in {"down", "idle", "write", "datasync",
             "temporary", "rename", "directory", "reopen",
             "openTemporary", "openRename", "openDirectory", "openReopen"}
  /\ events \in Seq(Event)
  /\ persistedLines \in Nat
  /\ handle \in BOOLEAN
  /\ pending \in Seq(Nat)
  /\ current \in Nat
  /\ issued \in Nat
  /\ acked \subseteq Event
  /\ faults \in Nat /\ crashes \in Nat

(* Event e is in the window s, or has been pushed out of it by MaxEvents   *)
(* later ones.                                                             *)
InWindow(e, s) ==
  \/ \E i \in DOMAIN s : s[i] = e
  \/ Len(s) = MaxEvents /\ e < s[1]

(* Once an append has resolved, so that the event is broadcast, every      *)
(* later snapshot holds it or MaxEvents later ones: whatever crashes, torn *)
(* writes, failed calls and interrupted compactions come in between.       *)
AckedSurvives == pc # "down" => \A e \in acked : InWindow(e, events)

(* A snapshot lists events in the order of their append calls and each of  *)
(* them once, also across replays of a file that failed or interrupted     *)
(* operations have left records in.                                        *)
SnapshotOrdered ==
  \A i, j \in DOMAIN events : i < j => events[i] < events[j]

(* The journal stays bounded: between operations the file has fewer lines  *)
(* than the compaction limit, and only failed calls can put it over.       *)
JournalBounded == pc = "idle" => Len(disk.lines) < CompactionLimit + faults

(* A call of append settles, and cannot be held up for good by the failure *)
(* of an operation queued before it.                                       *)
InFlight(e) == current = e \/ \E i \in DOMAIN pending : pending[i] = e
AppendsSettle == \A e \in 1..MaxAppends : InFlight(e) ~> ~InFlight(e)

(* docs/architecture.md and ADR 0002: startup repairs a crash-truncated    *)
(* final record, so crashes alone never leave a file that startup refuses. *)
CrashesAreRepaired == Readable(disk)
=============================================================================
