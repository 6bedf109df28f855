------------------------------ MODULE Autosave ------------------------------
(***************************************************************************)
(* The AutosaveWorker thread beside the main thread that runs commands and *)
(* finally stop_all, the two files they write and what a killed process    *)
(* finds when it starts again.                                             *)
(*                                                                         *)
(* The game state is named by the state_version at which it was current.   *)
(* A save file is named by the two versions it mixes: save_snapshot copies *)
(* the build requests and the topology under the lock, but hands out the   *)
(* Inventory's own dictionaries, which json.dump reads later, when the     *)
(* lock is free again.                                                     *)
(***************************************************************************)
EXTENDS Naturals, FiniteSets

CONSTANTS
  MaxVersion,   \* bound: commands of one process
  MaxFailures,  \* bound: operating system errors while writing
  MaxCrashes    \* bound: killed processes

ASSUME AutosaveAssumption ==
  /\ MaxVersion \in Nat /\ MaxFailures \in Nat /\ MaxCrashes \in Nat

Flushers == {"main", "auto"}
Inodes == 1 .. 4     \* enough: the two paths and the two open files

\* "play": commands run; "flush", "signal", "join": inside AutosaveWorker.stop;
\* "done": stop_all goes on to the nodes; "raised": stop_all raised and the
\* finally clause follows; "aborted": it raised there too; "down": the process
\* was killed; "unloadable": the next start raised SaveDataError.
VARIABLES
  version,    \* _state_version
  lastSaved,  \* _last_saved_version
  step,       \* where each thread is in flush, "idle" outside
  snap,       \* the version save_snapshot returned to it
  seen,       \* the version current when its json.dump began
  handle,     \* the inode its open file writes, 0 when it has none
  disk,       \* what each inode holds
  mixed,      \* inodes that two open files write at once
  tmp, file,  \* the inode at the .tmp path and at save_path, 0 when absent
  auto,       \* the autosave thread: "running", "stopped", "dead"
  stopEvent,  \* _stop_event
  phase,      \* the main thread, see above
  retried,    \* stop_all is being run by the finally clause of run_cli
  overlapped, \* history: two flushes of this process ran at the same time
  failures, crashes

threads == <<step, snap, seen, handle>>
paths == <<disk, mixed, tmp, file>>
life == <<auto, stopEvent, phase, retried>>
bounds == <<failures, crashes>>
vars == <<version, lastSaved, step, snap, seen, handle, disk, mixed, tmp, file,
          auto, stopEvent, phase, retried, overlapped, failures, crashes>>

Partial == [whole |-> FALSE, inventory |-> 0, nodes |-> 0]
Whole(i, n) == [whole |-> TRUE, inventory |-> i, nodes |-> n]

Init ==
  /\ version = 0 /\ lastSaved = 0
  /\ step = [f \in Flushers |-> "idle"]
  /\ snap = [f \in Flushers |-> 0]
  /\ seen = [f \in Flushers |-> 0]
  /\ handle = [f \in Flushers |-> 0]
  /\ disk = [i \in Inodes |-> Partial]
  /\ mixed = {} /\ tmp = 0 /\ file = 0
  /\ auto = "running" /\ stopEvent = FALSE
  /\ phase = "play" /\ retried = FALSE
  /\ overlapped = FALSE
  /\ failures = 0 /\ crashes = 0

Flushing(f) == step[f] # "idle"
Goto(f, s) == step' = [step EXCEPT ![f] = s]

-----------------------------------------------------------------------------
(* The main thread                                                         *)

Command ==
  /\ phase = "play"
  /\ version < MaxVersion
  /\ version' = version + 1
  /\ UNCHANGED <<lastSaved, threads, paths, life, overlapped, bounds>>

BeginStop ==
  /\ phase \in {"play", "raised"}
  /\ phase' = "flush"
  /\ retried' = (phase = "raised")
  /\ Goto("main", "capture")
  /\ overlapped' = (overlapped \/ Flushing("auto"))
  /\ UNCHANGED <<version, lastSaved, snap, seen, handle, paths, auto, stopEvent, bounds>>

\* Faulty: joins without setting the event.
SkipSignal ==
  /\ phase = "signal"
  /\ phase' = "join"
  /\ UNCHANGED <<version, lastSaved, threads, paths, auto, stopEvent, retried,
                 overlapped, bounds>>

SignalStop ==
  /\ phase = "signal"
  /\ stopEvent' = TRUE
  /\ phase' = "join"
  /\ UNCHANGED <<version, lastSaved, threads, paths, auto, retried, overlapped, bounds>>

JoinReturns ==
  /\ phase = "join"
  /\ auto \in {"stopped", "dead"}
  /\ phase' = "done"
  /\ UNCHANGED <<version, lastSaved, threads, paths, auto, stopEvent, retried,
                 overlapped, bounds>>

-----------------------------------------------------------------------------
(* The autosave thread between two flushes                                 *)

WaitTimesOut ==
  /\ auto = "running" /\ ~Flushing("auto")
  /\ ~stopEvent
  /\ Goto("auto", "capture")
  /\ overlapped' = (overlapped \/ Flushing("main"))
  /\ UNCHANGED <<version, lastSaved, snap, seen, handle, paths, life, bounds>>

LeavesLoop ==
  /\ auto = "running" /\ ~Flushing("auto")
  /\ stopEvent
  /\ auto' = "stopped"
  /\ UNCHANGED <<version, lastSaved, threads, paths, stopEvent, phase, retried,
                 overlapped, bounds>>

-----------------------------------------------------------------------------
(* flush and _write, by either thread                                      *)

\* The flush returned: stop goes on, the autosave loop waits again.
Returned(f) == phase' = IF f = "main" THEN "signal" ELSE phase

Capture(f) ==
  /\ step[f] = "capture"
  /\ snap' = [snap EXCEPT ![f] = version]
  /\ Goto(f, "compare")
  /\ UNCHANGED <<version, lastSaved, seen, handle, paths, life, overlapped, bounds>>

Compare(f) ==
  /\ step[f] = "compare"
  /\ IF snap[f] = lastSaved
       THEN Goto(f, "idle") /\ Returned(f)
       ELSE Goto(f, "open") /\ UNCHANGED phase
  /\ UNCHANGED <<version, lastSaved, snap, seen, handle, paths,
                 auto, stopEvent, retried, overlapped, bounds>>

\* Faulty: writes save_path itself instead of a temporary file.
OpenInPlace(f) ==
  /\ step[f] = "open"
  /\ LET new == CHOOSE i \in Inodes : i \notin {handle[g] : g \in Flushers}
         i == IF file # 0 THEN file ELSE new
     IN  /\ file' = i /\ tmp' = i
         /\ disk' = [disk EXCEPT ![i] = Partial]
         /\ handle' = [handle EXCEPT ![f] = i]
  /\ seen' = [seen EXCEPT ![f] = version]
  /\ Goto(f, "dump")
  /\ UNCHANGED <<version, lastSaved, snap, mixed, life, overlapped, bounds>>

\* open(tmp, "w") truncates the file at the path or makes a new one there.
Open(f) ==
  /\ step[f] = "open"
  /\ LET new == CHOOSE i \in Inodes : i \notin {file} \cup {handle[g] : g \in Flushers}
         i == IF tmp # 0 THEN tmp ELSE new
     IN  /\ tmp' = i
         /\ disk' = [disk EXCEPT ![i] = Partial]
         /\ handle' = [handle EXCEPT ![f] = i]
         /\ mixed' = IF \E g \in Flushers \ {f} : handle[g] = i
                       THEN mixed \cup {i} ELSE mixed \ {i}
  /\ seen' = [seen EXCEPT ![f] = version]
  /\ Goto(f, "dump")
  /\ UNCHANGED <<version, lastSaved, snap, file, life, overlapped, bounds>>

\* Two files are open on the inode and their texts differ: they are written
\* over each other.
Garbles(f) == handle[f] \in mixed /\ \E g \in Flushers : snap[g] # snap[f]

\* The dump reads the inventory at some moment since it began; two dumps into
\* one inode leave the text of this one or a file that is not JSON.
Dump(f) ==
  /\ step[f] = "dump"
  /\ \E i \in seen[f] .. version :
       \E text \in {Whole(i, snap[f])} \cup (IF Garbles(f) THEN {Partial} ELSE {}) :
         disk' = [disk EXCEPT ![handle[f]] = text]
  /\ handle' = [handle EXCEPT ![f] = 0]
  /\ Goto(f, "replace")
  /\ UNCHANGED <<version, lastSaved, snap, seen, mixed, tmp, file, life, overlapped, bounds>>

\* RuntimeError: a command added a key to a dictionary while it was read.
DumpRaises(f) ==
  /\ step[f] = "dump"
  /\ version # seen[f]
  /\ handle' = [handle EXCEPT ![f] = 0]
  /\ Goto(f, "cleanup")
  /\ UNCHANGED <<version, lastSaved, snap, seen, paths, life, overlapped, bounds>>

\* The system refuses to open, write or replace the file.
WriteFails(f) ==
  /\ step[f] \in {"open", "dump", "replace"}
  /\ failures < MaxFailures
  /\ failures' = failures + 1
  /\ handle' = [handle EXCEPT ![f] = 0]
  /\ Goto(f, "cleanup")
  /\ UNCHANGED <<version, lastSaved, snap, seen, paths, life, overlapped, crashes>>

Replace(f) ==
  /\ step[f] = "replace"
  /\ IF tmp # 0 THEN /\ file' = tmp
                     /\ tmp' = 0
                     /\ Goto(f, "record")
                ELSE /\ Goto(f, "cleanup")     \* FileNotFoundError
                     /\ UNCHANGED <<file, tmp>>
  /\ UNCHANGED <<version, lastSaved, snap, seen, handle, disk, mixed, life, overlapped, bounds>>

\* Faulty: takes the save itself for a change.
RecordNext(f) ==
  /\ step[f] = "record"
  /\ lastSaved' = snap[f] + 1
  /\ Goto(f, "idle")
  /\ Returned(f)
  /\ UNCHANGED <<version, snap, seen, handle, paths, auto, stopEvent, retried,
                 overlapped, bounds>>

\* Faulty: records the version that is current now.
RecordCurrent(f) ==
  /\ step[f] = "record"
  /\ lastSaved' = version
  /\ Goto(f, "idle")
  /\ Returned(f)
  /\ UNCHANGED <<version, snap, seen, handle, paths, auto, stopEvent, retried,
                 overlapped, bounds>>

Record(f) ==
  /\ step[f] = "record"
  /\ lastSaved' = snap[f]
  /\ Goto(f, "idle")
  /\ Returned(f)
  /\ UNCHANGED <<version, snap, seen, handle, paths, auto, stopEvent, retried,
                 overlapped, bounds>>

\* The temporary file is removed and the error raised again: it ends the
\* autosave thread, or stop_all before it reaches the nodes.
Cleanup(f) ==
  /\ step[f] = "cleanup"
  /\ tmp' = 0
  /\ Goto(f, "idle")
  /\ IF f = "auto" THEN auto' = "dead" /\ UNCHANGED phase
                   ELSE phase' = (IF retried THEN "aborted" ELSE "raised") /\ UNCHANGED auto
  /\ UNCHANGED <<version, lastSaved, snap, seen, handle, disk, mixed, file,
                 stopEvent, retried, overlapped, bounds>>

-----------------------------------------------------------------------------
(* The process is killed; the files stay.  The next start loads save_path. *)

Crash ==
  /\ crashes < MaxCrashes
  /\ phase # "down"
  /\ crashes' = crashes + 1
  /\ phase' = "down"
  /\ auto' = "stopped"
  /\ step' = [f \in Flushers |-> "idle"]
  /\ handle' = [f \in Flushers |-> 0]
  /\ UNCHANGED <<version, lastSaved, snap, seen, paths, stopEvent, retried,
                 overlapped, failures>>

\* _load: versions count from 0 again, and 0 names what the file holds.
Restart ==
  /\ phase = "down"
  /\ IF file # 0 /\ ~disk[file].whole
       THEN /\ phase' = "unloadable"
            /\ UNCHANGED <<version, lastSaved, disk, auto, stopEvent, retried, overlapped>>
       ELSE /\ phase' = "play"
            /\ version' = 0 /\ lastSaved' = 0
            /\ disk' = [i \in Inodes |-> IF i = file THEN Whole(0, 0) ELSE Partial]
            /\ auto' = "running" /\ stopEvent' = FALSE
            /\ retried' = FALSE /\ overlapped' = FALSE
  /\ UNCHANGED <<threads, mixed, tmp, file, bounds>>

Over == phase \in {"done", "aborted", "unloadable"} /\ UNCHANGED vars

-----------------------------------------------------------------------------
FlushStep(f) ==
  \/ Capture(f) \/ Compare(f) \/ Open(f) \/ Dump(f) \/ DumpRaises(f)
  \/ WriteFails(f) \/ Replace(f) \/ Record(f) \/ Cleanup(f)

StopStep == SignalStop \/ JoinReturns
AutoStep == WaitTimesOut \/ LeavesLoop \/ FlushStep("auto")

Next ==
  \/ Command \/ BeginStop \/ StopStep
  \/ WaitTimesOut \/ LeavesLoop
  \/ \E f \in Flushers : FlushStep(f)
  \/ Crash \/ Restart \/ Over

Spec == Init /\ [][Next]_vars

\* Both threads run; nothing obliges the player to type a command or to leave.
FairSpec ==
  /\ Spec
  /\ WF_vars(AutoStep)
  /\ WF_vars(StopStep \/ FlushStep("main"))
  /\ WF_vars(phase = "raised" /\ BeginStop)

-----------------------------------------------------------------------------
Saved == IF file = 0 THEN Whole(0, 0) ELSE disk[file]

(* As long as the two threads do not flush at once, save_path holds a      *)
(* complete JSON document at every instant a crash could choose, and       *)
(* whoever believes a version is saved is right: the file is at least as   *)
(* new, and its inventory is never older than its nodes.                   *)
SavedIsDurable ==
  ~overlapped => /\ Saved.whole
                 /\ Saved.nodes >= lastSaved
                 /\ Saved.inventory >= Saved.nodes

(* A normal exit whose flush met no concurrent autosave leaves the current *)
(* state, torn snapshots of earlier autosaves included.                    *)
QuietExitSavesAll ==
  phase = "done" /\ ~overlapped => Saved = Whole(version, version)

(* stop ends, whatever the autosave thread is doing or has died of.        *)
StopEnds == phase = "flush" ~> phase \in {"done", "aborted", "down"}

(* A change is saved without any further command while the thread lives.   *)
AliveAutosaveCatchesUp ==
  (phase = "play" /\ version # lastSaved) ~>
    (version = lastSaved \/ phase # "play" \/ auto = "dead")

-----------------------------------------------------------------------------
(* What the documents say without such conditions.                         *)

(* docs/reference/data-and-configuration.md:76: writing never exposes an   *)
(* intermediate state in the save file itself.                             *)
FileNeverPartial == Saved.whole

(* docs/design/domain-model.md:17: Inventory, build requests and topology  *)
(* are saved as one Game Snapshot.                                         *)
SnapshotIsOneState == Saved.whole => Saved.inventory = Saved.nodes
=============================================================================
