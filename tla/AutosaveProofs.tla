--------------------------- MODULE AutosaveProofs ---------------------------
(***************************************************************************)
(* Theorems about Autosave for every number of commands, write failures    *)
(* and killed processes.  The two safety properties follow from the        *)
(* inductive invariant IInv, which says where each thread may be           *)
(* (Placement), that flushes overlap only when `overlapped` says so        *)
(* (Alone), how the versions a flush works with compare to the recorded    *)
(* and the current one (Ahead), what one undisturbed flush knows of its    *)
(* temporary file at each of its steps (Own) and of save_path (Loadable),  *)
(* and that the quiet flush of stop_all leaves nothing to write (Flushed). *)
(***************************************************************************)
EXTENDS Autosave, TLAPS

Steps == {"idle", "capture", "compare", "open", "dump", "replace", "record", "cleanup"}
Phases == {"play", "flush", "signal", "join", "done", "raised", "aborted", "down",
           "unloadable"}
Texts == [whole : BOOLEAN, inventory : Nat, nodes : Nat]

TypeOK ==
  /\ version \in Nat /\ lastSaved \in Nat
  /\ step \in [Flushers -> Steps]
  /\ snap \in [Flushers -> Nat] /\ seen \in [Flushers -> Nat]
  /\ handle \in [Flushers -> Inodes \cup {0}]
  /\ disk \in [Inodes -> Texts]
  /\ mixed \subseteq Inodes
  /\ tmp \in Inodes \cup {0} /\ file \in Inodes \cup {0}
  /\ auto \in {"running", "stopped", "dead"}
  /\ stopEvent \in BOOLEAN /\ retried \in BOOLEAN /\ overlapped \in BOOLEAN
  /\ phase \in Phases

\* Where a thread may be, and which files it has open there.
Placement ==
  /\ Flushing("main") => phase = "flush"
  /\ Flushing("auto") => auto = "running"
  /\ phase = "down" => auto = "stopped"
  /\ \A f \in Flushers : handle[f] # 0 <=> step[f] = "dump"
  /\ tmp # 0 => tmp # file

\* A flush works on a version that was current and is not older than what is
\* recorded; the main thread's is current, for it runs no command meanwhile.
Ahead ==
  /\ lastSaved <= version
  /\ step["main"] \notin {"idle", "capture"} => snap["main"] = version
  /\ \A f \in Flushers :
       step[f] \notin {"idle", "capture"} =>
         /\ snap[f] <= version
         /\ step[f] = "dump" => snap[f] <= seen[f] /\ seen[f] <= version
         /\ ~overlapped => lastSaved <= snap[f]

\* Two threads in flush at once are on record.
Alone ==
  ~overlapped => \A f, g \in Flushers : Flushing(f) /\ Flushing(g) => f = g

\* A flush that nobody overlaps has the temporary file for itself.
Own(f) ==
  /\ step[f] = "dump" => handle[f] = tmp /\ handle[f] \notin mixed
  /\ step[f] = "replace" =>
       /\ tmp # 0
       /\ disk[tmp].whole
       /\ disk[tmp].nodes = snap[f]
       /\ disk[tmp].inventory \in snap[f] .. version
  /\ step[f] = "record" => Saved.nodes = snap[f]

\* The next start finds a text that it can load, and nothing from a future.
Loadable ==
  /\ phase # "unloadable"
  /\ Saved.whole
  /\ lastSaved <= Saved.nodes
  /\ Saved.nodes <= Saved.inventory
  /\ Saved.inventory <= version

Files == ~overlapped => Loadable /\ \A f \in Flushers : Own(f)

\* After its own quiet flush the main thread has nothing left to save, and the
\* autosave thread finds so too.
Flushed ==
  phase \in {"signal", "join", "done"} /\ ~overlapped =>
    /\ lastSaved = version
    /\ step["auto"] \in {"idle", "capture", "compare"}
    /\ step["auto"] = "compare" => snap["auto"] = version

IInv ==
  /\ TypeOK
  /\ Placement
  /\ Alone
  /\ Ahead
  /\ Files
  /\ Flushed

-----------------------------------------------------------------------------
(* Typing, and what a new temporary file is.                               *)

\* There is always an inode that is neither save_path's nor open.
LEMMA FreshInode ==
  ASSUME TypeOK, NEW f \in Flushers, handle[f] = 0
  PROVE  (CHOOSE i \in Inodes : i \notin {file} \cup {handle[g] : g \in Flushers})
           \in Inodes \ ({file} \cup {handle[g] : g \in Flushers})
<1> DEFINE taken == {file} \cup {handle[g] : g \in Flushers}
<1>1. PICK g \in Flushers : taken = {file, 0, handle[g]}
  BY DEF Flushers, TypeOK
<1>2. \E i \in Inodes : i \notin taken
  BY <1>1 DEF Inodes, TypeOK
<1> QED
  BY <1>2

\* The initial state satisfies the invariant.
LEMMA IInvInit == Init => IInv
<1> SUFFICES ASSUME Init PROVE IInv
  OBVIOUS
<1>1. TypeOK
  BY DEF Init, TypeOK, Steps, Phases, Texts, Inodes, Partial
<1>2. Saved = Whole(0, 0)
  BY DEF Init, Saved
<1>3. Placement /\ Ahead /\ Flushed
  BY DEF Init, Placement, Ahead, Flushed, Flushing, Flushers
<1>4. Alone
  BY DEF Init, Alone, Flushing
<1>5. Files
  BY <1>2 DEF Init, Files, Own, Loadable, Whole
<1> QED
  BY <1>1, <1>3, <1>4, <1>5 DEF IInv

\* No step leaves the types.
LEMMA TypeStep == TypeOK /\ Placement /\ [Next]_vars => TypeOK'
<1> SUFFICES ASSUME TypeOK, Placement, [Next]_vars PROVE TypeOK'
  OBVIOUS
<1> USE DEF Steps, Phases, TypeOK, Goto, Returned, threads, paths, life, bounds
<1>0. /\ Partial \in Texts
      /\ \A i, n \in Nat : Whole(i, n) \in Texts
      /\ "main" \in Flushers /\ "auto" \in Flushers
  BY DEF Texts, Partial, Whole, Flushers
<1>1. CASE Command
  BY <1>1 DEF Command
<1>2. CASE BeginStop
  BY <1>2, <1>0 DEF BeginStop
<1>3. CASE StopStep
  BY <1>3 DEF StopStep, SignalStop, JoinReturns
<1>4. CASE WaitTimesOut
  BY <1>4 DEF WaitTimesOut
<1>5. CASE LeavesLoop
  BY <1>5 DEF LeavesLoop
<1>6. ASSUME NEW f \in Flushers, FlushStep(f) PROVE TypeOK'
  <2>1. CASE Capture(f)
    BY <2>1 DEF Capture
  <2>2. CASE Compare(f)
    BY <2>2 DEF Compare
  <2>3. CASE Open(f)
    <3>1. PICK i \in Inodes : /\ tmp' = i /\ disk' = [disk EXCEPT ![i] = Partial]
                              /\ handle' = [handle EXCEPT ![f] = i]
                              /\ mixed' \in {mixed \cup {i}, mixed \ {i}}
      BY <2>3, FreshInode DEF Open, Placement
    <3>2. /\ tmp' \in Inodes \cup {0} /\ mixed' \subseteq Inodes
          /\ disk' \in [Inodes -> Texts] /\ handle' \in [Flushers -> Inodes \cup {0}]
      BY <3>1, <1>0
    <3> QED
      BY <2>3, <3>2 DEF Open
  <2>4. CASE Dump(f)
    <3>1. PICK i \in seen[f] .. version :
            \E text \in {Whole(i, snap[f]), Partial} :
              disk' = [disk EXCEPT ![handle[f]] = text]
      BY <2>4 DEF Dump
    <3>2. {Whole(i, snap[f]), Partial} \subseteq Texts
      BY <3>1, <1>0
    <3> QED
      BY <2>4, <3>1, <3>2, ZenonT(40) DEF Dump
  <2>5. CASE DumpRaises(f)
    BY <2>5 DEF DumpRaises
  <2>6. CASE WriteFails(f)
    BY <2>6 DEF WriteFails
  <2>7. CASE Replace(f)
    BY <2>7 DEF Replace
  <2>8. CASE Record(f)
    BY <2>8 DEF Record
  <2>9. CASE Cleanup(f)
    BY <2>9 DEF Cleanup
  <2> QED
    BY <1>6, <2>1, <2>2, <2>3, <2>4, <2>5, <2>6, <2>7, <2>8, <2>9 DEF FlushStep
<1>7. CASE Crash
  BY <1>7 DEF Crash
<1>8. CASE Restart
  <2>1. disk' \in [Inodes -> Texts]
    BY <1>8, <1>0 DEF Restart
  <2>2. version' \in Nat /\ lastSaved' \in Nat /\ phase' \in Phases
    BY <1>8 DEF Restart
  <2>3. /\ auto' \in {"running", "stopped", "dead"}
        /\ stopEvent' \in BOOLEAN /\ retried' \in BOOLEAN /\ overlapped' \in BOOLEAN
    BY <1>8 DEF Restart
  <2> QED
    BY <1>8, <2>1, <2>2, <2>3 DEF Restart
<1>9. CASE Over \/ UNCHANGED vars
  BY <1>9 DEF Over, vars
<1> QED
  BY <1>1, <1>2, <1>3, <1>4, <1>5, <1>6, <1>7, <1>8, <1>9 DEF Next

-----------------------------------------------------------------------------
(* Each part of the invariant is preserved by every step.                  *)

\* Threads stay where their step says, temporary files apart from the save.
LEMMA PlacementStep ==
  ASSUME TypeOK, Placement, [Next]_vars
  PROVE  Placement'
<1> USE DEF Placement, TypeOK, Flushers, Flushing, Goto, Returned, threads, paths, life, bounds
<1>0. TypeOK'
  BY TypeStep
<1>1. CASE Command
  BY <1>1 DEF Command
<1>2. CASE BeginStop
  BY <1>2, <1>0 DEF BeginStop
<1>3. CASE StopStep
  BY <1>3 DEF StopStep, SignalStop, JoinReturns
<1>4. CASE WaitTimesOut
  BY <1>4, <1>0 DEF WaitTimesOut
<1>5. CASE LeavesLoop
  BY <1>5 DEF LeavesLoop
<1>6. ASSUME NEW f \in Flushers, FlushStep(f) PROVE Placement'
  <2>1. CASE Capture(f)
    BY <2>1, <1>0 DEF Capture
  <2>2. CASE Compare(f)
    BY <2>2, <1>0 DEF Compare
  <2>3. CASE Open(f)
    <3>1. PICK i \in Inodes : /\ tmp' = i /\ handle' = [handle EXCEPT ![f] = i]
                              /\ tmp = 0 => i # file
                              /\ tmp # 0 => i = tmp
      BY <2>3, <1>0, FreshInode DEF Open
    <3>2. i # 0
      BY DEF Inodes
    <3> QED
      BY <2>3, <1>0, <3>1, <3>2 DEF Open
  <2>4. CASE Dump(f)
    BY <2>4, <1>0 DEF Dump
  <2>5. CASE DumpRaises(f)
    BY <2>5, <1>0 DEF DumpRaises
  <2>6. CASE WriteFails(f)
    BY <2>6, <1>0 DEF WriteFails
  <2>7. CASE Replace(f)
    BY <2>7, <1>0 DEF Replace
  <2>8. CASE Record(f)
    BY <2>8, <1>0 DEF Record
  <2>9. CASE Cleanup(f)
    BY <2>9, <1>0 DEF Cleanup
  <2> QED
    BY <1>6, <2>1, <2>2, <2>3, <2>4, <2>5, <2>6, <2>7, <2>8, <2>9 DEF FlushStep
<1>7. CASE Crash
  BY <1>7 DEF Crash
<1>8. CASE Restart
  BY <1>8, <1>0 DEF Restart
<1>9. CASE Over \/ UNCHANGED vars
  BY <1>9 DEF Over, vars
<1> QED
  BY <1>1, <1>2, <1>3, <1>4, <1>5, <1>6, <1>7, <1>8, <1>9 DEF Next

\* Versions grow, and a flush records a version it once saw.
LEMMA AheadStep ==
  ASSUME TypeOK, Placement, Alone, Ahead, [Next]_vars
  PROVE  Ahead'
<1> USE DEF Placement, Ahead, TypeOK, Flushers, Flushing, Goto, Returned,
            threads, paths, life, bounds
<1>0. TypeOK'
  BY TypeStep
<1>1. CASE Command
  BY <1>1 DEF Command
<1>2. CASE BeginStop
  BY <1>2, <1>0 DEF BeginStop
<1>3. CASE StopStep
  BY <1>3 DEF StopStep, SignalStop, JoinReturns
<1>4. CASE WaitTimesOut
  BY <1>4, <1>0 DEF WaitTimesOut
<1>5. CASE LeavesLoop
  BY <1>5 DEF LeavesLoop
<1>6. ASSUME NEW f \in Flushers, FlushStep(f) PROVE Ahead'
  <2>1. CASE Capture(f)
    BY <2>1, <1>0 DEF Capture
  <2>2. CASE Compare(f)
    BY <2>2, <1>0 DEF Compare
  <2>3. CASE Open(f)
    BY <2>3, <1>0 DEF Open
  <2>4. CASE Dump(f)
    BY <2>4, <1>0 DEF Dump
  <2>5. CASE DumpRaises(f)
    BY <2>5, <1>0 DEF DumpRaises
  <2>6. CASE WriteFails(f)
    BY <2>6, <1>0 DEF WriteFails
  <2>7. CASE Replace(f)
    BY <2>7, <1>0 DEF Replace
  <2>8. CASE Record(f)
    <3>1. overlapped \/ \A g \in Flushers \ {f} : step[g] = "idle"
      BY <2>8, <1>0 DEF Alone, Record
    <3> QED
      BY <2>8, <1>0, <3>1 DEF Record
  <2>9. CASE Cleanup(f)
    BY <2>9, <1>0 DEF Cleanup
  <2> QED
    BY <1>6, <2>1, <2>2, <2>3, <2>4, <2>5, <2>6, <2>7, <2>8, <2>9 DEF FlushStep
<1>7. CASE Crash
  BY <1>7 DEF Crash
<1>8. CASE Restart
  BY <1>8, <1>0 DEF Restart
<1>9. CASE Over \/ UNCHANGED vars
  BY <1>9 DEF Over, vars
<1> QED
  BY <1>1, <1>2, <1>3, <1>4, <1>5, <1>6, <1>7, <1>8, <1>9 DEF Next

\* Who begins to flush beside the other records that they overlap.
LEMMA AloneStep ==
  ASSUME TypeOK, Placement, Alone, [Next]_vars
  PROVE  Alone'
<1> USE DEF Alone, TypeOK, Flushers, Flushing, Goto, Returned, threads, paths, life, bounds
<1>0. TypeOK'
  BY TypeStep
<1>1. CASE Command
  BY <1>1 DEF Command
<1>2. CASE BeginStop
  BY <1>2, <1>0 DEF BeginStop
<1>3. CASE StopStep
  BY <1>3 DEF StopStep, SignalStop, JoinReturns
<1>4. CASE WaitTimesOut
  BY <1>4, <1>0 DEF WaitTimesOut
<1>5. CASE LeavesLoop
  BY <1>5 DEF LeavesLoop
<1>6. ASSUME NEW f \in Flushers, FlushStep(f) PROVE Alone'
  <2>1. CASE Capture(f)
    BY <2>1, <1>0 DEF Capture
  <2>2. CASE Compare(f)
    BY <2>2, <1>0 DEF Compare
  <2>3. CASE Open(f)
    BY <2>3, <1>0 DEF Open
  <2>4. CASE Dump(f)
    BY <2>4, <1>0 DEF Dump
  <2>5. CASE DumpRaises(f)
    BY <2>5, <1>0 DEF DumpRaises
  <2>6. CASE WriteFails(f)
    BY <2>6, <1>0 DEF WriteFails
  <2>7. CASE Replace(f)
    BY <2>7, <1>0 DEF Replace
  <2>8. CASE Record(f)
    BY <2>8, <1>0 DEF Record
  <2>9. CASE Cleanup(f)
    BY <2>9, <1>0 DEF Cleanup
  <2> QED
    BY <1>6, <2>1, <2>2, <2>3, <2>4, <2>5, <2>6, <2>7, <2>8, <2>9 DEF FlushStep
<1>7. CASE Crash
  BY <1>7 DEF Crash
<1>8. CASE Restart
  BY <1>8, <1>0 DEF Restart, Placement
<1>9. CASE Over \/ UNCHANGED vars
  BY <1>9 DEF Over, vars
<1> QED
  BY <1>1, <1>2, <1>3, <1>4, <1>5, <1>6, <1>7, <1>8, <1>9 DEF Next

\* What a flush nobody overlaps knows of the files stays true.
LEMMA FilesStep ==
  ASSUME IInv, [Next]_vars
  PROVE  Files'
<1> USE DEF Files, Own, Loadable, Saved, Whole, Partial, IInv, TypeOK, Flushers,
            Flushing, Goto, Returned, threads, paths, life, bounds
<1>0. TypeOK'
  BY TypeStep
<1>1. CASE Command
  <2>1. ~overlapped => Loadable'
    <3>1. ~overlapped => Saved.inventory \in Nat
      BY DEF Texts
    <3> QED
      BY <1>1, <3>1 DEF Command
  <2>2. ASSUME NEW f \in Flushers, ~overlapped PROVE Own(f)'
    <3>1. /\ step' = step /\ snap' = snap /\ handle' = handle /\ disk' = disk
          /\ mixed' = mixed /\ tmp' = tmp /\ file' = file /\ Saved' = Saved
      BY <1>1 DEF Command
    <3>2. Own(f) /\ version' = version + 1 /\ version \in Nat /\ snap[f] \in Nat
      BY <1>1, <2>2 DEF Command
    <3> HIDE DEF Saved, IInv, TypeOK, Files
    <3> QED
      BY <3>1, <3>2
  <2> QED
    BY <1>1, <2>1, <2>2 DEF Command
<1>2. CASE BeginStop
  BY <1>2, <1>0 DEF BeginStop
<1>3. CASE StopStep
  BY <1>3 DEF StopStep, SignalStop, JoinReturns
<1>4. CASE WaitTimesOut
  BY <1>4, <1>0 DEF WaitTimesOut
<1>5. CASE LeavesLoop
  BY <1>5 DEF LeavesLoop
<1>6. ASSUME NEW f \in Flushers, FlushStep(f), ~overlapped PROVE Files'
  <2>0. /\ \A g \in Flushers \ {f} : step[g] = "idle" /\ step'[g] = "idle"
        /\ ~overlapped'
    BY <1>6, <1>0 DEF Alone, FlushStep, Capture, Compare, Open, Dump, DumpRaises, WriteFails,
                 Replace, Record, Cleanup
  <2>10. SUFFICES Loadable' /\ Own(f)'
    BY <2>0
  <2>1. CASE Capture(f)
    BY <2>1, <2>0, <1>0, <1>6 DEF Capture, Placement, Ahead
  <2>2. CASE Compare(f)
    BY <2>2, <2>0, <1>0, <1>6 DEF Compare, Placement, Ahead
  <2>3. CASE Open(f)
    <3>1. PICK i \in Inodes : /\ tmp' = i /\ handle' = [handle EXCEPT ![f] = i]
                              /\ disk' = [disk EXCEPT ![i] = Partial]
                              /\ tmp = 0 => i # file
                              /\ tmp # 0 => i = tmp
      BY <2>3, FreshInode DEF Open, Placement
    <3>2. i # 0 /\ i # file
      BY <3>1 DEF Inodes, Placement
    <3>3. \A g \in Flushers \ {f} : handle[g] # tmp'
      BY <2>0, <3>1, <3>2 DEF Placement
    <3>4. mixed' = mixed \ {tmp'}
      BY <2>3, <3>3 DEF Open
    <3>5. Saved' = Saved
      BY <2>3, <3>1, <3>2 DEF Open
    <3>6. Loadable'
      BY <2>3, <3>5, <1>6 DEF Open
    <3> QED
      BY <2>3, <3>1, <3>4, <3>6 DEF Open
  <2>4. CASE Dump(f)
    <3>1. handle[f] = tmp /\ tmp \notin mixed /\ tmp # 0 /\ tmp # file /\ tmp \in Inodes
      BY <2>4, <1>6 DEF Dump, Placement
    <3>2. PICK i \in seen[f] .. version : disk' = [disk EXCEPT ![tmp] = Whole(i, snap[f])]
      BY <2>4, <3>1 DEF Dump, Garbles
    <3>3. i \in snap[f] .. version
      BY <2>4, <3>2 DEF Dump, Ahead
    <3>4. Saved' = Saved
      BY <2>4, <3>1, <3>2 DEF Dump
    <3>5. Loadable'
      BY <2>4, <3>4, <1>6 DEF Dump
    <3>6. Own(f)'
      BY <2>4, <3>1, <3>2, <3>3 DEF Dump
    <3> QED
      BY <3>5, <3>6
  <2>5. CASE DumpRaises(f)
    BY <2>5, <2>0, <1>0, <1>6 DEF DumpRaises, Placement, Ahead
  <2>6. CASE WriteFails(f)
    BY <2>6, <2>0, <1>0, <1>6 DEF WriteFails, Placement, Ahead
  <2>7. CASE Replace(f)
    BY <2>7, <2>0, <1>0, <1>6 DEF Replace, Placement, Ahead
  <2>8. CASE Record(f)
    BY <2>8, <2>0, <1>0, <1>6 DEF Record, Placement, Ahead
  <2>9. CASE Cleanup(f)
    BY <2>9, <2>0, <1>0, <1>6 DEF Cleanup, Placement, Ahead
  <2> QED
    BY <1>6, <2>1, <2>2, <2>3, <2>4, <2>5, <2>6, <2>7, <2>8, <2>9 DEF FlushStep
<1>6b. ASSUME NEW f \in Flushers, FlushStep(f), overlapped PROVE Files'
  BY <1>6b, <1>0 DEF FlushStep, Capture, Compare, Open, Dump, DumpRaises, WriteFails,
                 Replace, Record, Cleanup
<1>7. CASE Crash
  BY <1>7 DEF Crash, Placement
<1>8. CASE Restart
  <2>1. \A f \in Flushers : step'[f] = "idle"
    BY <1>8, <1>0 DEF Restart, Placement
  <2> QED
    BY <1>8, <1>0, <2>1 DEF Restart
<1>9. CASE Over \/ UNCHANGED vars
  BY <1>9 DEF Over, vars
<1> QED
  BY <1>1, <1>2, <1>3, <1>4, <1>5, <1>6, <1>6b, <1>7, <1>8, <1>9 DEF Next

\* Once the main thread has flushed, no flush writes.
LEMMA FlushedStep ==
  ASSUME IInv, [Next]_vars
  PROVE  Flushed'
<1> USE DEF Flushed, IInv, TypeOK, Flushers, Flushing, Goto, Returned, threads, paths, life, bounds
<1>0. TypeOK'
  BY TypeStep
<1>1. CASE Command
  BY <1>1 DEF Command
<1>2. CASE BeginStop
  BY <1>2, <1>0 DEF BeginStop
<1>3. CASE StopStep
  BY <1>3 DEF StopStep, SignalStop, JoinReturns
<1>4. CASE WaitTimesOut
  BY <1>4, <1>0 DEF WaitTimesOut
<1>5. CASE LeavesLoop
  BY <1>5 DEF LeavesLoop
<1>6. ASSUME NEW f \in Flushers, FlushStep(f) PROVE Flushed'
  <2>1. CASE Capture(f)
    BY <2>1, <1>0 DEF Capture
  <2>2. CASE Compare(f)
    BY <2>2, <1>0 DEF Compare, Ahead, Placement, Alone
  <2>3. CASE Open(f)
    BY <2>3, <1>0 DEF Open
  <2>4. CASE Dump(f)
    BY <2>4, <1>0 DEF Dump
  <2>5. CASE DumpRaises(f)
    BY <2>5, <1>0 DEF DumpRaises
  <2>6. CASE WriteFails(f)
    BY <2>6, <1>0 DEF WriteFails
  <2>7. CASE Replace(f)
    BY <2>7, <1>0 DEF Replace
  <2>8. CASE Record(f)
    BY <2>8, <1>0 DEF Record, Ahead, Placement, Alone
  <2>9. CASE Cleanup(f)
    BY <2>9, <1>0 DEF Cleanup
  <2> QED
    BY <1>6, <2>1, <2>2, <2>3, <2>4, <2>5, <2>6, <2>7, <2>8, <2>9 DEF FlushStep
<1>7. CASE Crash
  BY <1>7 DEF Crash
<1>8. CASE Restart
  BY <1>8, <1>0 DEF Restart
<1>9. CASE Over \/ UNCHANGED vars
  BY <1>9 DEF Over, vars
<1> QED
  BY <1>1, <1>2, <1>3, <1>4, <1>5, <1>6, <1>7, <1>8, <1>9 DEF Next

-----------------------------------------------------------------------------
(* The theorems                                                            *)

\* The invariant holds in every reachable state.
THEOREM Invariance == Spec => []IInv
<1>1. IInv /\ [Next]_vars => IInv'
  <2> SUFFICES ASSUME IInv, [Next]_vars PROVE IInv'
    OBVIOUS
  <2>1. TypeOK /\ Placement /\ Alone /\ Ahead
    BY DEF IInv
  <2>2. TypeOK' /\ Placement' /\ Alone' /\ Ahead'
    BY <2>1, TypeStep, PlacementStep, AloneStep, AheadStep
  <2>3. Files' /\ Flushed'
    BY FilesStep, FlushedStep
  <2> QED
    BY <2>2, <2>3 DEF IInv
<1> QED
  BY <1>1, IInvInit, PTL DEF Spec

\* A state without overlapping flushes has the current or an older complete
\* state in save_path, as new as the version recorded as saved: no write
\* error, no kill and no torn dump changes that.
THEOREM SaveSurvives == Spec => []SavedIsDurable
<1>1. ASSUME IInv PROVE SavedIsDurable
  <2>1. Saved.nodes \in Nat /\ Saved.inventory \in Nat /\ lastSaved \in Nat
    BY <1>1 DEF IInv, TypeOK, Saved, Whole, Texts
  <2> QED
    BY <1>1, <2>1 DEF IInv, Files, Loadable, SavedIsDurable
<1> QED
  BY <1>1, Invariance, PTL

\* stop_all that reached the nodes without an overlap has saved everything.
THEOREM ExitLosesNothing == Spec => []QuietExitSavesAll
<1>1. ASSUME IInv, phase = "done", ~overlapped PROVE Saved = Whole(version, version)
  <2>1. Saved \in Texts /\ lastSaved = version /\ version \in Nat
    BY <1>1 DEF IInv, TypeOK, Saved, Whole, Texts, Flushed
  <2>2. Saved.whole /\ Saved.nodes = version /\ Saved.inventory = version
    BY <1>1, <2>1 DEF IInv, Files, Loadable, Texts
  <2>3. Saved.whole = TRUE
    BY <2>1, <2>2 DEF Texts
  <2> HIDE DEF Saved
  <2> QED
    BY <2>1, <2>2, <2>3 DEF Whole, Texts
<1>2. IInv => QuietExitSavesAll
  BY <1>1 DEF QuietExitSavesAll
<1> QED
  BY <1>2, Invariance, PTL

\* A start can refuse the save file only after two flushes have overlapped.
UnloadableNeedsOverlap == phase = "unloadable" => overlapped

\* _load raises SaveDataError for no history of quiet flushes and kills.
THEOREM NextStartLoads == Spec => []UnloadableNeedsOverlap
<1>1. IInv => UnloadableNeedsOverlap
  BY DEF IInv, Files, Loadable, UnloadableNeedsOverlap
<1> QED
  BY <1>1, Invariance, PTL
=============================================================================
