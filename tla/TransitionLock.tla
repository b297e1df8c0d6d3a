---------------------------- MODULE TransitionLock ----------------------------
(***************************************************************************)
(* proxy/transition.lock, the lock that ProxyControl takes to be one       *)
(* variable: a file that is created exclusively, judged by its contents    *)
(* and reclaimed by renaming it away (locks.ts, transition-lock.ts).  One  *)
(* step is one call on the file system by one process.                     *)
(*                                                                         *)
(* A file is identified by the attempt that created it (its fence token),  *)
(* wherever it has been renamed to; its creator writes the owner record    *)
(* through the descriptor, so the record follows the file.                 *)
(***************************************************************************)
EXTENDS Naturals

CONSTANTS
  Processes,   \* the supervisor and the CLI and GUI processes
  Ticker,      \* the one that comes back for ever: the supervisor
  Ids,         \* the attempts of a process
  Attempts,    \* bound: those whose files may exist at one time
  Faults,      \* the faults this instance may suffer
  MaxFaults    \* bound: faults

ASSUME ProcessesAssumption == Ticker \in Processes /\ "none" \notin Processes
ASSUME AttemptsAssumption == Ids # {} /\ Attempts \subseteq [by : Processes, id : Ids]
ASSUME FaultsAssumption == Faults \subseteq {"crash", "io", "suspend"}
ASSUME BoundAssumption == MaxFaults \in Nat

VARIABLES
  at,        \* the file at transition.lock
  moved,     \* the file each process has renamed to its quarantine name
  written,   \* the files with an owner record in them
  lapsed,    \* the files whose owner died, or whose lease ran out
  pc,        \* where each process is in tryAcquireLock, fn and releaseLock
  own,       \* the identity of each process's attempt
  budget,    \* faults left
  taken      \* history: was a live owner's file moved by another process,
             \* before ("empty") or after ("live") its record was written; was it
             \* lost for good because its mover died ("orphaned"), a late release
             \* removed it ("removed"), or a file was moved back over it ("covered")

vars == <<at, moved, written, lapsed, pc, own, budget, taken>>

Files == [by : Processes, id : Ids]
NoFile == [by |-> "none", id |-> "none"]
Own(p) == [by |-> p, id |-> own[p]]
Pcs == {"idle", "fill", "judge", "move", "recheck", "restore", "discard", "recreate",
        "hold", "remove"}
Losses == {"empty", "live", "orphaned", "removed", "covered"}

TypeOK ==
  /\ at \in Files \cup {NoFile}
  /\ moved \in [Processes -> Files \cup {NoFile}]
  /\ written \subseteq Files
  /\ lapsed \subseteq Files
  /\ pc \in [Processes -> Pcs]
  /\ own \in [Processes -> Ids]
  /\ \A p \in Processes : moved[p] # NoFile <=> pc[p] \in {"recheck", "restore", "discard"}
  /\ budget \in Nat
  /\ taken \subseteq Losses

\* A crash, or the boot before this one, may have left a file.
Init ==
  /\ at \in Attempts \cup {NoFile}
  /\ moved = [p \in Processes |-> NoFile]
  /\ lapsed = {at} \ {NoFile}
  /\ written \in SUBSET lapsed
  /\ pc = [p \in Processes |-> "idle"]
  /\ own = [p \in Processes |-> CHOOSE id \in Ids : TRUE]
  /\ budget = MaxFaults
  /\ taken = {}

\* A file without a valid record is as good as a stale one (readLockOwner
\* returns null); a record is stale when its owner is dead, of another boot, or
\* past its lease (isOwnerStale).
Stale(f) == f \notin written \/ f \in lapsed

InUse == {at} \cup {moved[p] : p \in Processes}
           \cup {Own(p) : p \in {q \in Processes : pc[q] # "idle"}}

Goto(p, there) == pc' = [pc EXCEPT ![p] = there]

\* openSync(path, "wx").
Create(p, f, otherwise) ==
  \/ at = NoFile /\ at' = f /\ Goto(p, "fill")
  \/ at # NoFile /\ at' = at /\ Goto(p, otherwise)

\* A new attempt: a fresh token, and the first create.
Try(p) ==
  /\ pc[p] = "idle"
  /\ \E id \in Ids :
       /\ [by |-> p, id |-> id] \in Attempts \ InUse
       /\ own' = [own EXCEPT ![p] = id]
       /\ Create(p, [by |-> p, id |-> id], "judge")
  /\ written' = written \cap InUse
  /\ lapsed' = lapsed \cap InUse
  /\ UNCHANGED <<moved, budget, taken>>

\* The created file gets its owner record: the process has the lock.
Fill(p) ==
  /\ pc[p] = "fill"
  /\ written' = written \cup {Own(p)}
  /\ Goto(p, "hold")
  /\ UNCHANGED <<at, moved, lapsed, own, budget, taken>>

\* Mutant: an empty file counts as somebody's lock.
JudgeStrict(p) ==
  /\ pc[p] = "judge"
  /\ Goto(p, IF at \in lapsed \cap written \/ at = NoFile THEN "move" ELSE "idle")
  /\ UNCHANGED <<at, moved, written, lapsed, own, budget, taken>>

\* A live owner keeps the lock; a vanished or stale one is to be moved away.
Judge(p) ==
  /\ pc[p] = "judge"
  /\ Goto(p, IF Stale(at) THEN "move" ELSE "idle")
  /\ UNCHANGED <<at, moved, written, lapsed, own, budget, taken>>

Lose(f, how) == IF f \in lapsed \cup {NoFile} THEN taken ELSE taken \cup {how}

\* Rename to the quarantine name: whatever is at the path by now.
Move(p) ==
  /\ pc[p] = "move"
  /\ moved' = [moved EXCEPT ![p] = at]
  /\ at' = NoFile
  /\ Goto(p, IF at = NoFile THEN "recreate" ELSE "recheck")
  /\ taken' = Lose(at, IF at \in written THEN "live" ELSE "empty")
  /\ UNCHANGED <<written, lapsed, own, budget>>

\* Mutant: the moved file is not judged again.
RecheckNot(p) ==
  /\ pc[p] = "recheck"
  /\ Goto(p, "discard")
  /\ UNCHANGED <<at, moved, written, lapsed, own, budget, taken>>

\* The file that was moved is judged again ...
Recheck(p) ==
  /\ pc[p] = "recheck"
  /\ Goto(p, IF Stale(moved[p]) THEN "discard" ELSE "restore")
  /\ UNCHANGED <<at, moved, written, lapsed, own, budget, taken>>

\* ... a live one is renamed back, over what is there, and the attempt fails;
Restore(p) ==
  /\ pc[p] = "restore"
  /\ at' = moved[p]
  /\ moved' = [moved EXCEPT ![p] = NoFile]
  /\ Goto(p, "idle")
  /\ taken' = Lose(at, "covered")
  /\ UNCHANGED <<written, lapsed, own, budget>>

\* ... a stale one is removed, and the file created once more.
Discard(p) ==
  /\ pc[p] = "discard"
  /\ moved' = [moved EXCEPT ![p] = NoFile]
  /\ Goto(p, "recreate")
  /\ UNCHANGED <<at, written, lapsed, own, budget, taken>>

Recreate(p) ==
  /\ pc[p] = "recreate"
  /\ Create(p, Own(p), "idle")
  /\ UNCHANGED <<moved, written, lapsed, own, budget, taken>>

\* releaseLock reads the lock, and removes it if the token is ours ...
Release(p) ==
  /\ pc[p] = "hold"
  /\ Goto(p, IF at = Own(p) THEN "remove" ELSE "idle")
  /\ UNCHANGED <<at, moved, written, lapsed, own, budget, taken>>

\* ... by name.
Remove(p) ==
  /\ pc[p] = "remove"
  /\ at' = NoFile
  /\ Goto(p, "idle")
  /\ taken' = IF at = Own(p) THEN taken ELSE Lose(at, "removed")
  /\ UNCHANGED <<moved, written, lapsed, own, budget>>

Step(p) ==
  \/ Fill(p) \/ Judge(p) \/ Move(p) \/ Recheck(p) \/ Restore(p) \/ Discard(p)
  \/ Recreate(p) \/ Release(p) \/ Remove(p)

-----------------------------------------------------------------------------
(* Faults and time                                                         *)

Fault(kind) == kind \in Faults /\ budget > 0 /\ budget' = budget - 1

\* A process dies and a new one takes its place; its files have a dead owner.
Crash(p) ==
  /\ Fault("crash")
  /\ pc[p] # "idle"
  /\ Goto(p, "idle")
  /\ moved' = [moved EXCEPT ![p] = NoFile]
  /\ lapsed' = lapsed \cup {f \in Files : f.by = p}
  /\ taken' = Lose(moved[p], "orphaned")
  /\ UNCHANGED <<at, written, own>>

\* The record cannot be written: the attempt fails, its file stays, empty.
FillFails(p) ==
  /\ Fault("io")
  /\ pc[p] = "fill"
  /\ Goto(p, "idle")
  /\ UNCHANGED <<at, moved, written, lapsed, own, taken>>

Held(f) == \E p \in Processes : f = Own(p) /\ pc[p] \in {"fill", "hold", "remove"}

Expire(f) ==
  /\ f \in written \ lapsed
  /\ lapsed' = lapsed \cup {f}
  /\ UNCHANGED <<at, moved, written, pc, own, taken>>

\* Fifteen seconds pass: for a file left behind, as they must; for one whose
\* owner is at work, only if the machine sleeps.
LeaseEnds == ~Held(at) /\ Expire(at) /\ budget' = budget
Overslept(p) == pc[p] \in {"hold", "remove"} /\ Expire(Own(p)) /\ Fault("suspend")

Next ==
  \/ \E p \in Processes :
       Try(p) \/ Step(p) \/ Crash(p) \/ FillFails(p) \/ Overslept(p)
  \/ LeaseEnds

Spec == Init /\ [][Next]_vars

\* An invoked command runs on; the supervisor's timer comes back; time passes.
FairSpec ==
  /\ Spec
  /\ \A p \in Processes : WF_vars(Step(p))
  /\ WF_vars(Try(Ticker))
  /\ WF_vars(LeaseEnds)

-----------------------------------------------------------------------------
(* Safety                                                                  *)

\* The processes in their critical section whose lease is still good.
Owners == {p \in Processes : pc[p] \in {"hold", "remove"} /\ Own(p) \notin lapsed}

\* Exclusion is lost in one way only: a live owner's file was moved, removed or
\* overwritten by another process.  The exclusive create, the judgement of the
\* owner and the fence token leave no other.
ExclusiveUnlessTaken == \A p, q \in Owners : p # q => taken # {}

\* The second look at the moved file makes up for moving a live owner's lock,
\* once the file is back: exclusion is lost only while a third process has the lock
\* of one of the two in quarantine, or when a file was caught before its record was
\* written, moved back too late, lost with the process that had moved it, or removed
\* by an owner whose lease ran out between its look at the token and its removal.
ExclusiveUnlessCaught ==
  \A p, q \in Owners : p # q =>
    \/ taken \ {"live"} # {}
    \/ \E r \in Processes : moved[r] \in {Own(p), Own(q)}

-----------------------------------------------------------------------------
(* Progress                                                                *)

\* No lock vetoes for ever: a file whose creator is gone, crashed while it
\* filled it, or released the lock while the file was moved away, is reclaimed.
NoPermanentVeto == []<>(at = NoFile \/ Held(at))
=============================================================================
