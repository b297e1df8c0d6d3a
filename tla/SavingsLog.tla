----------------------------- MODULE SavingsLog -----------------------------
(***************************************************************************)
(* The savings of one live session (stats/src/store.ts, the overlay part): *)
(* an append-only log of events and a summary that counts them, both       *)
(* written by hooks and by the daemon under the advisory lock of           *)
(* shared/src/file-lock.ts, or without it when it cannot be had in time;   *)
(* and the daily sweep, which rebuilds a summary that lags and takes no    *)
(* lock.  A step is one access to a shared file.  Of the summary's totals  *)
(* the number of events stands for all.                                    *)
(***************************************************************************)
EXTENDS Integers, FiniteSets

CONSTANTS
  Writers,     \* calls of appendOverlayEvent
  Events,      \* what is written: a hook and the daemon may both write one event
  Sweepers,    \* hooks that run the daily sweep
  Leftover,    \* the lock of a process that died earlier
  Obstacle,    \* something at the lock's path that cannot be removed
  MaxSteals,   \* MAX_STEALS
  Faults,      \* the faults this instance may suffer
  MaxFaults    \* bound: how many

ASSUME OldLocksAssumption == Leftover \notin Writers /\ Obstacle \notin Writers
ASSUME StealsAssumption == MaxSteals \in Nat
ASSUME FaultsAssumption == Faults \subseteq {"crash", "slow", "io"} /\ MaxFaults \in Nat
ASSUME WritersAssumption == IsFiniteSet(Writers)

VARIABLES
  event,     \* the event of each writer
  lock,      \* the lock files at the path, none or one: who made it, and whether
             \* its mtime is past the stale age
  lines,     \* the log: the writers whose line is whole
  torn,      \* whether the log ends in the middle of a line
  summary,   \* the summary's file
  writer, sweeper,
  loose,     \* history: who lost its lock to another, or appends without
  crossed,   \* history: the writers whose line a rebuild counted before they had
             \* read the summary that they then add it to
  budget     \* faults left

files == <<lines, torn, summary>>
vars == <<event, lock, files, writer, sweeper, loose, crossed, budget>>

Makers == Writers \cup {Leftover, Obstacle}
Ended == {"done", "failed", "dead"}
NewWriter == [pc |-> "idle", locked |-> FALSE, late |-> FALSE, seen |-> {}, steals |-> 0,
              prior |-> 0, got |-> {}, after |-> "done"]
Resting == [pc |-> "idle", got |-> {}]

WriterPcs == {"idle", "create", "stat", "restat", "remove", "check", "append", "load",
              "fold", "recount", "rewrite", "release", "answer"} \cup Ended
WriterStates ==
  [pc : WriterPcs, locked : BOOLEAN, late : BOOLEAN, seen : SUBSET Makers,
   steals : Nat, prior : Nat, got : SUBSET Writers, after : {"done", "answer", "failed"}]
SweeperStates == [pc : {"idle", "compare", "recount", "rewrite"}, got : SUBSET Writers]

TypeOK ==
  /\ event \in [Writers -> Events]
  /\ lock \subseteq [by : Makers, old : BOOLEAN]
  /\ \A f, h \in lock : f = h
  /\ lines \subseteq Writers
  /\ torn \in BOOLEAN /\ crossed \subseteq Writers
  /\ summary \in [is : {"missing", "corrupt", "counts"}, n : Nat]
  /\ summary.is # "counts" => summary.n = 0
  /\ writer \in [Writers -> WriterStates]
  /\ sweeper \in [Sweepers -> SweeperStates]
  /\ \A w \in Writers : writer[w].pc \in {"load", "fold"} => writer[w].locked
  /\ loose \subseteq Writers
  /\ budget \in Nat

Init ==
  /\ event \in [Writers -> Events]
  /\ lock \in {{}} \cup {{[by |-> m, old |-> TRUE]} : m \in {Leftover, Obstacle}}
  /\ lines = {} /\ torn = FALSE
  /\ summary \in {[is |-> i, n |-> 0] : i \in {"missing", "corrupt"}}
  /\ writer = [w \in Writers |-> NewWriter]
  /\ sweeper = [g \in Sweepers |-> Resting]
  /\ loose = {} /\ crossed = {}
  /\ budget = MaxFaults

At(w, pc) == writer[w].pc = pc
Becomes(w, state) == writer' = [writer EXCEPT ![w] = state]
Goto(w, pc) == Becomes(w, [writer[w] EXCEPT !.pc = pc])
Fault(kind) == kind \in Faults /\ budget > 0 /\ budget' = budget - 1

-----------------------------------------------------------------------------
(* withFileLock                                                            *)

\* Whoever's lock is removed by another goes on without.
Unlink(w) ==
  /\ lock' = {}
  /\ loose' = loose \cup {v \in Writers \ {w} : writer[v].locked /\ \E f \in lock : f.by = v}

\* Mutant: the deadline is for fresh locks only.
AgainForever(w, state) ==
  IF state.late /\ state.seen = {} THEN Becomes(w, [state EXCEPT !.pc = "check"])
  ELSE Becomes(w, [state EXCEPT !.pc = "create", !.seen = {}])
\* After an attempt that failed: another, or, past the deadline, none.
Again(w, state) ==
  IF state.late THEN Becomes(w, [state EXCEPT !.pc = "check", !.seen = {}])
  ELSE Becomes(w, [state EXCEPT !.pc = "create", !.seen = {}])

Call(w) ==
  /\ At(w, "idle") /\ Goto(w, "create")
  /\ UNCHANGED <<event, lock, files, sweeper, loose, crossed, budget>>

\* The deadline passes: 50 ms.
Late(w) ==
  /\ writer[w].pc \in {"create", "stat", "restat", "remove"} /\ ~ writer[w].late
  /\ Becomes(w, [writer[w] EXCEPT !.late = TRUE])
  /\ UNCHANGED <<event, lock, files, sweeper, loose, crossed, budget>>

\* Mutant: the file is opened for writing, whether it exists or not.
CreateOver(w) ==
  /\ At(w, "create")
  /\ lock' = {[by |-> w, old |-> FALSE]}
  /\ Becomes(w, [writer[w] EXCEPT !.pc = "check", !.locked = TRUE])
  /\ UNCHANGED <<event, files, sweeper, loose, crossed, budget>>
\* The exclusive create.
Create(w) ==
  /\ At(w, "create")
  /\ IF lock = {}
     THEN /\ lock' = {[by |-> w, old |-> FALSE]}
          /\ Becomes(w, [writer[w] EXCEPT !.pc = "check", !.locked = TRUE])
     ELSE Goto(w, "stat") /\ UNCHANGED lock
  /\ UNCHANGED <<event, files, sweeper, loose, crossed, budget>>

\* A lock past the stale age is looked at again, another one waited for.
Stat(w) ==
  /\ At(w, "stat")
  /\ IF \E f \in lock : f.old
     THEN Becomes(w, [writer[w] EXCEPT !.pc = "restat", !.seen = {f.by : f \in lock}])
     ELSE Again(w, writer[w])
  /\ UNCHANGED <<event, lock, files, sweeper, loose, crossed, budget>>

Restat(w) ==
  /\ At(w, "restat")
  /\ IF {f.by : f \in lock} = writer[w].seen THEN Goto(w, "remove")
     ELSE Again(w, writer[w])
  /\ UNCHANGED <<event, lock, files, sweeper, loose, crossed, budget>>

\* It removes what is at the path by now, if that can be removed.
Remove(w) ==
  /\ At(w, "remove")
  /\ LET more == [writer[w] EXCEPT !.steals = @ + 1] IN
     IF \E f \in lock : f.by = Obstacle
     THEN Again(w, writer[w]) /\ UNCHANGED <<event, lock, loose>>
     ELSE /\ Unlink(w)
          /\ IF more.steals <= MaxSteals
             THEN Becomes(w, [more EXCEPT !.pc = "create", !.seen = {}])
             ELSE Again(w, more)
  /\ UNCHANGED <<event, files, sweeper, crossed, budget>>

\* The end of withFileLock, whatever the callback did; by name, too.
Release(w) ==
  /\ At(w, "release")
  /\ Unlink(w)
  /\ Becomes(w, [NewWriter EXCEPT !.pc = writer[w].after])
  /\ UNCHANGED <<event, files, sweeper, crossed, budget>>

\* Five seconds: a holder that takes so long was suspended.
Ages ==
  /\ \E f \in lock : ~ f.old
  /\ lock' = {[f EXCEPT !.old = TRUE] : f \in lock}
  /\ IF \E f \in lock : writer[f.by].pc = "dead" THEN UNCHANGED budget ELSE Fault("slow")
  /\ UNCHANGED <<event, files, writer, sweeper, loose, crossed>>

-----------------------------------------------------------------------------
(* appendOverlayEvent                                                      *)

Recorded(w) == \E v \in lines : event[v] = event[w]

\* After the callback, or what is done instead of it without the lock.
Leave(w, outcome) ==
  IF writer[w].locked
  THEN Becomes(w, [writer[w] EXCEPT !.pc = "release", !.after = outcome,
                                    !.prior = 0, !.got = {}])
  ELSE Becomes(w, [NewWriter EXCEPT !.pc = outcome])

\* Is the event in the log?  Then it is a replay.
Check(w) ==
  /\ At(w, "check")
  /\ IF Recorded(w) THEN Leave(w, "answer") ELSE Goto(w, "append")
  /\ UNCHANGED <<event, lock, files, sweeper, loose, crossed, budget>>

\* Mutant: the line is written behind half a line, and cannot be read.
AppendBehind(w) ==
  /\ At(w, "append")
  /\ lines' = (IF torn THEN lines ELSE lines \cup {w}) /\ torn' = FALSE
  /\ IF writer[w].locked THEN Goto(w, "load") /\ UNCHANGED loose
     ELSE Leave(w, "answer") /\ loose' = loose \cup {w}
  /\ UNCHANGED <<event, lock, summary, sweeper, crossed, budget>>
\* appendPrivateLine, under an flock that a dead process gives up: half a line
\* at the end is cut off first.
Append(w) ==
  /\ At(w, "append")
  /\ lines' = lines \cup {w} /\ torn' = FALSE
  /\ IF writer[w].locked THEN Goto(w, "load") /\ UNCHANGED loose
     ELSE Leave(w, "answer") /\ loose' = loose \cup {w}
  /\ UNCHANGED <<event, lock, summary, sweeper, crossed, budget>>

\* A corrupt summary is built anew, with the new line.
Load(w) ==
  /\ At(w, "load")
  /\ IF summary.is = "corrupt" THEN Goto(w, "recount")
     ELSE Becomes(w, [writer[w] EXCEPT !.pc = "fold", !.prior = summary.n])
  /\ UNCHANGED <<event, lock, files, sweeper, loose, crossed, budget>>

Fold(w) ==
  /\ At(w, "fold")
  /\ summary' = [is |-> "counts", n |-> writer[w].prior + 1]
  /\ Leave(w, "done")
  /\ UNCHANGED <<event, lock, lines, torn, sweeper, loose, crossed, budget>>

\* Without the lock, or after a replay: the summary is read for the caller, and
\* built anew when it is corrupt.
Answer(w) ==
  /\ At(w, "answer")
  /\ Goto(w, IF summary.is = "corrupt" THEN "recount" ELSE "done")
  /\ UNCHANGED <<event, lock, files, sweeper, loose, crossed, budget>>

-----------------------------------------------------------------------------
(* rebuildOverlaySummaryFromEvents                                         *)

Built(got) ==
  /\ summary' = [is |-> "counts", n |-> Cardinality(got)]
  /\ crossed' = crossed \cup {w \in got : At(w, "load")}
  /\ UNCHANGED <<lines, torn>>

Recount(w) ==
  /\ At(w, "recount")
  /\ Becomes(w, [writer[w] EXCEPT !.pc = "rewrite", !.got = lines])
  /\ UNCHANGED <<event, lock, files, sweeper, loose, crossed, budget>>

\* Mutant: the event is added to what was built.
RewriteAndFold(w) ==
  /\ At(w, "rewrite")
  /\ Built(writer[w].got)
  /\ Becomes(w, [writer[w] EXCEPT !.pc = "fold", !.got = {},
                                  !.prior = Cardinality(writer[w].got)])
  /\ UNCHANGED <<event, lock, sweeper, loose, budget>>
Rewrite(w) ==
  /\ At(w, "rewrite")
  /\ Built(writer[w].got)
  /\ Leave(w, "done")
  /\ UNCHANGED <<event, lock, sweeper, loose, budget>>

Sweep(g, state) == sweeper' = [sweeper EXCEPT ![g] = state]

\* reconcileOverlaySummaries counts the lines,
Count(g) ==
  /\ sweeper[g].pc = "idle"
  /\ lines # {} \/ torn
  /\ Sweep(g, [pc |-> "compare", got |-> lines])
  /\ UNCHANGED <<event, lock, files, writer, loose, crossed, budget>>

Lags(got) == summary.is # "counts" \/ summary.n < Cardinality(got)

\* Mutant: a summary that can be read is good.
CompareLoosely(g) ==
  /\ sweeper[g].pc = "compare"
  /\ Sweep(g, IF summary.is # "counts" THEN [pc |-> "recount", got |-> {}] ELSE Resting)
  /\ UNCHANGED <<event, lock, files, writer, loose, crossed, budget>>
\* reads the summary,
Compare(g) ==
  /\ sweeper[g].pc = "compare"
  /\ Sweep(g, IF Lags(sweeper[g].got) THEN [pc |-> "recount", got |-> {}] ELSE Resting)
  /\ UNCHANGED <<event, lock, files, writer, loose, crossed, budget>>

\* and rebuilds it.
SweepRecount(g) ==
  /\ sweeper[g].pc = "recount"
  /\ Sweep(g, [pc |-> "rewrite", got |-> lines])
  /\ UNCHANGED <<event, lock, files, writer, loose, crossed, budget>>

SweepRewrite(g) ==
  /\ sweeper[g].pc = "rewrite"
  /\ Built(sweeper[g].got)
  /\ Sweep(g, Resting)
  /\ UNCHANGED <<event, lock, writer, loose, budget>>

-----------------------------------------------------------------------------
(* Faults                                                                  *)

\* The append throws, is cut off again, and the lock released.
AppendFails(w) ==
  /\ Fault("io")
  /\ At(w, "append") /\ Leave(w, "failed")
  /\ UNCHANGED <<event, lock, files, sweeper, loose, crossed>>

\* The summary cannot be written.
FoldFails(w) ==
  /\ Fault("io")
  /\ writer[w].pc \in {"fold", "rewrite"} /\ Leave(w, "failed")
  /\ UNCHANGED <<event, lock, files, sweeper, loose, crossed>>

\* A process dies, perhaps in the middle of its line.
Crash(w) ==
  /\ Fault("crash")
  /\ writer[w].pc \notin {"idle"} \cup Ended
  /\ Becomes(w, [NewWriter EXCEPT !.pc = "dead"])
  /\ torn' \in {torn, torn \/ At(w, "append")}
  /\ UNCHANGED <<event, lock, lines, summary, sweeper, loose, crossed>>

SweeperStops(g) ==
  /\ Fault("crash")
  /\ sweeper[g].pc # "idle" /\ Sweep(g, Resting)
  /\ UNCHANGED <<event, lock, files, writer, loose, crossed>>

Proceed(w) ==
  \/ Create(w) \/ Stat(w) \/ Restat(w) \/ Remove(w) \/ Release(w)
  \/ Check(w) \/ Append(w) \/ Load(w) \/ Fold(w) \/ Answer(w)
  \/ Recount(w) \/ Rewrite(w)
Reconcile(g) == Count(g) \/ Compare(g) \/ SweepRecount(g) \/ SweepRewrite(g)

Next ==
  \/ \E w \in Writers : Call(w) \/ Late(w) \/ Proceed(w)
  \/ \E w \in Writers : AppendFails(w) \/ FoldFails(w) \/ Crash(w)
  \/ \E g \in Sweepers : Reconcile(g) \/ SweeperStops(g)
  \/ Ages

Spec == Init /\ [][Next]_vars

\* Processes go on, time passes, and every day some hook sweeps.
FairSpec ==
  /\ Spec
  /\ \A w \in Writers : WF_vars(Proceed(w)) /\ WF_vars(Late(w))
  /\ \A g \in Sweepers : WF_vars(Reconcile(g))

-----------------------------------------------------------------------------
(* Properties                                                              *)

\* An event is in the log before it is counted, and when its append returned,
\* whatever others write, whoever dies in the middle of a line, with or without
\* the lock.
EventsAreKept ==
  \A w \in Writers :
    /\ writer[w].pc \in {"load", "fold"} => w \in lines
    /\ writer[w].pc \in {"answer", "done"} => Recorded(w)

\* An event that a hook and the daemon both write is there once, unless one of
\* them wrote without the lock or lost it to another on the way.
OneLineEach ==
  \A v, w \in lines : v # w /\ event[v] = event[w] => {v, w} \cap loose # {}

\* The summary counts no line twice, also when it was corrupt and when locks are
\* lost; the one way is a rebuild that lands between a line and the reading of
\* the summary it is added to, which counts that one line once too often.
NoneCountedTwice == summary.n <= Cardinality(lines) + Cardinality(crossed)

\* A line that was not counted, because its writer had no lock, failed or died, is
\* counted some day.
LagIsMended ==
  summary.n < Cardinality(lines) ~> summary.n >= Cardinality(lines)

\* No lock, and nothing else at its path, stops a writer.
AppendsReturn ==
  \A w \in Writers : writer[w].pc # "idle" ~> writer[w].pc \in Ended
=============================================================================
