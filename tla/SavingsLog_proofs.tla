--------------------------- MODULE SavingsLog_proofs ---------------------------
(***************************************************************************)
(* Safety of SavingsLog for any number of writers, sweeps and faults.      *)
(*                                                                         *)
(* That an event is kept follows from where its writer is (Known).  That   *)
(* it is there once follows from who has the lock (Locks): of the writers  *)
(* that think they do, all but one have lost it to another.  That none is  *)
(* counted twice is not inductive: a writer that has its line in the log   *)
(* and has not yet read the summary will count one more than the summary   *)
(* says, so the summary must leave room for all of them (Counted).         *)
(***************************************************************************)
EXTENDS SavingsLog, FiniteSetTheorems, TLAPS

Waits == {"idle", "create", "stat", "restat", "remove"}

\* Before its append a writer's line is not there; from then on it is, and once it
\* gets its answer its event is there, by its own line or another's.
Known(w) ==
  /\ writer[w].pc \in Waits \cup {"check", "append"} => w \notin lines
  /\ writer[w].pc \in {"load", "fold"} => w \in lines
  /\ writer[w].pc \in {"recount", "rewrite", "answer", "done"} => Recorded(w)
  /\ writer[w].pc = "release" /\ writer[w].after # "failed" => Recorded(w)

Free == Waits \cup {"answer"} \cup Ended

\* Who has the lock and did not lose it finds its file at the path, and at its
\* append no line of its event but those that were written without.
Locks(w) ==
  /\ writer[w].pc \in Free => ~ writer[w].locked
  /\ writer[w].locked /\ w \notin loose => \E f \in lock : f.by = w
  /\ writer[w].pc = "append" /\ writer[w].locked /\ w \notin loose =>
       \A v \in lines : event[v] = event[w] => v \in loose

Loading == {w \in Writers : writer[w].pc = "load"}

Builds ==
  /\ \A w \in Writers : writer[w].got \subseteq lines
  /\ \A g \in Sweepers : sweeper[g].got \subseteq lines
Room(n) == n <= Cardinality(lines \ Loading) + Cardinality(crossed)
Counted ==
  /\ Room(summary.n)
  /\ \A w \in Writers : writer[w].pc = "fold" => Room(writer[w].prior + 1)

-----------------------------------------------------------------------------
(* Types                                                                   *)

LEMMA NewType == NewWriter \in WriterStates
  BY DEF NewWriter, WriterStates, WriterPcs

LEMMA TypeInit == Init => TypeOK
<1> SUFFICES ASSUME Init PROVE TypeOK
  OBVIOUS
<1>1. writer \in [Writers -> WriterStates] /\ \A w \in Writers : writer[w].pc = "idle"
  BY NewType DEF Init, NewWriter
<1>2. sweeper \in [Sweepers -> SweeperStates]
  BY DEF Init, Resting, SweeperStates
<1>3. lock \subseteq [by : Makers, old : BOOLEAN] /\ \A f, h \in lock : f = h
  <2>1. CASE lock = {}
    BY <2>1
  <2>2. CASE lock # {}
    <3>1. PICK m \in {Leftover, Obstacle} : lock = {[by |-> m, old |-> TRUE]}
      BY <2>2 DEF Init
    <3> QED
      BY <3>1 DEF Makers
  <2> QED
    BY <2>1, <2>2
<1>4. /\ summary \in [is : {"missing", "corrupt", "counts"}, n : Nat]
      /\ summary.is # "counts" => summary.n = 0
  BY DEF Init
<1>5. /\ event \in [Writers -> Events] /\ lines \subseteq Writers /\ loose \subseteq Writers
      /\ torn \in BOOLEAN /\ crossed \subseteq Writers /\ budget \in Nat
  BY FaultsAssumption DEF Init
<1> QED
  BY <1>1, <1>2, <1>3, <1>4, <1>5 DEF TypeOK

\* What a step makes of its writer; the others stay where they are.
Moves(w, pcs, locked, got) ==
  /\ writer' \in [Writers -> WriterStates]
  /\ \A v \in Writers \ {w} : writer'[v] = writer[v]
  /\ writer'[w].pc \in pcs /\ writer'[w].locked = locked /\ writer'[w].got = got

LEMMA Fields ==
  ASSUME NEW s \in WriterStates, NEW pc \in WriterPcs
  PROVE  LET t == [s EXCEPT !.pc = pc] IN
         t \in WriterStates /\ t.pc = pc /\ t.locked = s.locked /\ t.got = s.got
  BY DEF WriterStates

LEMMA MovesTo ==
  ASSUME TypeOK, NEW w \in Writers, NEW state \in WriterStates, Becomes(w, state)
  PROVE  /\ writer'[w] = state
         /\ Moves(w, {state.pc}, state.locked, state.got)
  BY DEF TypeOK, Becomes, Moves

LEMMA Goes ==
  ASSUME TypeOK, NEW w \in Writers, NEW pc \in WriterPcs, Goto(w, pc)
  PROVE  Moves(w, {pc}, writer[w].locked, writer[w].got)
<1> DEFINE t == [writer[w] EXCEPT !.pc = pc]
<1>1. writer[w] \in WriterStates
  BY DEF TypeOK
<1>2. t \in WriterStates /\ t.pc = pc /\ t.locked = writer[w].locked /\ t.got = writer[w].got
  BY <1>1, Fields
<1>3. Becomes(w, t)
  BY DEF Goto
<1> HIDE DEF t
<1> QED
  BY <1>2, <1>3, MovesTo

LEMMA TriesAgain ==
  ASSUME TypeOK, NEW w \in Writers, NEW s \in WriterStates, Again(w, s)
  PROVE  Moves(w, {"create", "check"}, s.locked, s.got)
<1> DEFINE t(pc) == [s EXCEPT !.pc = pc, !.seen = {}]
<1>1. ASSUME NEW pc \in WriterPcs
      PROVE  /\ t(pc) \in WriterStates
             /\ t(pc).pc = pc /\ t(pc).locked = s.locked /\ t(pc).got = s.got
  BY DEF WriterStates
<1>2. \E pc \in {"create", "check"} : Becomes(w, t(pc))
  BY DEF Again
<1> HIDE DEF t
<1>3. PICK pc \in {"create", "check"} : Becomes(w, t(pc))
  BY <1>2
<1>4. pc \in WriterPcs
  BY DEF WriterPcs
<1>5. Moves(w, {pc}, s.locked, s.got)
  BY <1>1, <1>3, <1>4, MovesTo
<1> QED
  BY <1>5 DEF Moves

LEMMA Leaves ==
  ASSUME TypeOK, NEW w \in Writers, NEW outcome \in {"done", "answer", "failed"},
         Leave(w, outcome)
  PROVE  \/ /\ writer[w].locked /\ Moves(w, {"release"}, TRUE, {})
            /\ writer'[w].after = outcome
         \/ ~ writer[w].locked /\ Moves(w, {outcome}, FALSE, {})
<1>1. writer[w] \in WriterStates
  BY DEF TypeOK
<1>2. ASSUME writer[w].locked
      PROVE  Moves(w, {"release"}, TRUE, {}) /\ writer'[w].after = outcome
  <2> DEFINE t == [writer[w] EXCEPT !.pc = "release", !.after = outcome, !.prior = 0, !.got = {}]
  <2>1. \A s \in WriterStates :
          LET r == [s EXCEPT !.pc = "release", !.after = outcome, !.prior = 0, !.got = {}] IN
          /\ r \in WriterStates /\ r.pc = "release" /\ r.locked = s.locked /\ r.got = {}
          /\ r.after = outcome
    BY DEF WriterStates, WriterPcs
  <2>2. /\ t \in WriterStates /\ t.pc = "release" /\ t.locked = writer[w].locked /\ t.got = {}
        /\ t.after = outcome
    BY <1>1, <2>1
  <2>3. Becomes(w, t)
    BY <1>2 DEF Leave
  <2>4. writer[w].locked = TRUE
    BY <1>1, <1>2 DEF WriterStates
  <2> HIDE DEF t
  <2> QED
    BY <2>2, <2>3, <2>4, MovesTo
<1>3. ASSUME ~ writer[w].locked PROVE Moves(w, {outcome}, FALSE, {})
  <2>1. LET t == [NewWriter EXCEPT !.pc = outcome] IN
        t \in WriterStates /\ t.pc = outcome /\ t.locked = FALSE /\ t.got = {}
    BY DEF NewWriter, WriterStates, WriterPcs, Ended
  <2>2. Becomes(w, [NewWriter EXCEPT !.pc = outcome])
    BY <1>3 DEF Leave
  <2> QED
    BY <2>1, <2>2, MovesTo
<1> QED
  BY <1>2, <1>3

\* The steps of withFileLock.
LEMMA LockSteps ==
  ASSUME TypeOK, NEW w \in Writers
  PROVE  /\ Call(w) => Moves(w, {"create"}, writer[w].locked, writer[w].got)
         /\ Late(w) => Moves(w, {writer[w].pc}, writer[w].locked, writer[w].got)
         /\ Create(w) => IF lock = {} THEN Moves(w, {"check"}, TRUE, writer[w].got)
                         ELSE Moves(w, {"stat"}, writer[w].locked, writer[w].got)
         /\ Stat(w) => Moves(w, {"restat", "create", "check"}, writer[w].locked, writer[w].got)
         /\ Restat(w) => Moves(w, {"remove", "create", "check"}, writer[w].locked, writer[w].got)
         /\ Remove(w) => Moves(w, {"create", "check"}, writer[w].locked, writer[w].got)
         /\ Release(w) => Moves(w, {writer[w].after}, FALSE, {})
<1>0. writer[w] \in WriterStates
  BY DEF TypeOK
<1>1. ASSUME Call(w) PROVE Moves(w, {"create"}, writer[w].locked, writer[w].got)
  BY <1>1, Goes DEF Call, WriterPcs
<1>2. ASSUME Late(w) PROVE Moves(w, {writer[w].pc}, writer[w].locked, writer[w].got)
  <2> DEFINE t == [writer[w] EXCEPT !.late = TRUE]
  <2>1. \A s \in WriterStates :
          LET r == [s EXCEPT !.late = TRUE] IN
          r \in WriterStates /\ r.pc = s.pc /\ r.locked = s.locked /\ r.got = s.got
    BY DEF WriterStates
  <2>2. /\ t \in WriterStates
        /\ t.pc = writer[w].pc /\ t.locked = writer[w].locked /\ t.got = writer[w].got
    BY <1>0, <2>1
  <2>3. Becomes(w, t)
    BY <1>2 DEF Late
  <2> HIDE DEF t
  <2> QED
    BY <2>2, <2>3, MovesTo
<1>3. ASSUME Create(w)
      PROVE  IF lock = {} THEN Moves(w, {"check"}, TRUE, writer[w].got)
             ELSE Moves(w, {"stat"}, writer[w].locked, writer[w].got)
  <2>1. CASE lock = {}
    <3> DEFINE t == [writer[w] EXCEPT !.pc = "check", !.locked = TRUE]
    <3>1. \A s \in WriterStates :
            LET r == [s EXCEPT !.pc = "check", !.locked = TRUE] IN
            r \in WriterStates /\ r.pc = "check" /\ r.locked = TRUE /\ r.got = s.got
      BY DEF WriterStates, WriterPcs
    <3>2. t \in WriterStates /\ t.pc = "check" /\ t.locked = TRUE /\ t.got = writer[w].got
      BY <1>0, <3>1
    <3>3. Becomes(w, t)
      BY <1>3, <2>1 DEF Create
    <3> HIDE DEF t
    <3> QED
      BY <2>1, <3>2, <3>3, MovesTo
  <2>2. CASE lock # {}
    BY <1>3, <2>2, Goes DEF Create, WriterPcs
  <2> QED
    BY <2>1, <2>2
<1>4. ASSUME Stat(w)
      PROVE  Moves(w, {"restat", "create", "check"}, writer[w].locked, writer[w].got)
  <2>1. CASE \E f \in lock : f.old
    <3> DEFINE seen == {f.by : f \in lock}
               t == [writer[w] EXCEPT !.pc = "restat", !.seen = seen]
    <3>1. \A s \in WriterStates, b \in SUBSET Makers :
            LET r == [s EXCEPT !.pc = "restat", !.seen = b] IN
            r \in WriterStates /\ r.pc = "restat" /\ r.locked = s.locked /\ r.got = s.got
      BY DEF WriterStates, WriterPcs
    <3>2. seen \in SUBSET Makers
      BY DEF TypeOK
    <3>3. Becomes(w, t)
      BY <1>4, <2>1 DEF Stat
    <3> HIDE DEF seen
    <3>4. /\ t \in WriterStates /\ t.pc = "restat" /\ t.locked = writer[w].locked
          /\ t.got = writer[w].got
      BY <1>0, <3>1, <3>2
    <3> HIDE DEF t
    <3>5. Moves(w, {"restat"}, writer[w].locked, writer[w].got)
      BY <3>3, <3>4, MovesTo
    <3> QED
      BY <3>5 DEF Moves
  <2>2. CASE ~ \E f \in lock : f.old
    <3>1. Moves(w, {"create", "check"}, writer[w].locked, writer[w].got)
      BY <1>0, <1>4, <2>2, TriesAgain DEF Stat
    <3> QED
      BY <3>1 DEF Moves
  <2> QED
    BY <2>1, <2>2
<1>5. ASSUME Restat(w)
      PROVE  Moves(w, {"remove", "create", "check"}, writer[w].locked, writer[w].got)
  <2>1. Goto(w, "remove") \/ Again(w, writer[w])
    BY <1>5 DEF Restat
  <2>2. \/ Moves(w, {"remove"}, writer[w].locked, writer[w].got)
        \/ Moves(w, {"create", "check"}, writer[w].locked, writer[w].got)
    BY <1>0, <2>1, Goes, TriesAgain DEF WriterPcs
  <2> QED
    BY <2>2 DEF Moves
<1>6. ASSUME Remove(w) PROVE Moves(w, {"create", "check"}, writer[w].locked, writer[w].got)
  <2> DEFINE more == [writer[w] EXCEPT !.steals = @ + 1]
             t == [more EXCEPT !.pc = "create", !.seen = {}]
  <2>1. \A s \in WriterStates :
          LET r == [s EXCEPT !.steals = @ + 1] IN
          r \in WriterStates /\ r.locked = s.locked /\ r.got = s.got
    BY DEF WriterStates
  <2>2. /\ more \in WriterStates /\ more.locked = writer[w].locked
        /\ more.got = writer[w].got
    BY <1>0, <2>1
  <2>3. Again(w, writer[w]) \/ Again(w, more) \/ Becomes(w, t)
    BY <1>6 DEF Remove
  <2>4. \A s \in WriterStates :
          LET r == [s EXCEPT !.pc = "create", !.seen = {}] IN
          r \in WriterStates /\ r.pc = "create" /\ r.locked = s.locked /\ r.got = s.got
    BY DEF WriterStates, WriterPcs
  <2> HIDE DEF more
  <2>5. /\ t \in WriterStates /\ t.pc = "create" /\ t.locked = writer[w].locked
        /\ t.got = writer[w].got
    BY <2>2, <2>4
  <2> HIDE DEF t
  <2>6. \/ Moves(w, {"create", "check"}, writer[w].locked, writer[w].got)
        \/ Moves(w, {"create"}, writer[w].locked, writer[w].got)
    <3>1. CASE Again(w, writer[w])
      BY <1>0, <3>1, TriesAgain
    <3>2. CASE Again(w, more)
      BY <2>2, <3>2, TriesAgain
    <3>3. CASE Becomes(w, t)
      BY <2>5, <3>3, MovesTo
    <3> QED
      BY <2>3, <3>1, <3>2, <3>3
  <2> QED
    BY <2>6 DEF Moves
<1>7. ASSUME Release(w) PROVE Moves(w, {writer[w].after}, FALSE, {})
  <2>1. \A pc \in {"done", "answer", "failed"} :
          LET r == [NewWriter EXCEPT !.pc = pc] IN
          r \in WriterStates /\ r.pc = pc /\ r.locked = FALSE /\ r.got = {}
    BY DEF NewWriter, WriterStates, WriterPcs, Ended
  <2>2. writer[w].after \in {"done", "answer", "failed"}
    BY <1>0 DEF WriterStates
  <2> DEFINE t == [NewWriter EXCEPT !.pc = writer[w].after]
  <2>3. Becomes(w, t)
    BY <1>7 DEF Release
  <2>4. t \in WriterStates /\ t.pc = writer[w].after /\ t.locked = FALSE /\ t.got = {}
    BY <2>1, <2>2
  <2> HIDE DEF t
  <2>5. t.pc \in {writer[w].after}
    BY <2>4
  <2> QED
    BY <2>3, <2>4, <2>5, MovesTo
<1> QED
  BY <1>1, <1>2, <1>3, <1>4, <1>5, <1>6, <1>7

\* The steps of appendOverlayEvent.
AppendStep(w) ==
  \/ Check(w) \/ Append(w) \/ Load(w) \/ Fold(w) \/ Answer(w) \/ Recount(w) \/ Rewrite(w)
  \/ AppendFails(w) \/ FoldFails(w) \/ Crash(w)

LEMMA AppendSteps ==
  ASSUME TypeOK, NEW w \in Writers
  PROVE  /\ Load(w) => \/ Moves(w, {"recount"}, writer[w].locked, writer[w].got)
                       \/ /\ Moves(w, {"fold"}, writer[w].locked, writer[w].got)
                          /\ writer'[w].prior = summary.n
         /\ Answer(w) => Moves(w, {"recount", "done"}, writer[w].locked, writer[w].got)
         /\ Recount(w) => Moves(w, {"rewrite"}, writer[w].locked, lines)
         /\ Crash(w) => Moves(w, {"dead"}, FALSE, {})
<1>0. writer[w] \in WriterStates
  BY DEF TypeOK
<1>1. ASSUME Load(w)
      PROVE  \/ Moves(w, {"recount"}, writer[w].locked, writer[w].got)
             \/ /\ Moves(w, {"fold"}, writer[w].locked, writer[w].got)
                /\ writer'[w].prior = summary.n
  <2>1. CASE summary.is = "corrupt"
    BY <1>1, <2>1, Goes DEF Load, WriterPcs
  <2>2. CASE summary.is # "corrupt"
    <3> DEFINE t == [writer[w] EXCEPT !.pc = "fold", !.prior = summary.n]
    <3>1. \A s \in WriterStates, n \in Nat :
            LET r == [s EXCEPT !.pc = "fold", !.prior = n] IN
            /\ r \in WriterStates /\ r.pc = "fold" /\ r.locked = s.locked /\ r.got = s.got
            /\ r.prior = n
      BY DEF WriterStates, WriterPcs
    <3>2. summary.n \in Nat
      BY DEF TypeOK
    <3>3. /\ t \in WriterStates /\ t.pc = "fold" /\ t.locked = writer[w].locked
          /\ t.got = writer[w].got /\ t.prior = summary.n
      BY <1>0, <3>1, <3>2
    <3>4. Becomes(w, t)
      BY <1>1, <2>2 DEF Load
    <3> HIDE DEF t
    <3> QED
      BY <3>3, <3>4, MovesTo
  <2> QED
    BY <2>1, <2>2
<1>2. ASSUME Answer(w)
      PROVE  Moves(w, {"recount", "done"}, writer[w].locked, writer[w].got)
  <2>1. Goto(w, "recount") \/ Goto(w, "done")
    BY <1>2 DEF Answer
  <2>2. \/ Moves(w, {"recount"}, writer[w].locked, writer[w].got)
        \/ Moves(w, {"done"}, writer[w].locked, writer[w].got)
    BY <2>1, Goes DEF WriterPcs, Ended
  <2> QED
    BY <2>2 DEF Moves
<1>3. ASSUME Recount(w) PROVE Moves(w, {"rewrite"}, writer[w].locked, lines)
  <2> DEFINE t == [writer[w] EXCEPT !.pc = "rewrite", !.got = lines]
  <2>1. \A s \in WriterStates, got \in SUBSET Writers :
          LET r == [s EXCEPT !.pc = "rewrite", !.got = got] IN
          r \in WriterStates /\ r.pc = "rewrite" /\ r.locked = s.locked /\ r.got = got
    BY DEF WriterStates, WriterPcs
  <2>2. lines \in SUBSET Writers
    BY DEF TypeOK
  <2>3. /\ t \in WriterStates /\ t.pc = "rewrite" /\ t.locked = writer[w].locked
        /\ t.got = lines
    BY <1>0, <2>1, <2>2
  <2>4. Becomes(w, t)
    BY <1>3 DEF Recount
  <2> HIDE DEF t
  <2> QED
    BY <2>3, <2>4, MovesTo
<1>4. ASSUME Crash(w) PROVE Moves(w, {"dead"}, FALSE, {})
  <2>1. LET r == [NewWriter EXCEPT !.pc = "dead"] IN
        r \in WriterStates /\ r.pc = "dead" /\ r.locked = FALSE /\ r.got = {}
    BY DEF NewWriter, WriterStates, WriterPcs, Ended
  <2>2. Becomes(w, [NewWriter EXCEPT !.pc = "dead"])
    BY <1>4 DEF Crash
  <2> QED
    BY <2>1, <2>2, MovesTo
<1> QED
  BY <1>1, <1>2, <1>3, <1>4

LockStep(w) ==
  Call(w) \/ Late(w) \/ Create(w) \/ Stat(w) \/ Restat(w) \/ Remove(w) \/ Release(w)
SweepStep(g) == Reconcile(g) \/ SweeperStops(g)

\* The steps, by what they leave alone.
LEMMA Cases ==
  ASSUME [Next]_vars
  PROVE  \/ \E w \in Writers : LockStep(w)
         \/ \E w \in Writers : AppendStep(w)
         \/ \E g \in Sweepers : SweepStep(g)
         \/ Ages
         \/ UNCHANGED vars
  BY DEF Next, Proceed, LockStep, AppendStep, SweepStep

LEMMA LockKeeps ==
  ASSUME NEW w \in Writers, LockStep(w)
  PROVE  UNCHANGED <<event, files, sweeper, crossed, budget>>
  BY DEF LockStep, Call, Late, Create, Stat, Restat, Remove, Release, Unlink

LEMMA AppendKeeps ==
  ASSUME NEW w \in Writers, AppendStep(w)
  PROVE  UNCHANGED <<event, lock, sweeper>>
  BY DEF AppendStep, Check, Append, Load, Fold, Answer, Recount, Rewrite, AppendFails,
         FoldFails, Crash

LEMMA SweepKeeps ==
  ASSUME NEW g \in Sweepers, SweepStep(g)
  PROVE  UNCHANGED <<event, lock, lines, torn, writer, loose>>
  BY DEF SweepStep, Reconcile, Count, Compare, SweepRecount, SweepRewrite, SweeperStops,
         Built, files

LEMMA AgesKeeps ==
  ASSUME Ages
  PROVE  UNCHANGED <<event, files, writer, sweeper, loose, crossed>>
  BY DEF Ages

\* Who folds or loads has the lock.
Soundly(w) ==
  /\ writer' \in [Writers -> WriterStates]
  /\ \A v \in Writers \ {w} : writer'[v] = writer[v]
  /\ writer'[w].pc \in {"load", "fold"} => writer'[w].locked

LEMMA Sound ==
  ASSUME NEW w \in Writers, NEW pcs, NEW locked, NEW got, Moves(w, pcs, locked, got),
         locked \/ ("load" \notin pcs /\ "fold" \notin pcs)
  PROVE  Soundly(w)
  BY DEF Moves, Soundly

LEMMA TypeLock ==
  ASSUME TypeOK, NEW w \in Writers, LockStep(w)
  PROVE  TypeOK'
<1>1. \A v \in Writers : writer[v].pc \in {"load", "fold"} => writer[v].locked
  BY DEF TypeOK
<1>2. writer[w] \in WriterStates /\ writer[w].after \in {"done", "answer", "failed"}
  BY DEF TypeOK, WriterStates
<1>3. Soundly(w)
  <2>1. CASE Late(w)
    <3>1. writer[w].pc \notin {"load", "fold"}
      BY <2>1 DEF Late
    <3> QED
      BY <2>1, <3>1, LockSteps DEF Moves, Soundly
  <2>2. CASE Release(w)
    BY <1>2, <2>2, LockSteps, Sound
  <2>3. CASE Call(w) \/ Create(w) \/ Stat(w) \/ Restat(w) \/ Remove(w)
    BY <2>3, LockSteps, Sound
  <2> QED
    BY <2>1, <2>2, <2>3 DEF LockStep
<1>4. /\ writer' \in [Writers -> WriterStates]
      /\ \A v \in Writers : writer'[v].pc \in {"load", "fold"} => writer'[v].locked
  BY <1>1, <1>3 DEF Soundly
<1>5. /\ lock' \in {lock, {}, {[by |-> w, old |-> FALSE]}}
      /\ loose' \subseteq Writers
  BY DEF TypeOK, LockStep, Call, Late, Create, Stat, Restat, Remove, Release, Unlink
<1>6. lock' \subseteq [by : Makers, old : BOOLEAN] /\ \A f, h \in lock' : f = h
  <2>1. lock \subseteq [by : Makers, old : BOOLEAN] /\ \A f, h \in lock : f = h
    BY DEF TypeOK
  <2>2. [by |-> w, old |-> FALSE] \in [by : Makers, old : BOOLEAN]
    BY DEF Makers
  <2> QED
    BY <1>5, <2>1, <2>2
<1> QED
  BY <1>4, <1>5, <1>6, LockKeeps DEF TypeOK, files

LEMMA TypeAppend ==
  ASSUME TypeOK, NEW w \in Writers, AppendStep(w)
  PROVE  TypeOK'
<1>0. writer[w] \in WriterStates
  BY DEF TypeOK
<1>1. \A v \in Writers : writer[v].pc \in {"load", "fold"} => writer[v].locked
  BY DEF TypeOK
<1>2. Soundly(w)
  <2>1. ASSUME NEW outcome \in {"done", "answer", "failed"}, Leave(w, outcome)
        PROVE  Soundly(w)
    BY <2>1, Leaves, Sound
  <2>2. CASE Check(w)
    <3>1. CASE Leave(w, "answer")
      BY <2>1, <3>1
    <3>2. CASE Goto(w, "append")
      <4>1. Moves(w, {"append"}, writer[w].locked, writer[w].got)
        BY <3>2, Goes DEF WriterPcs
      <4> QED
        BY <4>1 DEF Moves, Soundly
    <3> QED
      BY <2>2, <3>1, <3>2 DEF Check
  <2>3. CASE Append(w)
    <3>1. CASE Leave(w, "answer")
      BY <2>1, <3>1
    <3>2. CASE writer[w].locked /\ Goto(w, "load")
      <4>1. Moves(w, {"load"}, writer[w].locked, writer[w].got)
        BY <3>2, Goes DEF WriterPcs
      <4> QED
        BY <3>2, <4>1 DEF Moves, Soundly
    <3> QED
      BY <2>3, <3>1, <3>2 DEF Append
  <2>4. CASE Load(w)
    <3>1. writer[w].locked
      BY <1>1, <2>4 DEF Load, At
    <3> QED
      BY <2>4, <3>1, AppendSteps DEF Moves, Soundly
  <2>5. CASE Answer(w) \/ Recount(w) \/ Crash(w)
    BY <2>5, AppendSteps DEF Moves, Soundly
  <2>6. CASE Fold(w) \/ Rewrite(w) \/ AppendFails(w) \/ FoldFails(w)
    BY <2>1, <2>6 DEF Fold, Rewrite, AppendFails, FoldFails
  <2> QED
    BY <2>2, <2>3, <2>4, <2>5, <2>6 DEF AppendStep
<1>3. /\ writer' \in [Writers -> WriterStates]
      /\ \A v \in Writers : writer'[v].pc \in {"load", "fold"} => writer'[v].locked
  BY <1>1, <1>2 DEF Soundly
<1>4. lines' \in {lines, lines \cup {w}} /\ loose' \in {loose, loose \cup {w}}
  BY DEF AppendStep, Check, Append, Load, Fold, Answer, Recount, Rewrite, AppendFails,
         FoldFails, Crash, Built, files
<1>6. torn' \in BOOLEAN /\ crossed' \subseteq Writers
  <2>1. torn \in BOOLEAN /\ crossed \subseteq Writers
    BY DEF TypeOK
  <2>2. CASE Rewrite(w)
    <3>1. writer[w].got \subseteq Writers
      BY <1>0 DEF WriterStates
    <3> QED
      BY <2>1, <2>2, <3>1 DEF Rewrite, Built
  <2>3. CASE Crash(w)
    BY <2>1, <2>3 DEF Crash
  <2> QED
    BY <2>1, <2>2, <2>3 DEF AppendStep, Check, Append, Load, Fold, Answer, Recount,
         AppendFails, FoldFails, files
<1>7. budget' \in Nat
  BY DEF TypeOK, AppendStep, Check, Append, Load, Fold, Answer, Recount, Rewrite, AppendFails,
         FoldFails, Crash, Fault
<1>5. summary' \in [is : {"missing", "corrupt", "counts"}, n : Nat]
        /\ (summary'.is # "counts" => summary'.n = 0)
  <2>1. CASE Fold(w)
    <3>1. writer[w].prior + 1 \in Nat
      BY <1>0 DEF WriterStates
    <3> QED
      BY <2>1, <3>1 DEF Fold
  <2>2. CASE Rewrite(w)
    <3>1. writer[w].got \subseteq Writers
      BY <1>0 DEF WriterStates
    <3>2. Cardinality(writer[w].got) \in Nat
      BY <3>1, WritersAssumption, FS_Subset, FS_CardinalityType
    <3> QED
      BY <2>2, <3>2 DEF Rewrite, Built
  <2>3. CASE UNCHANGED summary
    BY <2>3 DEF TypeOK
  <2> QED
    BY <2>1, <2>2, <2>3 DEF AppendStep, Check, Append, Load, Answer, Recount, AppendFails,
         FoldFails, Crash, files
<1> QED
  BY <1>3, <1>4, <1>5, <1>6, <1>7, AppendKeeps DEF TypeOK

LEMMA TypeSweep ==
  ASSUME TypeOK, NEW g \in Sweepers, SweepStep(g)
  PROVE  TypeOK'
<1>1. sweeper' \in [Sweepers -> SweeperStates]
  BY DEF TypeOK, SweepStep, Reconcile, Count, Compare, SweepRecount, SweepRewrite,
         SweeperStops, Sweep, Resting, SweeperStates
<1>2. sweeper[g].got \subseteq Writers
  BY DEF TypeOK, SweeperStates
<1>3. Cardinality(sweeper[g].got) \in Nat
  BY <1>2, WritersAssumption, FS_Subset, FS_CardinalityType
<1>4. /\ summary' \in [is : {"missing", "corrupt", "counts"}, n : Nat]
      /\ summary'.is # "counts" => summary'.n = 0
      /\ crossed' \subseteq Writers
  <2>1. CASE SweepRewrite(g)
    BY <1>2, <1>3, <2>1 DEF SweepRewrite, Built, TypeOK
  <2>2. CASE UNCHANGED <<summary, crossed>>
    BY <2>2 DEF TypeOK
  <2> QED
    BY <2>1, <2>2 DEF SweepStep, Reconcile, Count, Compare, SweepRecount, SweeperStops, files
<1>5. budget' \in Nat
  BY DEF TypeOK, SweepStep, Reconcile, Count, Compare, SweepRecount, SweepRewrite,
         SweeperStops, Fault
<1> QED
  BY <1>1, <1>4, <1>5, SweepKeeps DEF TypeOK

LEMMA TypeStep == TypeOK /\ [Next]_vars => TypeOK'
<1> SUFFICES ASSUME TypeOK, [Next]_vars PROVE TypeOK'
  OBVIOUS
<1>1. ASSUME Ages PROVE TypeOK'
  <2>1. lock' = {[f EXCEPT !.old = TRUE] : f \in lock}
    BY <1>1 DEF Ages
  <2>2. lock' \subseteq [by : Makers, old : BOOLEAN] /\ \A f, h \in lock' : f = h
    <3>1. \A f, h \in lock : f = h
      BY DEF TypeOK
    <3>2. \A f \in lock : [f EXCEPT !.old = TRUE] \in [by : Makers, old : BOOLEAN]
      BY DEF TypeOK
    <3>3. \A f, h \in lock' : f = h
      BY <2>1, <3>1, Zenon
    <3>4. lock' \subseteq [by : Makers, old : BOOLEAN]
      BY <2>1, <3>2, Zenon
    <3> QED
      BY <3>3, <3>4
  <2>3. budget' \in Nat
    BY <1>1 DEF Ages, Fault, TypeOK
  <2> QED
    BY <1>1, <2>2, <2>3, AgesKeeps DEF TypeOK, files
<1>2. CASE UNCHANGED vars
  BY <1>2 DEF vars, files, TypeOK
<1> QED
  BY <1>1, <1>2, Cases, TypeLock, TypeAppend, TypeSweep

\* Every variable stays in its type: a writer is at one of its steps and folds only
\* with the lock, there is one lock file at most, and only a summary that was
\* written counts anything (TypeOK is an invariant of every behaviour).
THEOREM TypeCorrect == Spec => []TypeOK
<1> QED
  BY TypeInit, TypeStep, PTL DEF Spec

-----------------------------------------------------------------------------
(* Events are kept                                                         *)

Placed == \A w \in Writers : Known(w)

LEMMA LinesGrow ==
  ASSUME [Next]_vars
  PROVE  /\ event' = event
         /\ lines \subseteq lines'
         /\ \A w \in Writers : Recorded(w) => Recorded(w)'
<1>1. event' = event /\ lines \subseteq lines'
  <2>1. ASSUME NEW w \in Writers, AppendStep(w) PROVE lines \subseteq lines'
    BY <2>1 DEF AppendStep, Check, Append, Load, Fold, Answer, Recount, Rewrite,
       AppendFails, FoldFails, Crash, Built, files
  <2> QED
    BY <2>1, Cases, LockKeeps, AppendKeeps, SweepKeeps, AgesKeeps DEF files, vars
<1> QED
  BY <1>1 DEF Recorded

\* The other writers know what they knew.
LEMMA OthersKnow ==
  ASSUME Placed, [Next]_vars, NEW v \in Writers, writer'[v] = writer[v],
         v \in lines' => v \in lines
  PROVE  Known(v)'
  BY LinesGrow DEF Placed, Known

LEMMA KnownLock ==
  ASSUME TypeOK, Placed, [Next]_vars, NEW w \in Writers, LockStep(w)
  PROVE  Placed'
<1>1. lines' = lines /\ (Recorded(w) => Recorded(w)')
  BY LockKeeps, LinesGrow DEF files
<1>2. Known(w)
  BY DEF Placed
<1>3. Known(w)' /\ \A v \in Writers \ {w} : writer'[v] = writer[v]
  <2>1. CASE Release(w)
    <3>1. writer[w].pc = "release" /\ writer[w].after \in {"done", "answer", "failed"}
      BY <2>1 DEF Release, At, TypeOK, WriterStates
    <3> QED
      BY <1>1, <1>2, <2>1, <3>1, LockSteps DEF Moves, Known, Waits
  <2>2. CASE Late(w)
    <3>1. writer[w].pc \in Waits
      BY <2>2 DEF Late, Waits
    <3> QED
      BY <1>1, <1>2, <2>2, <3>1, LockSteps DEF Moves, Known, Waits
  <2>3. CASE Call(w) \/ Create(w) \/ Stat(w) \/ Restat(w) \/ Remove(w)
    <3>1. w \notin lines
      BY <1>2, <2>3 DEF Known, Waits, Call, Create, Stat, Restat, Remove, At
    <3>2. writer'[w].pc \in {"create", "check", "stat", "restat", "remove"}
      BY <2>3, LockSteps DEF Moves
    <3>3. \A v \in Writers \ {w} : writer'[v] = writer[v]
      BY <2>3, LockSteps DEF Moves
    <3> QED
      BY <1>1, <3>1, <3>2, <3>3 DEF Known, Waits
  <2> QED
    BY <2>1, <2>2, <2>3 DEF LockStep
<1>4. \A v \in Writers \ {w} : Known(v)'
  BY <1>1, <1>3, OthersKnow
<1> QED
  BY <1>3, <1>4 DEF Placed

LEMMA KnownAppend ==
  ASSUME TypeOK, Placed, [Next]_vars, NEW w \in Writers, AppendStep(w)
  PROVE  Placed'
<1>1. Recorded(w) => Recorded(w)'
  BY LinesGrow
<1>2. Known(w)
  BY DEF Placed
<1>3. (w \in lines => Recorded(w)) /\ (w \in lines' => Recorded(w)')
  BY LinesGrow DEF Recorded
<1>4. ASSUME NEW outcome \in {"done", "answer", "failed"}, Leave(w, outcome),
             outcome # "failed" => Recorded(w)'
      PROVE  Known(w)' /\ \A v \in Writers \ {w} : writer'[v] = writer[v]
  BY <1>4, Leaves DEF Moves, Known, Waits
<1>5. ASSUME lines' = lines
      PROVE  Known(w)' /\ \A v \in Writers \ {w} : writer'[v] = writer[v]
  <2>1. CASE Check(w)
    <3>1. CASE Recorded(w)
      BY <1>1, <1>4, <2>1, <3>1 DEF Check
    <3>2. CASE ~ Recorded(w)
      <4>1. Moves(w, {"append"}, writer[w].locked, writer[w].got)
        BY <2>1, <3>2, Goes DEF Check, WriterPcs
      <4>2. w \notin lines
        BY <1>2, <2>1 DEF Known, Check, At
      <4> QED
        BY <1>5, <4>1, <4>2 DEF Moves, Known, Waits
    <3> QED
      BY <3>1, <3>2
  <2>2. CASE Append(w)
    <3>1. w \in lines /\ w \notin lines
      BY <1>2, <1>5, <2>2 DEF Append, Known, At
    <3> QED
      BY <3>1
  <2>3. CASE Load(w)
    <3>1. w \in lines
      BY <1>2, <2>3 DEF Known, Load, At
    <3> QED
      BY <1>3, <1>5, <2>3, <3>1, AppendSteps DEF Moves, Known, Waits
  <2>4. CASE Answer(w) \/ Recount(w)
    <3>1. Recorded(w)'
      BY <1>1, <1>2, <2>4 DEF Known, Answer, Recount, At
    <3> QED
      BY <2>4, <3>1, AppendSteps DEF Moves, Known, Waits
  <2>5. CASE Crash(w)
    BY <2>5, AppendSteps DEF Moves, Known, Waits
  <2>6. CASE Fold(w) \/ Rewrite(w)
    <3>1. Recorded(w)'
      BY <1>1, <1>2, <1>3, <2>6 DEF Known, Fold, Rewrite, At
    <3> QED
      BY <1>4, <2>6, <3>1 DEF Fold, Rewrite
  <2>7. CASE AppendFails(w) \/ FoldFails(w)
    BY <1>4, <2>7 DEF AppendFails, FoldFails
  <2> QED
    BY <2>1, <2>2, <2>3, <2>4, <2>5, <2>6, <2>7 DEF AppendStep
<1>6. ASSUME Append(w)
      PROVE  Known(w)' /\ \A v \in Writers \ {w} : writer'[v] = writer[v]
  <2>1. w \in lines' /\ Recorded(w)'
    BY <1>3, <1>6 DEF Append
  <2>2. CASE Leave(w, "answer")
    BY <1>4, <2>1, <2>2
  <2>3. CASE Goto(w, "load")
    <3>1. Moves(w, {"load"}, writer[w].locked, writer[w].got)
      BY <2>3, Goes DEF WriterPcs
    <3> QED
      BY <2>1, <3>1 DEF Moves, Known, Waits
  <2> QED
    BY <1>6, <2>2, <2>3 DEF Append
<1>7. lines' = lines \/ (Append(w) /\ lines' = lines \cup {w})
  <2>1. ASSUME Append(w) PROVE lines' = lines \cup {w}
    BY <2>1 DEF Append
  <2>2. ASSUME Check(w) \/ Load(w) \/ Answer(w) \/ Recount(w) PROVE lines' = lines
    BY <2>2 DEF Check, Load, Answer, Recount, files
  <2>3. ASSUME Fold(w) \/ Rewrite(w) PROVE lines' = lines
    BY <2>3 DEF Fold, Rewrite, Built
  <2>4. ASSUME AppendFails(w) \/ FoldFails(w) \/ Crash(w) PROVE lines' = lines
    BY <2>4 DEF AppendFails, FoldFails, Crash, files
  <2> QED
    BY <2>1, <2>2, <2>3, <2>4 DEF AppendStep
<1>8. \A v \in Writers \ {w} : Known(v)'
  BY <1>5, <1>6, <1>7, OthersKnow
<1> QED
  BY <1>5, <1>6, <1>7, <1>8 DEF Placed

LEMMA KnownStep == TypeOK /\ Placed /\ [Next]_vars => Placed'
<1> SUFFICES ASSUME TypeOK, Placed, [Next]_vars PROVE Placed'
  OBVIOUS
<1>1. ASSUME writer' = writer, lines' = lines PROVE Placed'
  BY <1>1, OthersKnow DEF Placed
<1> QED
  BY <1>1, Cases, KnownLock, KnownAppend, SweepKeeps, AgesKeeps DEF files, vars

LEMMA KnownInit == Init => Placed
  BY DEF Init, Placed, Known, NewWriter, Waits

\* An event whose append came to its summary, to its answer or to its end is in the
\* log, whatever others wrote, whoever died in the middle of a line, and whoever had
\* the lock (EventsAreKept; appendOverlayEvent and appendPrivateLine).
THEOREM Kept == Spec => []EventsAreKept
<1>1. Placed => EventsAreKept
  BY DEF Placed, Known, EventsAreKept
<1> QED
  BY <1>1, TypeInit, TypeStep, KnownInit, KnownStep, PTL DEF Spec

-----------------------------------------------------------------------------
(* One line for each event                                                 *)

Ordered == (\A w \in Writers : Locks(w)) /\ OneLineEach

\* The file at the path has one maker.
LEMMA OneHolder ==
  ASSUME TypeOK, \A w \in Writers : Locks(w),
         NEW v \in Writers, NEW w \in Writers, v # w, writer[v].locked, writer[w].locked
  PROVE  v \in loose \/ w \in loose
  BY DEF TypeOK, Locks

LEMMA OrderedLock ==
  ASSUME TypeOK, Ordered, NEW w \in Writers, LockStep(w)
  PROVE  Ordered'
<1>1. lines' = lines /\ event' = event
  BY LockKeeps DEF files
<1>2. /\ \A v \in Writers : Locks(v)
      /\ \A v \in Writers : writer[v].locked \in BOOLEAN
  BY DEF Ordered, TypeOK, WriterStates
<1>3. /\ \A v \in Writers \ {w} : writer'[v] = writer[v]
      /\ writer'[w].pc # "append"
      /\ writer'[w].pc \in Free => ~ writer'[w].locked
      /\ writer'[w].locked => writer[w].locked \/ (Create(w) /\ lock = {})
  <2>1. CASE Call(w) \/ Stat(w) \/ Restat(w) \/ Remove(w)
    <3>1. ~ writer[w].locked
      BY <1>2, <2>1 DEF Locks, Free, Waits, Call, Stat, Restat, Remove, At
    <3> QED
      BY <2>1, <3>1, LockSteps DEF Moves
  <2>2. CASE Late(w)
    <3>1. ~ writer[w].locked /\ writer[w].pc # "append"
      BY <1>2, <2>2 DEF Locks, Free, Waits, Late
    <3> QED
      BY <2>2, <3>1, LockSteps DEF Moves
  <2>3. CASE Create(w)
    <3>1. ~ writer[w].locked
      BY <1>2, <2>3 DEF Locks, Free, Waits, Create, At
    <3>2. CASE lock = {}
      BY <2>3, <3>2, LockSteps DEF Moves, Free, Waits, Ended
    <3>3. CASE lock # {}
      BY <2>3, <3>1, <3>3, LockSteps DEF Moves
    <3> QED
      BY <3>2, <3>3
  <2>4. CASE Release(w)
    <3>1. writer[w].after \in {"done", "answer", "failed"}
      BY DEF TypeOK, WriterStates
    <3> QED
      BY <2>4, <3>1, LockSteps DEF Moves
  <2> QED
    BY <2>1, <2>2, <2>3, <2>4 DEF LockStep
<1>4. loose \subseteq loose'
  BY DEF LockStep, Call, Late, Create, Stat, Restat, Remove, Release, Unlink
<1>5. ASSUME NEW v \in Writers, writer'[v].locked, v \notin loose'
      PROVE  \E f \in lock' : f.by = v
  <2>1. CASE Create(w) /\ lock = {}
    <3>1. lock' = {[by |-> w, old |-> FALSE]}
      BY <2>1 DEF Create
    <3>2. v = w
      BY <1>2, <1>3, <1>4, <1>5, <2>1 DEF Locks
    <3> QED
      BY <3>1, <3>2
  <2>2. CASE ~ (Create(w) /\ lock = {})
    <3>1. writer[v].locked /\ \E f \in lock : f.by = v
      BY <1>2, <1>3, <1>4, <1>5, <2>2 DEF Locks
    <3>2. CASE lock' = lock
      BY <3>1, <3>2
    <3>3. CASE Unlink(w)
      <4>1. v = w
        BY <1>5, <3>1, <3>3 DEF Unlink
      <4>2. writer[w].pc \in {"remove", "release"} /\ ~ writer'[w].locked
        <5>1. CASE Remove(w)
          BY <1>2, <5>1, LockSteps DEF Remove, At, Locks, Free, Waits, Moves
        <5>2. CASE Release(w)
          BY <5>2, LockSteps DEF Release, At, Moves
        <5>3. CASE Call(w) \/ Late(w) \/ Create(w) \/ Stat(w) \/ Restat(w)
          <6>1. lock' = {}
            BY <3>3 DEF Unlink
          <6> QED
            BY <2>2, <3>1, <5>3, <6>1 DEF Call, Late, Create, Stat, Restat
        <5> QED
          BY <5>1, <5>2, <5>3 DEF LockStep
      <4> QED
        BY <1>5, <4>1, <4>2
    <3>4. lock' = lock \/ Unlink(w)
      BY <2>2 DEF LockStep, Call, Late, Create, Stat, Restat, Remove, Release
    <3> QED
      BY <3>2, <3>3, <3>4
  <2> QED
    BY <2>1, <2>2
<1>6. ASSUME NEW v \in Writers PROVE Locks(v)'
  <2>1. CASE v = w
    BY <1>3, <1>5, <2>1 DEF Locks
  <2>2. CASE v # w
    <3>1. writer'[v] = writer[v] /\ Locks(v)
      BY <1>2, <1>3, <2>2
    <3> QED
      BY <1>1, <1>4, <1>5, <3>1 DEF Locks
  <2> QED
    BY <2>1, <2>2
<1>7. OneLineEach'
  BY <1>1, <1>4 DEF Ordered, OneLineEach
<1> QED
  BY <1>6, <1>7 DEF Ordered

LEMMA OrderedAppend ==
  ASSUME TypeOK, Ordered, NEW w \in Writers, AppendStep(w)
  PROVE  Ordered'
<1>1. event' = event /\ lock' = lock
  BY AppendKeeps
<1>2. /\ \A v \in Writers : Locks(v)
      /\ \A v \in Writers : writer[v].locked \in BOOLEAN
  BY DEF Ordered, TypeOK, WriterStates
<1>3. /\ \A v \in Writers \ {w} : writer'[v] = writer[v]
      /\ writer'[w].pc = "append" => Check(w) /\ ~ Recorded(w)
      /\ writer'[w].pc \in Free => ~ writer'[w].locked
      /\ writer'[w].locked => writer[w].locked
  <2>1. ASSUME NEW outcome \in {"done", "answer", "failed"}, Leave(w, outcome)
        PROVE  /\ \A v \in Writers \ {w} : writer'[v] = writer[v]
               /\ writer'[w].pc # "append"
               /\ writer'[w].pc \in Free => ~ writer'[w].locked
               /\ writer'[w].locked => writer[w].locked
    BY <2>1, Leaves DEF Moves, Free, Waits, Ended
  <2>2. ASSUME NEW pc \in {"append", "load", "fold", "recount", "rewrite"}, NEW got,
               Moves(w, {pc}, writer[w].locked, got)
        PROVE  /\ \A v \in Writers \ {w} : writer'[v] = writer[v]
               /\ writer'[w].pc = pc
               /\ writer'[w].pc \notin Free
               /\ writer'[w].locked => writer[w].locked
    BY <2>2 DEF Moves, Free, Waits, Ended
  <2>3. CASE Check(w)
    <3>1. CASE Recorded(w)
      BY <2>1, <2>3, <3>1 DEF Check
    <3>2. CASE ~ Recorded(w)
      <4>1. Moves(w, {"append"}, writer[w].locked, writer[w].got)
        BY <2>3, <3>2, Goes DEF Check, WriterPcs
      <4> QED
        BY <2>2, <2>3, <3>2, <4>1
    <3> QED
      BY <3>1, <3>2
  <2>4. CASE Append(w)
    <3>1. CASE Leave(w, "answer")
      BY <2>1, <3>1
    <3>2. CASE Goto(w, "load")
      <4>1. Moves(w, {"load"}, writer[w].locked, writer[w].got)
        BY <3>2, Goes DEF WriterPcs
      <4> QED
        BY <2>2, <4>1
    <3> QED
      BY <2>4, <3>1, <3>2 DEF Append
  <2>5. CASE Load(w)
    BY <2>2, <2>5, AppendSteps
  <2>6. CASE Recount(w)
    BY <2>2, <2>6, AppendSteps
  <2>7. CASE Answer(w)
    <3>1. ~ writer[w].locked
      BY <1>2, <2>7 DEF Locks, Free, Answer, At
    <3> QED
      BY <2>7, <3>1, AppendSteps DEF Moves
  <2>8. CASE Crash(w)
    BY <2>8, AppendSteps DEF Moves
  <2>9. CASE Fold(w) \/ Rewrite(w) \/ AppendFails(w) \/ FoldFails(w)
    BY <2>1, <2>9 DEF Fold, Rewrite, AppendFails, FoldFails
  <2> QED
    BY <2>3, <2>4, <2>5, <2>6, <2>7, <2>8, <2>9 DEF AppendStep
<1>4. loose \subseteq loose'
  BY DEF AppendStep, Check, Append, Load, Fold, Answer, Recount, Rewrite, AppendFails,
     FoldFails, Crash
<1>5. \/ lines' = lines
      \/ /\ At(w, "append") /\ lines' = lines \cup {w}
         /\ ~ writer[w].locked => w \in loose'
  <2>1. ASSUME Append(w)
        PROVE  /\ At(w, "append") /\ lines' = lines \cup {w}
               /\ ~ writer[w].locked => w \in loose'
    BY <2>1 DEF Append
  <2>2. ASSUME Check(w) \/ Load(w) \/ Answer(w) \/ Recount(w) PROVE lines' = lines
    BY <2>2 DEF Check, Load, Answer, Recount, files
  <2>3. ASSUME Fold(w) \/ Rewrite(w) PROVE lines' = lines
    BY <2>3 DEF Fold, Rewrite, Built
  <2>4. ASSUME AppendFails(w) \/ FoldFails(w) \/ Crash(w) PROVE lines' = lines
    BY <2>4 DEF AppendFails, FoldFails, Crash, files
  <2> QED
    BY <2>1, <2>2, <2>3, <2>4 DEF AppendStep
<1>6. ASSUME NEW v \in Writers PROVE Locks(v)'
  <2>1. writer'[v].pc \in Free => ~ writer'[v].locked
    BY <1>2, <1>3 DEF Locks
  <2>2. ASSUME writer'[v].locked, v \notin loose' PROVE \E f \in lock' : f.by = v
    BY <1>1, <1>2, <1>3, <1>4, <2>2 DEF Locks
  <2>3. ASSUME writer'[v].pc = "append", writer'[v].locked, v \notin loose',
               NEW u \in lines', event'[u] = event'[v]
        PROVE  u \in loose'
    <3>1. CASE v = w
      <4>1. Check(w) /\ ~ Recorded(w)
        BY <1>3, <2>3, <3>1
      <4>2. lines' = lines
        BY <4>1 DEF Check, files
      <4> QED
        BY <1>1, <2>3, <3>1, <4>1, <4>2 DEF Recorded
    <3>2. CASE v # w
      <4>1. writer'[v] = writer[v]
        BY <1>3, <3>2
      <4>2. CASE u \in lines
        BY <1>1, <1>2, <1>4, <2>3, <4>1, <4>2 DEF Locks
      <4>3. CASE u \notin lines
        <5>1. u = w /\ (~ writer[w].locked => w \in loose')
          BY <1>5, <2>3, <4>3
        <5>2. writer[w].locked => w \in loose \/ v \in loose
          BY <1>2, <2>3, <3>2, <4>1, OneHolder
        <5> QED
          BY <1>4, <2>3, <5>1, <5>2
      <4> QED
        BY <4>2, <4>3
    <3> QED
      BY <3>1, <3>2
  <2> QED
    BY <2>1, <2>2, <2>3 DEF Locks
<1>7. OneLineEach'
  <2>1. CASE lines' = lines
    BY <1>1, <1>4, <2>1 DEF Ordered, OneLineEach
  <2>2. CASE /\ At(w, "append") /\ lines' = lines \cup {w}
             /\ ~ writer[w].locked => w \in loose'
    <3>1. ASSUME NEW v \in lines, event[v] = event[w] PROVE {v, w} \cap loose' # {}
      <4>1. CASE ~ writer[w].locked
        BY <2>2, <4>1
      <4>2. CASE writer[w].locked
        <5>1. w \notin loose => v \in loose
          BY <1>2, <2>2, <3>1, <4>2 DEF Locks, At
        <5> QED
          BY <1>4, <5>1
      <4> QED
        BY <4>1, <4>2
    <3>2. \A u, v \in lines : u # v /\ event[u] = event[v] => {u, v} \cap loose # {}
      BY DEF Ordered, OneLineEach
    <3>3. ASSUME NEW u \in lines', NEW v \in lines', u # v, event'[u] = event'[v]
          PROVE  {u, v} \cap loose' # {}
      <4>1. CASE u \in lines /\ v \in lines
        BY <1>1, <1>4, <3>2, <3>3, <4>1
      <4>2. CASE u = w /\ v \in lines
        BY <1>1, <3>1, <3>3, <4>2
      <4>3. CASE v = w /\ u \in lines
        BY <1>1, <3>1, <3>3, <4>3
      <4> QED
        BY <2>2, <3>3, <4>1, <4>2, <4>3
    <3> QED
      BY <3>3 DEF OneLineEach
  <2> QED
    BY <1>5, <2>1, <2>2
<1> QED
  BY <1>6, <1>7 DEF Ordered

LEMMA OrderedStep == TypeOK /\ Ordered /\ [Next]_vars => Ordered'
<1> SUFFICES ASSUME TypeOK, Ordered, [Next]_vars PROVE Ordered'
  OBVIOUS
<1>1. ASSUME UNCHANGED <<event, lines, writer, loose>>,
             \A v \in Writers : (\E f \in lock : f.by = v) => \E f \in lock' : f.by = v
      PROVE  Ordered'
  BY <1>1 DEF Ordered, Locks, OneLineEach
<1>2. CASE Ages
  <2>1. lock' = {[f EXCEPT !.old = TRUE] : f \in lock}
    BY <1>2 DEF Ages
  <2>2. ASSUME NEW f \in lock PROVE [f EXCEPT !.old = TRUE].by = f.by
    BY DEF TypeOK
  <2>3. \A v \in Writers : (\E f \in lock : f.by = v) => \E f \in lock' : f.by = v
    BY <2>1, <2>2
  <2> QED
    BY <1>1, <1>2, <2>3, AgesKeeps DEF files
<1>3. CASE \E g \in Sweepers : SweepStep(g)
  BY <1>1, <1>3, SweepKeeps
<1>4. CASE UNCHANGED vars
  BY <1>1, <1>4 DEF vars, files
<1> QED
  BY <1>2, <1>3, <1>4, Cases, OrderedLock, OrderedAppend

LEMMA OrderedInit == Init => Ordered
  BY DEF Init, Ordered, Locks, OneLineEach, NewWriter

\* Of an event that two processes write there is one line, unless one of them wrote
\* without the lock or lost it to another on the way (OneLineEach; withFileLock and
\* the check for a replay in appendOverlayEvent).
THEOREM OneLine == Spec => []OneLineEach
<1>1. Ordered => OneLineEach
  BY DEF Ordered
<1> QED
  BY <1>1, TypeInit, TypeStep, OrderedInit, OrderedStep, PTL DEF Spec

-----------------------------------------------------------------------------
(* No line is counted twice                                                *)

LEMMA RoomGrows ==
  ASSUME lines \subseteq Writers, lines' \subseteq Writers,
         lines \ Loading \subseteq lines' \ Loading'
  PROVE  Cardinality(lines \ Loading) <= Cardinality(lines' \ Loading')
<1>1. IsFiniteSet(lines' \ Loading')
  BY WritersAssumption, FS_Subset
<1> QED
  BY <1>1, FS_Subset

\* What is read of the log stays in it.
LEMMA BuildsStep == TypeOK /\ Builds /\ [Next]_vars => Builds'
<1> SUFFICES ASSUME TypeOK, Builds, [Next]_vars PROVE Builds'
  OBVIOUS
<1>1. lines \subseteq lines'
  BY LinesGrow
<1>2. CASE UNCHANGED <<writer, sweeper>>
  BY <1>1, <1>2 DEF Builds
<1>3. ASSUME NEW w \in Writers, LockStep(w) PROVE Builds'
  <2>1. /\ \A v \in Writers \ {w} : writer'[v] = writer[v]
        /\ writer'[w].got \in {writer[w].got, {}}
    BY <1>3, LockSteps DEF LockStep, Moves
  <2> QED
    BY <1>1, <1>3, <2>1, LockKeeps DEF Builds
<1>4. ASSUME NEW w \in Writers, AppendStep(w) PROVE Builds'
  <2>1. /\ \A v \in Writers \ {w} : writer'[v] = writer[v]
        /\ writer'[w].got \in {writer[w].got, {}, lines}
    <3>1. ASSUME NEW outcome \in {"done", "answer", "failed"}, Leave(w, outcome)
          PROVE  (\A v \in Writers \ {w} : writer'[v] = writer[v]) /\ writer'[w].got = {}
      BY <3>1, Leaves DEF Moves
    <3>2. ASSUME NEW pc \in {"append", "load"}, Goto(w, pc)
          PROVE  /\ \A v \in Writers \ {w} : writer'[v] = writer[v]
                 /\ writer'[w].got = writer[w].got
      BY <3>2, Goes DEF Moves, WriterPcs
    <3>3. CASE Check(w)
      BY <3>1, <3>2, <3>3 DEF Check
    <3>4. CASE Append(w)
      BY <3>1, <3>2, <3>4 DEF Append
    <3>5. CASE Load(w) \/ Answer(w) \/ Recount(w) \/ Crash(w)
      BY <3>5, AppendSteps DEF Moves
    <3>6. CASE Fold(w) \/ Rewrite(w) \/ AppendFails(w) \/ FoldFails(w)
      BY <3>1, <3>6 DEF Fold, Rewrite, AppendFails, FoldFails
    <3> QED
      BY <1>4, <3>3, <3>4, <3>5, <3>6 DEF AppendStep
  <2> QED
    BY <1>1, <1>4, <2>1, AppendKeeps DEF Builds
<1>5. ASSUME NEW g \in Sweepers, SweepStep(g) PROVE Builds'
  <2>1. \A h \in Sweepers : sweeper'[h].got \in {sweeper[h].got, {}, lines}
    BY <1>5 DEF TypeOK, SweepStep, Reconcile, Count, Compare, SweepRecount, SweepRewrite,
                SweeperStops, Sweep, Resting
  <2> QED
    BY <1>1, <1>5, <2>1, SweepKeeps DEF Builds
<1> QED
  BY <1>2, <1>3, <1>4, <1>5, Cases, AgesKeeps DEF vars

\* A line is not there when its writer begins to load.
LEMMA LoadingStep ==
  ASSUME TypeOK, Placed, [Next]_vars
  PROVE  lines \ Loading \subseteq lines' \ Loading'
<1>1. lines \subseteq lines'
  BY LinesGrow
<1>2. ASSUME NEW v \in Writers, v \in lines, writer'[v].pc = "load"
      PROVE  writer[v].pc = "load"
  <2>1. ASSUME NEW w \in Writers, LockStep(w) PROVE writer[v].pc = "load"
    <3>1. /\ \A u \in Writers \ {w} : writer'[u] = writer[u]
          /\ writer'[w].pc # "load" \/ writer'[w].pc = writer[w].pc
      <4>1. writer[w].after \in {"done", "answer", "failed"}
        BY DEF TypeOK, WriterStates
      <4> QED
        BY <2>1, <4>1, LockSteps DEF LockStep, Moves
    <3> QED
      BY <1>2, <3>1
  <2>2. ASSUME NEW w \in Writers, AppendStep(w) PROVE writer[v].pc = "load"
    <3>1. ASSUME NEW outcome \in {"done", "answer", "failed"}, Leave(w, outcome)
          PROVE  (\A u \in Writers \ {w} : writer'[u] = writer[u]) /\ writer'[w].pc # "load"
      BY <3>1, Leaves DEF Moves
    <3>2. CASE Check(w)
      <4>1. Goto(w, "append") => Moves(w, {"append"}, writer[w].locked, writer[w].got)
        BY Goes DEF WriterPcs
      <4> QED
        BY <1>2, <3>1, <3>2, <4>1 DEF Check, Moves
    <3>3. CASE Append(w)
      <4>1. Goto(w, "load") => Moves(w, {"load"}, writer[w].locked, writer[w].got)
        BY Goes DEF WriterPcs
      <4>2. w \notin lines
        BY <3>3 DEF Placed, Known, Append, At
      <4> QED
        BY <1>2, <3>1, <3>3, <4>1, <4>2 DEF Append, Moves
    <3>4. CASE Load(w) \/ Answer(w) \/ Recount(w) \/ Crash(w)
      BY <1>2, <3>4, AppendSteps DEF Moves
    <3>5. CASE Fold(w) \/ Rewrite(w) \/ AppendFails(w) \/ FoldFails(w)
      BY <1>2, <3>1, <3>5 DEF Fold, Rewrite, AppendFails, FoldFails
    <3> QED
      BY <2>2, <3>2, <3>3, <3>4, <3>5 DEF AppendStep
  <2>3. CASE UNCHANGED writer
    BY <1>2, <2>3
  <2> QED
    BY <2>1, <2>2, <2>3, Cases, SweepKeeps, AgesKeeps DEF vars
<1>3. lines \subseteq Writers
  BY DEF TypeOK
<1> QED
  BY <1>1, <1>2, <1>3 DEF Loading

\* Who folds has read the summary, or had.
LEMMA FoldersStep ==
  ASSUME TypeOK, [Next]_vars, NEW v \in Writers, writer'[v].pc = "fold"
  PROVE  \/ writer[v].pc = "fold" /\ writer'[v] = writer[v]
         \/ Load(v) /\ writer'[v].prior = summary.n
<1>1. ASSUME NEW w \in Writers, LockStep(w)
      PROVE  writer[v].pc = "fold" /\ writer'[v] = writer[v]
  <2>1. (\A u \in Writers \ {w} : writer'[u] = writer[u]) /\ writer'[w].pc # "fold"
    <3>1. writer[w].after \in {"done", "answer", "failed"}
      BY DEF TypeOK, WriterStates
    <3>2. Late(w) => writer[w].pc # "fold"
      BY DEF Late
    <3> QED
      BY <1>1, <3>1, <3>2, LockSteps DEF LockStep, Moves
  <2> QED
    BY <2>1
<1>2. ASSUME NEW w \in Writers, AppendStep(w)
      PROVE  \/ writer[v].pc = "fold" /\ writer'[v] = writer[v]
             \/ Load(v) /\ writer'[v].prior = summary.n
  <2>1. ASSUME NEW outcome \in {"done", "answer", "failed"}, Leave(w, outcome)
        PROVE  (\A u \in Writers \ {w} : writer'[u] = writer[u]) /\ writer'[w].pc # "fold"
    BY <2>1, Leaves DEF Moves
  <2>2. CASE Check(w)
    <3>1. Goto(w, "append") => Moves(w, {"append"}, writer[w].locked, writer[w].got)
      BY Goes DEF WriterPcs
    <3> QED
      BY <2>1, <2>2, <3>1 DEF Check, Moves
  <2>3. CASE Append(w)
    <3>1. Goto(w, "load") => Moves(w, {"load"}, writer[w].locked, writer[w].got)
      BY Goes DEF WriterPcs
    <3> QED
      BY <2>1, <2>3, <3>1 DEF Append, Moves
  <2>4. CASE Load(w)
    BY <2>4, AppendSteps DEF Moves
  <2>5. CASE Answer(w) \/ Recount(w) \/ Crash(w)
    BY <2>5, AppendSteps DEF Moves
  <2>6. CASE Fold(w) \/ Rewrite(w) \/ AppendFails(w) \/ FoldFails(w)
    BY <2>1, <2>6 DEF Fold, Rewrite, AppendFails, FoldFails
  <2> QED
    BY <1>2, <2>2, <2>3, <2>4, <2>5, <2>6 DEF AppendStep
<1>3. CASE UNCHANGED writer
  BY <1>3
<1> QED
  BY <1>1, <1>2, <1>3, Cases, SweepKeeps, AgesKeeps DEF vars

\* What a rebuild counts is not about to load, or it is crossed from then on.
LEMMA BuiltRoom ==
  ASSUME TypeOK, NEW got \in SUBSET lines, Built(got), crossed' \subseteq Writers
  PROVE  summary'.n <= Cardinality(lines \ Loading) + Cardinality(crossed')
<1>1. got \subseteq (lines \ Loading) \cup crossed'
  BY DEF Built, At, Loading, TypeOK
<1>2. IsFiniteSet(lines \ Loading) /\ IsFiniteSet(crossed')
  BY WritersAssumption, FS_Subset DEF TypeOK
<1>3. IsFiniteSet((lines \ Loading) \cup crossed')
  BY <1>2, FS_Union
<1>4. Cardinality(got) <= Cardinality((lines \ Loading) \cup crossed') /\ IsFiniteSet(got)
  BY <1>1, <1>3, FS_Subset
<1>5. Cardinality((lines \ Loading) \cup crossed')
        = Cardinality(lines \ Loading) + Cardinality(crossed')
            - Cardinality((lines \ Loading) \cap crossed')
  BY <1>2, FS_Union
<1>6. IsFiniteSet((lines \ Loading) \cap crossed')
  BY <1>2, FS_Intersection
<1>7. /\ Cardinality(lines \ Loading) \in Nat /\ Cardinality(crossed') \in Nat
      /\ Cardinality((lines \ Loading) \cap crossed') \in Nat /\ Cardinality(got) \in Nat
  BY <1>2, <1>4, <1>6, FS_CardinalityType
<1>8. Cardinality(got) <= Cardinality(lines \ Loading) + Cardinality(crossed')
  BY <1>4, <1>5, <1>7
<1> QED
  BY <1>8 DEF Built

\* Who was crossed stays so.
LEMMA CrossedGrow ==
  ASSUME [Next]_vars
  PROVE  crossed \subseteq crossed'
<1>1. ASSUME NEW w \in Writers, AppendStep(w) PROVE crossed \subseteq crossed'
  BY <1>1 DEF AppendStep, Check, Append, Load, Fold, Answer, Recount, Rewrite,
     AppendFails, FoldFails, Crash, Built
<1>2. ASSUME NEW g \in Sweepers, SweepStep(g) PROVE crossed \subseteq crossed'
  BY <1>2 DEF SweepStep, Reconcile, Count, Compare, SweepRecount, SweepRewrite,
     SweeperStops, Built
<1>3. ASSUME NEW w \in Writers, LockStep(w) PROVE crossed \subseteq crossed'
  BY <1>3, LockKeeps
<1> QED
  BY <1>1, <1>2, <1>3, Cases, AgesKeeps DEF vars

\* The steps that write the summary.
LEMMA SummarySteps ==
  ASSUME [Next]_vars
  PROVE  \/ UNCHANGED summary
         \/ \E w \in Writers : Fold(w) \/ Rewrite(w)
         \/ \E g \in Sweepers : SweepRewrite(g)
<1>1. ASSUME NEW w \in Writers, AppendStep(w), ~ Fold(w), ~ Rewrite(w)
      PROVE  UNCHANGED summary
  BY <1>1 DEF AppendStep, Check, Append, Load, Answer, Recount, AppendFails, FoldFails,
              Crash, files
<1>2. ASSUME NEW g \in Sweepers, SweepStep(g), ~ SweepRewrite(g) PROVE UNCHANGED summary
  BY <1>2 DEF SweepStep, Reconcile, Count, Compare, SweepRecount, SweeperStops, files
<1>3. ASSUME NEW w \in Writers, LockStep(w) PROVE UNCHANGED summary
  BY <1>3, LockKeeps DEF files
<1> QED
  BY <1>1, <1>2, <1>3, Cases, AgesKeeps DEF files, vars

LEMMA CountedStep == TypeOK /\ Placed /\ Builds /\ Counted /\ [Next]_vars => Counted'
<1> SUFFICES ASSUME TypeOK, Placed, Builds, Counted, [Next]_vars
             PROVE  /\ Room(summary.n)'
                    /\ \A v \in Writers : writer'[v].pc = "fold" => Room(writer[v].prior + 1)'
  BY DEF Counted
<1> DEFINE free == Cardinality(lines \ Loading)
           freed == Cardinality(lines' \ Loading')
<1>1. TypeOK'
  BY TypeStep
<1>2. free <= freed
  BY <1>1, LoadingStep, RoomGrows DEF TypeOK
<1>3. /\ free \in Nat /\ freed \in Nat
      /\ Cardinality(crossed) \in Nat /\ Cardinality(crossed') \in Nat
  BY <1>1, WritersAssumption, FS_Subset, FS_CardinalityType DEF TypeOK
<1>4. Cardinality(crossed) <= Cardinality(crossed')
  <2>1. crossed \subseteq crossed'
    BY CrossedGrow
  <2> QED
    BY <1>1, <2>1, WritersAssumption, FS_Subset DEF TypeOK
<1>5. \A n \in Nat : n <= free + Cardinality(crossed') => n <= freed + Cardinality(crossed')
  BY <1>2, <1>3
<1>6. \A n \in Nat : Room(n) => n <= free + Cardinality(crossed')
  BY <1>3, <1>4 DEF Room
<1>7. /\ Room(summary.n)
      /\ \A v \in Writers : writer[v].pc = "fold" => Room(writer[v].prior + 1)
  BY DEF Counted
<1>8. summary'.n <= free + Cardinality(crossed')
  <2>1. CASE UNCHANGED summary
    BY <1>6, <1>7, <2>1 DEF TypeOK
  <2>2. ASSUME NEW w \in Writers, Fold(w) PROVE summary'.n <= free + Cardinality(crossed')
    <3>1. Room(writer[w].prior + 1) /\ writer[w].prior + 1 \in Nat
      BY <1>7, <2>2 DEF Fold, At, TypeOK, WriterStates
    <3>2. summary'.n = writer[w].prior + 1
      BY <2>2 DEF Fold
    <3> QED
      BY <1>6, <3>1, <3>2
  <2>3. ASSUME NEW w \in Writers, Rewrite(w) PROVE summary'.n <= free + Cardinality(crossed')
    <3>1. writer[w].got \in SUBSET lines /\ Built(writer[w].got) /\ crossed' \subseteq Writers
      BY <1>1, <2>3 DEF Rewrite, Builds, TypeOK
    <3> QED
      BY <3>1, BuiltRoom
  <2>4. ASSUME NEW g \in Sweepers, SweepRewrite(g)
        PROVE  summary'.n <= free + Cardinality(crossed')
    <3>1. sweeper[g].got \in SUBSET lines /\ Built(sweeper[g].got) /\ crossed' \subseteq Writers
      BY <1>1, <2>4 DEF SweepRewrite, Builds, TypeOK
    <3> QED
      BY <3>1, BuiltRoom
  <2> QED
    BY <2>1, <2>2, <2>3, <2>4, SummarySteps
<1>9. Room(summary.n)'
  <2>1. summary'.n \in Nat
    BY <1>1 DEF TypeOK
  <2> QED
    BY <1>5, <1>8, <2>1 DEF Room
<1>10. ASSUME NEW v \in Writers, writer'[v].pc = "fold" PROVE Room(writer[v].prior + 1)'
  <2>1. writer'[v].prior + 1 \in Nat
    BY <1>1 DEF TypeOK, WriterStates
  <2>2. CASE writer[v].pc = "fold" /\ writer'[v] = writer[v]
    <3>1. Room(writer'[v].prior + 1)
      BY <1>7, <2>2
    <3>2. writer'[v].prior + 1 <= free + Cardinality(crossed')
      BY <1>6, <2>1, <3>1
    <3> QED
      BY <1>5, <2>1, <3>2 DEF Room
  <2>3. CASE Load(v) /\ writer'[v].prior = summary.n
    <3>1. v \in lines /\ v \in Loading /\ crossed' = crossed
      BY <2>3 DEF Load, At, Placed, Known, Loading
    <3>2. v \in lines' \ Loading'
      BY <1>10, <3>1, LinesGrow DEF Loading
    <3>3. (lines \ Loading) \cup {v} \subseteq lines' \ Loading'
      BY <3>2, LoadingStep
    <3>4. IsFiniteSet(lines' \ Loading') /\ IsFiniteSet(lines \ Loading)
      BY <1>1, WritersAssumption, FS_Subset DEF TypeOK
    <3>5. Cardinality((lines \ Loading) \cup {v}) = free + 1
      BY <3>1, <3>4, FS_AddElement
    <3>6. Cardinality((lines \ Loading) \cup {v}) <= freed
      BY <3>3, <3>4, FS_Subset
    <3>7. summary.n \in Nat /\ summary.n <= free + Cardinality(crossed')
      BY <1>7, <3>1 DEF Room, TypeOK
    <3>8. summary.n + 1 <= freed + Cardinality(crossed')
      BY <1>3, <3>5, <3>6, <3>7
    <3> QED
      BY <2>3, <3>8 DEF Room
  <2> QED
    BY <1>10, <2>2, <2>3, FoldersStep
<1> QED
  BY <1>9, <1>10

LEMMA CountedInit == Init => Builds /\ Counted
<1> SUFFICES ASSUME Init PROVE Builds /\ Counted
  OBVIOUS
<1>1. summary.n = 0 /\ lines = {} /\ crossed = {}
  BY DEF Init
<1>2. /\ \A w \in Writers : writer[w].got = {} /\ writer[w].pc = "idle"
      /\ \A g \in Sweepers : sweeper[g].got = {}
  BY DEF Init, NewWriter, Resting
<1>3. Cardinality(lines \ Loading) = 0 /\ Cardinality(crossed) = 0
  BY <1>1, FS_EmptySet
<1> QED
  BY <1>1, <1>2, <1>3 DEF Builds, Counted, Room

\* No rebuild, replay, theft of the lock or crash makes the summary count more than
\* the log holds, but for one more with each writer whose line a rebuild counted
\* before that writer read the summary (NoneCountedTwice; appendOverlayEvent,
\* rebuildOverlaySummaryFromEvents and reconcileOverlaySummaries).
THEOREM CountedOnce == Spec => []NoneCountedTwice
<1>1. TypeOK /\ Counted => NoneCountedTwice
  <2> SUFFICES ASSUME TypeOK, Counted
               PROVE  summary.n <= Cardinality(lines) + Cardinality(crossed)
    BY DEF NoneCountedTwice
  <2>1. IsFiniteSet(lines) /\ IsFiniteSet(crossed)
    BY WritersAssumption, FS_Subset DEF TypeOK
  <2>2. Cardinality(lines \ Loading) <= Cardinality(lines)
    BY <2>1, FS_Subset
  <2>3. /\ Cardinality(lines \ Loading) \in Nat /\ Cardinality(lines) \in Nat
        /\ Cardinality(crossed) \in Nat
    BY <2>1, FS_Subset, FS_CardinalityType
  <2>4. summary.n \in Nat /\ summary.n <= Cardinality(lines \ Loading) + Cardinality(crossed)
    BY DEF Counted, Room, TypeOK
  <2> QED
    BY <2>2, <2>3, <2>4
<1> QED
  BY <1>1, TypeInit, TypeStep, KnownInit, KnownStep, CountedInit, BuildsStep, CountedStep,
     PTL DEF Spec
===============================================================================
