------------------------ MODULE CoreRegistry_proofs ------------------------
(***************************************************************************)
(* The registry, for any number of processes, steps and sessions: its      *)
(* types, what every plan on disk satisfies whatever becomes of the lock,  *)
(* and what the lock gives as long as nobody is robbed of it.              *)
(*                                                                         *)
(* The argument: a process that creates the lock stays its owner until it  *)
(* releases it or dies, unless another removes the file, which is what     *)
(* robbed records.  So nobody else is inside, and what the owner computed  *)
(* from a file is still about that file when it writes it.                 *)
(* That makes each write of the plans one operation, keeps ended sessions  *)
(* ended and makes one rule of an attempt.                                 *)
(***************************************************************************)
EXTENDS CoreRegistry, TLAPS

Founded(pl) ==
  pl # NoPlan =>
    \A s \in Steps : pl.status[s] = "running" => AllCompleted(pl.deps[s], pl.status)

\* What the three operations make of a plan.
Successor(pl, next) ==
  \/ pl = NoPlan /\ \E d \in Graphs : next = [deps |-> d, status |-> Untouched]
  \/ /\ pl # NoPlan
     /\ \E step \in Steps, outcome \in StepStatuses :
          /\ CanRecord(pl.deps, pl.status, step, outcome)
          /\ next = [deps |-> pl.deps, status |-> Recorded(pl.status, step, outcome)]
  \/ /\ pl # NoPlan
     /\ \E step \in Steps :
          /\ pl.status[step] = "failed"
          /\ next = [deps |-> pl.deps, status |-> Retried(pl.deps, pl.status, step)]

Owned(p) ==
  /\ pc[p] \in Inside => lock = [by |-> p, pid |-> TRUE]
  /\ pc[p] = "fill" => lock = Mine(p)

Clean ==
  \A p \in Processes :
    /\ Owned(p)
    /\ todo[p].file = "plan" => Successor(plan, todo[p].value)

\* Whatever the lock is worth.
AllFounded ==
  /\ Founded(plan)
  /\ \A p \in Processes : todo[p].file = "plan" => Founded(todo[p].value)

IInv == TypeOK /\ AllFounded /\ (~robbed => Clean)

-----------------------------------------------------------------------------
(* Plans                                                                   *)

LEMMA NoPlanIsNone == NoPlan \notin Plans
<1> SUFFICES ASSUME NoPlan \in Plans PROVE FALSE
  OBVIOUS
<1>1. "status" \in DOMAIN NoPlan
  BY DEF Plans
<1> QED
  BY <1>1 DEF NoPlan

LEMMA GraphsTyped == Graphs \subseteq DependencyGraphs
  BY GraphsAssumption

LEMMA RecordedTyped ==
  ASSUME NEW status \in [Steps -> StepStatuses], NEW step \in Steps, NEW outcome \in StepStatuses
  PROVE  Recorded(status, step, outcome) \in [Steps -> StepStatuses]
  BY DEF Recorded

LEMMA RetriedTyped ==
  ASSUME NEW status \in [Steps -> StepStatuses], NEW deps, NEW step
  PROVE  Retried(deps, status, step) \in [Steps -> StepStatuses]
  BY DEF Retried, StepStatuses

LEMMA UntouchedTyped == Untouched \in [Steps -> StepStatuses]
  BY DEF Untouched, StepStatuses

\* A recorded outcome founds what it starts and takes nothing away.
LEMMA RecordedFounded ==
  ASSUME NEW deps \in DependencyGraphs, NEW status \in [Steps -> StepStatuses],
         NEW step \in Steps, NEW outcome \in StepStatuses,
         \A s \in Steps : status[s] = "running" => AllCompleted(deps[s], status),
         CanRecord(deps, status, step, outcome)
  PROVE  \A s \in Steps :
           Recorded(status, step, outcome)[s] = "running" =>
             AllCompleted(deps[s], Recorded(status, step, outcome))
<1> DEFINE after == Recorded(status, step, outcome)
<1>1. after \in [Steps -> StepStatuses] /\ after[step] = outcome
      /\ \A s \in Steps : s # step => after[s] = status[s]
  BY DEF Recorded
<1>2. CASE status[step] = outcome
  <2>1. after = status
    BY <1>1, <1>2
  <2> QED
    BY <2>1
<1>3. CASE /\ <<status[step], outcome>> \in LegalMoves
           /\ outcome = "running" => AllCompleted(deps[step], status)
  <2>1. status[step] \in {"pending", "running"}
    BY <1>3 DEF LegalMoves
  <2> SUFFICES ASSUME NEW s \in Steps, after[s] = "running", NEW d \in deps[s]
               PROVE  after[d] = "completed"
    BY DEF AllCompleted
  <2>2. deps[s] \subseteq Steps /\ s \notin deps[s]
    BY DEF DependencyGraphs
  <2>3. status[d] = "completed"
    BY <1>1, <1>3, <2>2 DEF AllCompleted
  <2> QED
    BY <1>1, <2>1, <2>2, <2>3
<1> QED
  BY <1>2, <1>3 DEF CanRecord

\* The steps a retry takes back are all that depend on one of them.
LEMMA ToResetFeeds ==
  ASSUME NEW deps \in DependencyGraphs, NEW step \in Steps, NEW s \in Steps,
         NEW d \in deps[s], d \in ToReset(deps, step)
  PROVE  s \in ToReset(deps, step)
  BY DEF ToReset, Feeds

\* So no running step is left with a dependency that was taken back.
LEMMA RetriedFounded ==
  ASSUME NEW deps \in DependencyGraphs, NEW status \in [Steps -> StepStatuses],
         NEW step \in Steps,
         \A s \in Steps : status[s] = "running" => AllCompleted(deps[s], status)
  PROVE  \A s \in Steps :
           Retried(deps, status, step)[s] = "running" =>
             AllCompleted(deps[s], Retried(deps, status, step))
<1> DEFINE after == Retried(deps, status, step)
<1>1. \A s \in Steps : after[s] = IF s \in ToReset(deps, step) THEN "pending" ELSE status[s]
  BY DEF Retried
<1> SUFFICES ASSUME NEW s \in Steps, after[s] = "running", NEW d \in deps[s]
             PROVE  after[d] = "completed"
  BY DEF AllCompleted
<1>2. s \notin ToReset(deps, step) /\ status[s] = "running"
  BY <1>1
<1>3. d \in Steps /\ d \notin ToReset(deps, step)
  BY <1>2, ToResetFeeds DEF DependencyGraphs
<1> QED
  BY <1>1, <1>2, <1>3 DEF AllCompleted

LEMMA SuccessorTyped ==
  ASSUME NEW pl \in Plans \cup {NoPlan}, NEW next, Successor(pl, next)
  PROVE  next \in Plans
<1>1. CASE pl = NoPlan
  BY <1>1, GraphsTyped, UntouchedTyped DEF Successor, Plans
<1>2. CASE pl # NoPlan
  <2>1. pl \in Plans /\ pl.deps \in DependencyGraphs /\ pl.status \in [Steps -> StepStatuses]
    BY <1>2 DEF Plans
  <2> QED
    BY <1>2, <2>1, RecordedTyped, RetriedTyped DEF Successor, Plans
<1> QED
  BY <1>1, <1>2

LEMMA SuccessorFounded ==
  ASSUME NEW pl \in Plans \cup {NoPlan}, NEW next, Founded(pl), Successor(pl, next)
  PROVE  Founded(next)
<1>1. CASE pl = NoPlan
  <2>1. PICK d \in Graphs : next = [deps |-> d, status |-> Untouched]
    BY <1>1 DEF Successor
  <2>2. \A s \in Steps : next.status[s] = "pending"
    BY <2>1 DEF Untouched
  <2> QED
    BY <2>2 DEF Founded
<1>2. CASE pl # NoPlan
  <2>1. /\ pl.deps \in DependencyGraphs /\ pl.status \in [Steps -> StepStatuses]
        /\ \A s \in Steps : pl.status[s] = "running" => AllCompleted(pl.deps[s], pl.status)
    BY <1>2 DEF Plans, Founded
  <2>2. ASSUME NEW step \in Steps, NEW outcome \in StepStatuses,
               CanRecord(pl.deps, pl.status, step, outcome),
               next = [deps |-> pl.deps, status |-> Recorded(pl.status, step, outcome)]
        PROVE  Founded(next)
    <3>1. \A s \in Steps :
            Recorded(pl.status, step, outcome)[s] = "running" =>
              AllCompleted(pl.deps[s], Recorded(pl.status, step, outcome))
      BY <2>1, <2>2, RecordedFounded
    <3> QED
      BY <2>2, <3>1 DEF Founded
  <2>3. ASSUME NEW step \in Steps,
               next = [deps |-> pl.deps, status |-> Retried(pl.deps, pl.status, step)]
        PROVE  Founded(next)
    <3>1. \A s \in Steps :
            Retried(pl.deps, pl.status, step)[s] = "running" =>
              AllCompleted(pl.deps[s], Retried(pl.deps, pl.status, step))
      BY <2>1, RetriedFounded
    <3> QED
      BY <2>3, <3>1 DEF Founded
  <2> QED
    BY <1>2, <2>2, <2>3 DEF Successor
<1> QED
  BY <1>1, <1>2

-----------------------------------------------------------------------------
(* Steps                                                                   *)

Places == {"idle", "fill"} \cup Waiting \cup Inside

LEMMA GotoFacts ==
  ASSUME TypeOK, NEW p \in Processes, NEW there \in Places, Goto(p, there)
  PROVE  /\ pc' \in [Processes -> Places]
         /\ pc'[p] = there
         /\ \A q \in Processes : q # p => pc'[q] = pc[q]
  BY DEF Goto, TypeOK, Places

LEMMA ProcessFacts ==
  ASSUME NEW p \in Processes
  PROVE  p # "none" /\ p # "dead" /\ NoLock # Mine(p) /\ NoLock.by # p
  BY ProcessesAssumption DEF NoLock, Mine

\* What an operation is about to write is well formed, and for a plan it is what
\* one operation makes of it.
LEMMA ChangeFacts ==
  ASSUME TypeOK, NEW change \in Changes
  PROVE  /\ change \in Writes \ {Nothing}
         /\ change.file = "plan" => Successor(plan, change.value)
<1> DEFINE Good(c) ==
      /\ c \in Writes \ {Nothing}
      /\ c.file = "plan" => Successor(plan, c.value)
<1>0. \A d, st : Successor(plan, [deps |-> d, status |-> st]) => Good(PlanNow(d, st))
  <2> SUFFICES ASSUME NEW d, NEW st, Successor(plan, [deps |-> d, status |-> st])
               PROVE  Good(PlanNow(d, st))
    OBVIOUS
  <2>1. [deps |-> d, status |-> st] \in Plans
    BY SuccessorTyped DEF TypeOK
  <2> QED
    BY <2>1 DEF PlanNow, Writes, Nothing
<1>1. CASE change \in CreateTaskPlan
  <2>1. plan = NoPlan /\ \E d \in Graphs : change = PlanNow(d, Untouched)
    BY <1>1 DEF CreateTaskPlan
  <2> QED
    BY <1>0, <2>1 DEF Successor
<1>2. CASE change \in RecordTaskStep
  <2>1. PICK m \in Steps \X {"running", "completed", "failed"} :
          /\ plan # NoPlan
          /\ CanRecord(plan.deps, plan.status, m[1], m[2])
          /\ change = PlanNow(plan.deps, Recorded(plan.status, m[1], m[2]))
    BY <1>2 DEF RecordTaskStep
  <2>2. m[1] \in Steps /\ m[2] \in StepStatuses
    BY DEF StepStatuses
  <2>3. ASSUME NEW step \in Steps, NEW outcome \in StepStatuses,
               CanRecord(plan.deps, plan.status, step, outcome)
        PROVE  Successor(plan, [deps |-> plan.deps,
                                status |-> Recorded(plan.status, step, outcome)])
    BY <2>1, <2>3 DEF Successor
  <2>4. Successor(plan, [deps |-> plan.deps, status |-> Recorded(plan.status, m[1], m[2])])
    BY <2>1, <2>2, <2>3
  <2> QED
    BY <1>0, <2>1, <2>4
<1>3. CASE change \in RetryTaskStep
  <2>1. PICK s \in Steps :
          /\ plan # NoPlan
          /\ plan.status[s] = "failed"
          /\ change = PlanNow(plan.deps, Retried(plan.deps, plan.status, s))
    BY <1>3 DEF RetryTaskStep
  <2> QED
    BY <1>0, <2>1 DEF Successor
<1>4. CASE change \in CreateSession \cup UpdateSession \cup EndSession
  BY <1>4 DEF CreateSession, UpdateSession, EndSession, SessionNow, SessionStates,
              Writes, Nothing, TypeOK
<1>5. CASE change \in CreateSessionFailure
  BY <1>5 DEF CreateSessionFailure, Writes, Nothing
<1>6. CASE change \in ConvertFailureToRule
  <2>1. rules < MaxRules /\ change = [file |-> "rules", value |-> rules + 1]
    BY <1>6 DEF ConvertFailureToRule
  <2>2. rules + 1 \in 1..MaxRules
    BY <2>1, BoundAssumption DEF TypeOK
  <2> QED
    BY <2>1, <2>2 DEF Writes, Nothing
<1> QED
  BY <1>1, <1>2, <1>3, <1>4, <1>5, <1>6 DEF Changes

LEMMA InvInit == Init => IInv
<1> SUFFICES ASSUME Init PROVE IInv
  OBVIOUS
<1>1. TypeOK
  <2>1. Nothing \in Writes
    BY DEF Writes
  <2>2. \A p \in Processes : lock.by # p
    BY ProcessFacts, ProcessesAssumption DEF Init, NoLock
  <2>3. /\ lock \in [by : Processes \cup {"dead"}, pid : BOOLEAN] \cup {NoLock}
        /\ pc \in [Processes -> {"idle", "fill"} \cup Waiting \cup Inside]
        /\ todo \in [Processes -> Writes]
        /\ \A p \in Processes : pc[p] = "idle" /\ todo[p] = Nothing
    BY <2>1 DEF Init
  <2>4. /\ plan \in Plans \cup {NoPlan}
        /\ sessions \in [Sessions -> SessionStates]
        /\ failures \subseteq Sessions
        /\ attempt \in {"open", "converted"}
        /\ rules \in 0..MaxRules
    BY BoundAssumption DEF Init, SessionStates
  <2>5. budget \in Nat /\ robbed \in BOOLEAN /\ torn \in Nat
    BY BoundAssumption DEF Init
  <2> QED
    BY <2>2, <2>3, <2>4, <2>5 DEF TypeOK
<1>2. AllFounded /\ Clean
  BY DEF Init, AllFounded, Founded, Clean, Owned, Inside, Nothing
<1> QED
  BY <1>1, <1>2 DEF IInv

\* Taking and leaving the lock.
LEMMA InvLock ==
  ASSUME IInv, NEW p \in Processes,
         \/ Call(p) \/ Acquire(p) \/ Fill(p) \/ Judge(p) \/ Wait(p)
         \/ Reclaim(p) \/ Release(p)
  PROVE  IInv'
<1>0. TypeOK /\ AllFounded
  BY DEF IInv
<1>1. UNCHANGED <<todo, plan, sessions, failures, attempt, rules, budget, torn>>
  BY DEF Call, Acquire, Fill, Judge, Wait, Reclaim, Release, files
<1>2. AllFounded'
  BY <1>0, <1>1 DEF AllFounded
<1>3. SUFFICES TypeOK' /\ (~robbed' => \A q \in Processes : Owned(q)')
  BY <1>1, <1>2, <1>3 DEF IInv, Clean, Removed, Release, Reclaim, Call, Acquire, Fill, Judge, Wait
<1>4. ASSUME pc[p] \in {"idle", "acquire", "judge", "wait"},
             NEW there \in Places, there \notin {"write", "clear", "read", "mark", "release", "fill"},
             Goto(p, there), lock' = lock, robbed' = robbed
      PROVE  TypeOK' /\ (~robbed' => \A q \in Processes : Owned(q)')
  <2>1. /\ pc' \in [Processes -> Places] /\ pc'[p] = there
        /\ \A q \in Processes : q # p => pc'[q] = pc[q]
    BY <1>0, <1>4, GotoFacts
  <2>2. TypeOK'
    BY <1>0, <1>1, <1>4, <2>1 DEF TypeOK, Places, Inside
  <2>3. ASSUME ~robbed', NEW q \in Processes PROVE Owned(q)'
    BY <1>4, <2>1, <2>3 DEF IInv, Clean, Owned, Inside, Mine
  <2> QED
    BY <2>2, <2>3
<1>5. CASE Call(p)
  BY <1>4, <1>5 DEF Call, Places, Waiting
<1>6. CASE Judge(p)
  BY <1>4, <1>6 DEF Judge, Places, Waiting
<1>7. CASE Wait(p)
  BY <1>4, <1>7 DEF Wait, Places, Waiting
<1>8. CASE Acquire(p)
  <2>1. CASE lock # NoLock
    BY <1>4, <1>8, <2>1 DEF Acquire, Places, Waiting
  <2>2. CASE lock = NoLock
    <3>1. lock' = Mine(p) /\ Goto(p, "fill") /\ robbed' = robbed /\ pc[p] = "acquire"
      BY <1>8, <2>2 DEF Acquire
    <3>2. /\ pc' \in [Processes -> Places] /\ pc'[p] = "fill"
          /\ \A q \in Processes : q # p => pc'[q] = pc[q]
      BY <1>0, <3>1, GotoFacts DEF Places
    <3>3. TypeOK'
      BY <1>0, <1>1, <3>1, <3>2 DEF TypeOK, Places, Inside, Mine
    <3>4. ASSUME ~robbed', NEW q \in Processes PROVE Owned(q)'
      <4>1. Owned(q)
        BY <3>1, <3>4 DEF IInv, Clean
      <4>2. pc[q] \notin Inside /\ pc[q] # "fill"
        BY <2>2, <4>1, ProcessFacts DEF Owned, NoLock
      <4> QED
        BY <3>1, <3>2, <4>2 DEF Owned, Mine, Inside
    <3> QED
      BY <3>3, <3>4
  <2> QED
    BY <2>1, <2>2
<1>9. CASE Fill(p)
  <2>1. /\ pc[p] = "fill" /\ Goto(p, "read") /\ robbed' = robbed
        /\ lock' = IF lock = Mine(p) THEN [by |-> p, pid |-> TRUE] ELSE lock
    BY <1>9 DEF Fill
  <2>2. /\ pc' \in [Processes -> Places] /\ pc'[p] = "read"
        /\ \A q \in Processes : q # p => pc'[q] = pc[q]
    BY <1>0, <2>1, GotoFacts DEF Places, Inside
  <2>3. TypeOK'
    BY <1>0, <1>1, <2>1, <2>2 DEF TypeOK, Places, Inside, Mine
  <2>4. ASSUME ~robbed', NEW q \in Processes PROVE Owned(q)'
    <3>1. Owned(p) /\ Owned(q) /\ lock = Mine(p)
      BY <2>1, <2>4 DEF IInv, Clean, Owned
    <3>2. q # p => pc[q] \notin Inside /\ pc[q] # "fill"
      BY <3>1 DEF Owned, Mine
    <3> QED
      BY <2>1, <2>2, <3>1, <3>2 DEF Owned, Inside, Mine
  <2> QED
    BY <2>3, <2>4
<1>10. ASSUME Removed(p), NEW there \in {"idle", "acquire"}, Goto(p, there),
              pc[p] \in {"reclaim", "release"}
       PROVE  TypeOK' /\ (~robbed' => \A q \in Processes : Owned(q)')
  <2>1. /\ pc' \in [Processes -> Places] /\ pc'[p] = there
        /\ \A q \in Processes : q # p => pc'[q] = pc[q]
    BY <1>0, <1>10, GotoFacts DEF Places, Waiting
  <2>2. lock' = NoLock /\ robbed' \in BOOLEAN
    BY <1>0, <1>10 DEF Removed, TypeOK
  <2>3. TypeOK'
    BY <1>0, <1>1, <1>10, <2>1, <2>2, ProcessFacts DEF TypeOK, Places, Inside
  <2>4. ASSUME ~robbed', NEW q \in Processes PROVE Owned(q)'
    <3>1. ~robbed /\ ~(lock.by \in Processes \ {p} /\ pc[lock.by] # "idle")
      BY <1>0, <1>10, <2>4 DEF Removed, TypeOK
    <3>2. Owned(q)
      BY <3>1 DEF IInv, Clean
    <3>3. q # p => pc[q] \notin Inside /\ pc[q] # "fill"
      BY <3>1, <3>2 DEF Owned, Mine, Inside
    <3> QED
      BY <1>10, <2>1, <3>3 DEF Owned, Inside
  <2> QED
    BY <2>3, <2>4
<1>11. CASE Reclaim(p)
  BY <1>10, <1>11 DEF Reclaim
<1>12. CASE Release(p)
  BY <1>10, <1>12 DEF Release
<1> QED
  BY <1>5, <1>6, <1>7, <1>8, <1>9, <1>11, <1>12

\* What is read under the lock, and what is refused.
LEMMA InvRead ==
  ASSUME IInv, NEW p \in Processes, Read(p) \/ Refuse(p)
  PROVE  IInv'
<1>0. TypeOK /\ AllFounded
  BY DEF IInv
<1>1. /\ UNCHANGED <<lock, plan, sessions, failures, attempt, rules, budget, robbed, torn>>
      /\ pc[p] = "read"
  BY DEF Read, Refuse, files
<1>2. todo[p] = Nothing
  BY <1>0, <1>1 DEF TypeOK
<1>3. PICK change \in Writes, there \in {"write", "release"} :
        /\ there = "write" <=> change # Nothing
        /\ change.file = "plan" => Successor(plan, change.value)
        /\ todo' = [todo EXCEPT ![p] = change]
        /\ Goto(p, there)
  <2>1. CASE Read(p)
    <3>1. PICK change \in Changes : todo' = [todo EXCEPT ![p] = change]
      BY <2>1 DEF Read
    <3>2. change \in Writes /\ change # Nothing
          /\ (change.file = "plan" => Successor(plan, change.value))
      BY <1>0, <3>1, ChangeFacts
    <3> QED
      BY <2>1, <3>1, <3>2 DEF Read
  <2>2. CASE Refuse(p)
    <3>1. Nothing \in Writes /\ Nothing.file # "plan"
      BY DEF Writes, Nothing
    <3>2. todo' = [todo EXCEPT ![p] = Nothing]
      BY <1>0, <1>2, <2>2 DEF Refuse, TypeOK
    <3> QED
      BY <2>2, <3>1, <3>2 DEF Refuse
  <2> QED
    BY <2>1, <2>2
<1>4. /\ pc' \in [Processes -> Places] /\ pc'[p] = there
      /\ \A q \in Processes : q # p => pc'[q] = pc[q]
  BY <1>0, <1>3, GotoFacts DEF Places, Inside
<1>5. /\ todo' \in [Processes -> Writes] /\ todo'[p] = change
      /\ \A q \in Processes : q # p => todo'[q] = todo[q]
  BY <1>0, <1>3 DEF TypeOK
<1>6. TypeOK'
  BY <1>0, <1>1, <1>3, <1>4, <1>5 DEF TypeOK, Places, Inside
<1>7. AllFounded'
  <2>1. change.file = "plan" => Founded(change.value)
    BY <1>0, <1>3, SuccessorFounded DEF TypeOK, AllFounded
  <2> QED
    BY <1>0, <1>1, <1>5, <2>1 DEF AllFounded
<1>8. ASSUME ~robbed' PROVE Clean'
  <2>1. Clean
    BY <1>1, <1>8 DEF IInv
  <2>2. \A q \in Processes : Owned(q)'
    BY <1>1, <1>3, <1>4, <2>1 DEF Clean, Owned, Inside, Mine
  <2> QED
    BY <1>1, <1>3, <1>5, <2>1, <2>2 DEF Clean
<1> QED
  BY <1>6, <1>7, <1>8 DEF IInv

\* While nobody was robbed, the others have nothing to write.
LEMMA Alone ==
  ASSUME IInv, ~robbed, NEW p \in Processes, pc[p] \in Inside,
         NEW q \in Processes, q # p
  PROVE  pc[q] \notin Inside /\ todo[q] = Nothing
<1>1. Owned(p) /\ Owned(q)
  BY DEF IInv, Clean
<1>2. pc[q] \notin Inside
  BY <1>1 DEF Owned
<1> QED
  BY <1>2 DEF IInv, TypeOK, Inside

LEMMA InvWrite ==
  ASSUME IInv, NEW p \in Processes, Write(p) \/ Mark(p) \/ Clear(p)
  PROVE  IInv'
<1>0. TypeOK /\ AllFounded
  BY DEF IInv
<1>1. /\ UNCHANGED <<lock, budget, robbed, torn>>
      /\ pc[p] \in {"write", "mark", "clear"}
  BY DEF Write, Mark, Clear
<1>2. PICK change \in Writes, there \in {"mark", "clear", "release"} :
        /\ there = "clear" <=> change # Nothing
        /\ change.file # "plan"
        /\ todo' = [todo EXCEPT ![p] = change]
        /\ Goto(p, there)
  <2>0. Nothing \in Writes /\ Nothing.file # "plan"
    BY DEF Writes, Nothing
  <2>1. CASE Write(p)
    <3> DEFINE ends == todo[p].file = "sessions" /\ todo[p].value[todo[p].of] = "ended"
               change == IF ends THEN [file |-> "clear", of |-> todo[p].of] ELSE Nothing
               there == IF todo[p].file = "rules" THEN "mark" ELSE IF ends THEN "clear" ELSE "release"
    <3>1. todo' = [todo EXCEPT ![p] = change] /\ Goto(p, there)
      BY <1>0, <2>1 DEF Write, Afterwards, TypeOK
    <3>2. todo[p] \in Writes
      BY <1>0 DEF TypeOK
    <3>3. ends => todo[p].of \in Sessions
      BY <3>2 DEF Writes, Nothing
    <3>4. change \in Writes /\ change.file # "plan" /\ (ends <=> change # Nothing)
      BY <2>0, <3>3 DEF Writes, Nothing
    <3>5. there \in {"mark", "clear", "release"} /\ (there = "clear" <=> ends)
      OBVIOUS
    <3> HIDE DEF ends, change, there
    <3> QED
      BY <3>1, <3>4, <3>5
  <2>2. CASE Mark(p)
    <3>1. todo[p] = Nothing /\ todo' = todo
      BY <1>0, <2>2 DEF Mark, TypeOK
    <3>2. todo' = [todo EXCEPT ![p] = Nothing]
      BY <1>0, <3>1 DEF TypeOK
    <3> QED
      BY <2>0, <2>2, <3>2 DEF Mark
  <2>3. CASE Clear(p)
    BY <2>0, <2>3 DEF Clear
  <2> QED
    BY <2>1, <2>2, <2>3
<1>3. /\ pc' \in [Processes -> Places] /\ pc'[p] = there
      /\ \A q \in Processes : q # p => pc'[q] = pc[q]
  BY <1>0, <1>2, GotoFacts DEF Places, Inside
<1>4. /\ todo' \in [Processes -> Writes] /\ todo'[p] = change
      /\ \A q \in Processes : q # p => todo'[q] = todo[q]
  BY <1>0, <1>2 DEF TypeOK
<1>5. /\ plan' \in Plans \cup {NoPlan} /\ sessions' \in [Sessions -> SessionStates]
      /\ failures' \subseteq Sessions /\ attempt' \in {"open", "converted"}
      /\ rules' \in 0..MaxRules
  <2>1. todo[p] \in Writes
    BY <1>0 DEF TypeOK
  <2>2. CASE Write(p)
    <3>1. /\ todo[p].file = "plan" => todo[p].value \in Plans
          /\ todo[p].file = "sessions" => todo[p].value \in [Sessions -> SessionStates]
          /\ todo[p].file = "failures" => todo[p].of \in Sessions
          /\ todo[p].file = "rules" => todo[p].value \in 1..MaxRules
      BY <2>1 DEF Writes, Nothing
    <3> QED
      BY <1>0, <2>2, <3>1 DEF Write, TypeOK
  <2>3. CASE Mark(p) \/ Clear(p)
    BY <1>0, <2>3 DEF Mark, Clear, TypeOK
  <2> QED
    BY <2>2, <2>3
<1>6. TypeOK'
  BY <1>0, <1>1, <1>2, <1>3, <1>4, <1>5 DEF TypeOK, Places, Inside
<1>7. plan' = plan \/ (todo[p].file = "plan" /\ plan' = todo[p].value)
  BY DEF Write, Mark, Clear
<1>8. AllFounded'
  BY <1>0, <1>2, <1>4, <1>7 DEF AllFounded
<1>9. ASSUME ~robbed' PROVE Clean'
  <2>1. Clean /\ ~robbed /\ pc[p] \in Inside
    BY <1>1, <1>9 DEF IInv, Inside
  <2>2. \A q \in Processes : Owned(q)'
    BY <1>1, <1>2, <1>3, <2>1 DEF Clean, Owned, Inside, Mine
  <2>3. \A q \in Processes : todo'[q].file # "plan"
    BY <1>2, <1>4, <2>1, Alone DEF Nothing
  <2> QED
    BY <2>2, <2>3 DEF Clean
<1> QED
  BY <1>6, <1>8, <1>9 DEF IInv

\* A process that dies keeps its name in the lock, and nothing else.
LEMMA InvFaults ==
  ASSUME IInv, NEW p \in Processes, Crash(p) \/ FillFails(p) \/ WriteFails(p)
  PROVE  IInv'
<1>0. TypeOK /\ AllFounded
  BY DEF IInv
<1>1. /\ UNCHANGED <<plan, sessions, failures, attempt, rules, robbed>>
      /\ budget' \in Nat /\ torn' \in Nat
  <2>1. UNCHANGED <<plan, sessions, failures, attempt, rules, robbed>>
    BY DEF Crash, FillFails, WriteFails, files
  <2>2. budget' \in Nat
    BY <1>0 DEF Crash, FillFails, WriteFails, Fault, TypeOK
  <2>3. torn' \in {torn, torn + 1}
    BY DEF Crash, FillFails, WriteFails
  <2>4. torn' \in Nat
    BY <1>0, <2>3 DEF TypeOK
  <2> QED
    BY <2>1, <2>2, <2>4
<1>2. Nothing \in Writes /\ Nothing.file # "plan"
  BY DEF Writes, Nothing
<1>3. todo' = [todo EXCEPT ![p] = Nothing]
  <2>1. FillFails(p) => todo[p] = Nothing /\ todo' = todo
    BY <1>0 DEF FillFails, TypeOK
  <2> QED
    BY <1>0, <2>1 DEF Crash, WriteFails, TypeOK
<1>4. /\ todo' \in [Processes -> Writes] /\ todo'[p] = Nothing
      /\ \A q \in Processes : q # p => todo'[q] = todo[q]
  BY <1>0, <1>2, <1>3 DEF TypeOK
<1>5. PICK there \in {"idle", "release"} :
        /\ Goto(p, there)
        /\ there = "release" => pc[p] \in Inside /\ lock' = lock
        /\ there = "idle" => lock' = (IF lock.by = p THEN [lock EXCEPT !.by = "dead"] ELSE lock)
                              \/ (lock' = lock /\ pc[p] = "fill")
  BY DEF Crash, FillFails, WriteFails, Inside
<1>6. /\ pc' \in [Processes -> Places] /\ pc'[p] = there
      /\ \A q \in Processes : q # p => pc'[q] = pc[q]
  BY <1>0, <1>5, GotoFacts DEF Places, Inside
<1>7. \/ lock' = lock /\ (there = "idle" => lock.by # p \/ pc[p] = "fill")
      \/ there = "idle" /\ lock.by = p /\ lock' = [by |-> "dead", pid |-> lock.pid]
  <2>1. lock.by = p => [lock EXCEPT !.by = "dead"] = [by |-> "dead", pid |-> lock.pid]
    BY <1>0, ProcessFacts DEF TypeOK
  <2> QED
    BY <1>5, <2>1
<1>8. TypeOK'
  <2>1. lock' \in [by : Processes \cup {"dead"}, pid : BOOLEAN] \cup {NoLock}
    BY <1>0, <1>7, ProcessFacts DEF TypeOK
  <2>2. \A q \in Processes : lock'.by = q /\ lock'.pid => pc'[q] \in Inside
    BY <1>0, <1>5, <1>6, <1>7, ProcessFacts DEF TypeOK, Inside
  <2>3. \A q \in Processes : pc'[q] \in {"write", "clear"} <=> todo'[q] # Nothing
    BY <1>0, <1>4, <1>6 DEF TypeOK
  <2> QED
    BY <1>0, <1>1, <1>4, <1>6, <2>1, <2>2, <2>3 DEF TypeOK, Places
<1>9. AllFounded'
  BY <1>0, <1>1, <1>2, <1>4 DEF AllFounded
<1>10. ASSUME ~robbed' PROVE Clean'
  <2>1. Clean
    BY <1>1, <1>10 DEF IInv
  <2>2. \A q \in Processes : Owned(q)'
    BY <1>5, <1>6, <1>7, <2>1 DEF Clean, Owned, Inside, Mine
  <2> QED
    BY <1>1, <1>2, <1>4, <2>1, <2>2 DEF Clean
<1> QED
  BY <1>8, <1>9, <1>10 DEF IInv

LEMMA InvStep == IInv /\ [Next]_vars => IInv'
<1> SUFFICES ASSUME IInv, [Next]_vars PROVE IInv'
  OBVIOUS
<1>1. CASE UNCHANGED vars
  BY <1>1 DEF vars, files, IInv, TypeOK, AllFounded, Clean, Owned, Mine
<1>2. CASE Next
  BY <1>2, InvLock, InvRead, InvWrite, InvFaults DEF Next, Proceed
<1> QED
  BY <1>1, <1>2

LEMMA Invariant == Spec => []IInv
  BY InvInit, InvStep, PTL DEF Spec

-----------------------------------------------------------------------------
(* Theorems                                                                *)

\* The variables keep their types; a process has contents to write exactly
\* while it is about to write, and a pid in the lock is that of a process that
\* is in its critical section or dead.
THEOREM TypeCorrect == Spec => []TypeOK
<1>1. IInv => TypeOK
  BY DEF IInv
<1> QED
  BY <1>1, Invariant, PTL

\* Two processes are inside withDirLock together only after one of them was
\* robbed of its lock, for any number of processes, crashes and failing writes.
THEOREM Exclusive == Spec => []ExclusiveUnlessRobbed
<1>1. IInv => ExclusiveUnlessRobbed
  BY Alone DEF IInv, ExclusiveUnlessRobbed, Holders
<1> QED
  BY <1>1, Invariant, PTL

\* A plan that rolls up to planned has a step that can start, for every acyclic
\* graph: the steps that are not completed are all pending, and one of them
\* depends on none of the others.
LEMMA Offers == TypeOK => PlannedOffersWork
<1>1. ASSUME TypeOK PROVE PlannedOffersWork
  <2> SUFFICES ASSUME plan # NoPlan, Acyclic(plan.deps), RollUp(plan.status) = "planned"
               PROVE  Ready(plan.deps, plan.status) # {}
    BY DEF PlannedOffersWork
  <2> DEFINE left == {s \in Steps : plan.status[s] # "completed"}
  <2>1. plan.deps \in [Steps -> SUBSET Steps] /\ plan.status \in [Steps -> StepStatuses]
    BY <1>1 DEF TypeOK, Plans, DependencyGraphs
  <2>2. /\ \A s \in Steps : plan.status[s] # "failed"
        /\ \A s \in Steps : plan.status[s] # "running"
        /\ ~AllCompleted(Steps, plan.status)
    BY DEF RollUp
  <2>3. left \in SUBSET Steps /\ left # {}
    BY <2>2 DEF AllCompleted
  <2>4. PICK s \in left : plan.deps[s] \cap left = {}
    BY <2>3 DEF Acyclic
  <2>5. s \in Steps /\ plan.status[s] = "pending"
    BY <2>1, <2>2, <2>4 DEF StepStatuses
  <2>6. AllCompleted(plan.deps[s], plan.status)
    BY <2>1, <2>4, <2>5 DEF AllCompleted
  <2> QED
    BY <2>5, <2>6 DEF Ready
<1> QED
  BY <1>1

\* For every dependency graph the schema allows, a running step's dependencies are
\* completed and a plan that rolls up to planned offers a step, whatever was
\* recorded or retried, and even if updates were lost.
THEOREM Sound == Spec => []PlansAreSound
<1>1. IInv => RunningIsFounded
  BY DEF IInv, AllFounded, Founded, RunningIsFounded
<1>2. IInv => PlannedOffersWork
  BY Offers DEF IInv
<1>3. IInv => PlansAreSound
  BY <1>1, <1>2 DEF PlansAreSound
<1> QED
  BY <1>3, Invariant, PTL

\* Unless somebody was robbed, every write of a plan is one operation of
\* PlanLifecycle on the plan that it replaces: no outcome is lost.
THEOREM Serial == Spec => PlansAreSerial
<1>0. /\ \A deps, status, step, outcome :
            CanRecord(deps, status, step, outcome)
              => Lifecycle!CanRecord(deps, status, step, outcome)
      /\ \A deps, status, step :
            Retried(deps, status, step) = Lifecycle!Retried(deps, status, step)
      /\ \A status, step, outcome :
            Recorded(status, step, outcome) = Lifecycle!Recorded(status, step, outcome)
      /\ Untouched = Lifecycle!Untouched /\ StepStatuses = Lifecycle!StepStatuses
  <2>1. \A deps, step : ToReset(deps, step) = Lifecycle!ToReset(deps, step)
    BY DEF ToReset, Feeds, Lifecycle!ToReset, Lifecycle!Feeds
  <2>2. \A deps, status, step :
          Retried(deps, status, step) = Lifecycle!Retried(deps, status, step)
    BY <2>1 DEF Retried, Lifecycle!Retried
  <2> QED
    BY <2>2 DEF CanRecord, Lifecycle!CanRecord, LegalMoves, Lifecycle!LegalMoves,
      AllCompleted, Lifecycle!AllCompleted, Recorded, Lifecycle!Recorded,
      Untouched, Lifecycle!Untouched, StepStatuses, Lifecycle!StepStatuses
<1>1. ASSUME IInv, [Next]_vars PROVE [robbed \/ Lifecycle!Next]_plan
  <2> SUFFICES ASSUME ~robbed, plan' # plan PROVE Lifecycle!Next
    OBVIOUS
  <2>1. PICK p \in Processes : Write(p)
    BY <1>1 DEF vars, files, Next, Proceed, Call, Acquire, Fill, Judge, Reclaim, Wait, Read,
                Refuse, Mark, Clear, Release, Crash, FillFails, WriteFails
  <2>2. Successor(plan, plan')
    BY <1>1, <2>1 DEF IInv, Clean, Write
  <2>4. CASE plan = NoPlan
    BY <1>0, <2>2, <2>4 DEF Successor, Lifecycle!Next, Lifecycle!Create, Lifecycle!NoPlan, NoPlan
  <2>5. CASE plan # NoPlan
    <3>1. ASSUME NEW step \in Steps, NEW outcome \in StepStatuses,
                 CanRecord(plan.deps, plan.status, step, outcome),
                 plan' = [deps |-> plan.deps, status |-> Recorded(plan.status, step, outcome)]
          PROVE  Lifecycle!Record(step, outcome)
      BY <1>0, <2>5, <3>1 DEF Lifecycle!Record, Lifecycle!NoPlan, NoPlan
    <3>2. ASSUME NEW step \in Steps, plan.status[step] = "failed",
                 plan' = [deps |-> plan.deps, status |-> Retried(plan.deps, plan.status, step)]
          PROVE  Lifecycle!Retry(step)
      BY <1>0, <2>5, <3>2 DEF Lifecycle!Retry, Lifecycle!NoPlan, NoPlan
    <3> QED
      BY <1>0, <2>2, <2>5, <3>1, <3>2 DEF Successor, Lifecycle!Next, StepStatuses
  <2> QED
    BY <2>4, <2>5
<1> QED
  BY <1>1, Invariant, PTL DEF Spec, PlansAreSerial

-----------------------------------------------------------------------------
(* Sessions and rules                                                      *)

\* The sessions' file with one session that had not ended set anew.
SessionSuccessor(old, next) ==
  \E s \in Sessions, state \in {"open", "ended"} :
    old[s] # "ended" /\ next = [old EXCEPT ![s] = state]

SessionsKept == \A p \in Processes :
  todo[p].file = "sessions" => SessionSuccessor(sessions, todo[p].value)

\* A rule is about to be made only from the open attempt, whose rules so far all
\* come from interrupted conversions; once it has one more it is marked or about
\* to be.
RulesKept ==
  /\ rules <= torn + 1
  /\ \A p \in Processes :
       todo[p].file = "rules" =>
         attempt = "open" /\ rules <= torn /\ todo[p].value = rules + 1
  /\ rules = torn + 1 /\ attempt = "open" => \E p \in Processes : pc[p] = "mark"

Kept == ~robbed => SessionsKept /\ RulesKept

LEMMA KeptInit == Init => Kept
  BY DEF Init, Kept, SessionsKept, RulesKept, Nothing

\* The lock's steps change neither the files nor what is to be written.
LEMMA KeptLock ==
  ASSUME IInv, Kept, NEW p \in Processes,
         \/ Call(p) \/ Acquire(p) \/ Fill(p) \/ Judge(p) \/ Wait(p)
         \/ Reclaim(p) \/ Release(p)
  PROVE  Kept'
<1>0. TypeOK
  BY DEF IInv
<1>1. UNCHANGED <<todo, sessions, attempt, rules, torn>>
  BY DEF Call, Acquire, Fill, Judge, Wait, Reclaim, Release, files
<1>2. ~robbed' => ~robbed
  BY <1>0 DEF Call, Acquire, Fill, Judge, Wait, Reclaim, Release, Removed, TypeOK
<1>3. pc[p] # "mark"
  BY DEF Call, Acquire, Fill, Judge, Wait, Reclaim, Release
<1>4. \A q \in Processes : pc[q] = "mark" => pc'[q] = "mark"
  <2>1. \E there : pc' = [pc EXCEPT ![p] = there]
    BY DEF Call, Acquire, Fill, Judge, Wait, Reclaim, Release, Goto
  <2> QED
    BY <1>0, <1>3, <2>1 DEF TypeOK
<1> QED
  BY <1>1, <1>2, <1>4 DEF Kept, SessionsKept, RulesKept

\* What an operation computes from the sessions or the attempt.
LEMMA ChangeKeeps ==
  ASSUME TypeOK, NEW change \in Changes
  PROVE  /\ change.file = "sessions" => SessionSuccessor(sessions, change.value)
         /\ change.file = "rules" =>
              attempt = "open" /\ rules < MaxRules /\ change.value = rules + 1
<1>1. CASE change \in CreateTaskPlan \cup RecordTaskStep \cup RetryTaskStep
  BY <1>1 DEF CreateTaskPlan, RecordTaskStep, RetryTaskStep, PlanNow
<1>2. CASE change \in CreateSession \cup UpdateSession \cup EndSession
  <2>1. PICK s \in Sessions, state \in {"open", "ended"} :
          sessions[s] # "ended" /\ change = SessionNow(s, state)
    BY <1>2 DEF CreateSession, UpdateSession, EndSession
  <2>2. change.file = "sessions" /\ change.value = [sessions EXCEPT ![s] = state]
    BY <2>1 DEF SessionNow
  <2> QED
    BY <2>1, <2>2 DEF SessionSuccessor
<1>3. CASE change \in CreateSessionFailure
  BY <1>3 DEF CreateSessionFailure
<1>4. CASE change \in ConvertFailureToRule
  BY <1>4 DEF ConvertFailureToRule
<1> QED
  BY <1>1, <1>2, <1>3, <1>4 DEF Changes

LEMMA KeptRead ==
  ASSUME IInv, Kept, NEW p \in Processes, Read(p) \/ Refuse(p)
  PROVE  Kept'
<1>0. TypeOK
  BY DEF IInv
<1>1. /\ UNCHANGED <<sessions, attempt, rules, robbed, torn>>
      /\ pc[p] = "read" /\ pc[p] \in Inside
  BY DEF Read, Refuse, files, Inside
<1>2. \A q \in Processes : pc[q] = "mark" => pc'[q] = "mark"
  <2>1. \E there : pc' = [pc EXCEPT ![p] = there]
    BY DEF Read, Refuse, Goto
  <2> QED
    BY <1>0, <1>1, <2>1 DEF TypeOK
<1>3. CASE Refuse(p)
  BY <1>1, <1>2, <1>3 DEF Refuse, Kept, SessionsKept, RulesKept
<1>4. CASE Read(p)
  <2>1. PICK change \in Changes : todo' = [todo EXCEPT ![p] = change]
    BY <1>4 DEF Read
  <2>2. todo'[p] = change /\ \A q \in Processes : q # p => todo'[q] = todo[q]
    BY <1>0, <2>1 DEF TypeOK
  <2>3. ASSUME ~robbed PROVE SessionsKept'
    BY <1>0, <1>1, <2>2, <2>3, ChangeKeeps DEF Kept, SessionsKept
  <2>4. ASSUME ~robbed PROVE RulesKept'
    <3>1. RulesKept
      BY <2>4 DEF Kept
    <3>2. change.file = "rules" =>
            attempt = "open" /\ rules <= torn /\ change.value = rules + 1
      <4> SUFFICES ASSUME change.file = "rules"
                   PROVE  attempt = "open" /\ rules <= torn /\ change.value = rules + 1
        OBVIOUS
      <4>1. attempt = "open" /\ change.value = rules + 1
        BY <1>0, ChangeKeeps
      <4>2. \A q \in Processes : pc[q] # "mark"
        BY <1>1, <2>4, Alone DEF Inside
      <4>3. rules <= torn
        BY <1>0, <3>1, <4>1, <4>2 DEF RulesKept, TypeOK
      <4> QED
        BY <4>1, <4>3
    <3> QED
      BY <1>1, <1>2, <2>2, <3>1, <3>2 DEF RulesKept
  <2> QED
    BY <1>1, <2>3, <2>4 DEF Kept
<1> QED
  BY <1>3, <1>4

\* Nobody else has anything to write, and what p wrote was about the file it
\* replaced.
LEMMA KeptWrite ==
  ASSUME IInv, Kept, NEW p \in Processes, Write(p) \/ Mark(p) \/ Clear(p)
  PROVE  Kept'
<1>0. TypeOK
  BY DEF IInv
<1>1. /\ UNCHANGED <<robbed, torn>>
      /\ pc[p] \in {"write", "mark", "clear"} /\ pc[p] \in Inside
  BY DEF Write, Mark, Clear, Inside
<1>2. todo'[p].file \notin {"sessions", "rules"}
      /\ \A q \in Processes : q # p => todo'[q] = todo[q]
  <2>1. CASE Write(p)
    BY <1>0, <2>1 DEF Write, Afterwards, TypeOK, Nothing
  <2>2. CASE Mark(p)
    BY <1>0, <2>2 DEF Mark, TypeOK, Nothing
  <2>3. CASE Clear(p)
    BY <1>0, <2>3 DEF Clear, TypeOK, Nothing
  <2> QED
    BY <2>1, <2>2, <2>3
<1>3. ASSUME ~robbed, NEW q \in Processes PROVE todo'[q].file \notin {"sessions", "rules"}
  <2>1. q # p => todo[q] = Nothing
    BY <1>1, <1>3, Alone
  <2> QED
    BY <1>2, <2>1 DEF Nothing
<1>4. ASSUME ~robbed PROVE SessionsKept'
  BY <1>3, <1>4 DEF SessionsKept
<1>5. ASSUME ~robbed PROVE RulesKept'
  <2>1. RulesKept
    BY <1>5 DEF Kept
  <2>2. /\ rules' <= torn + 1
        /\ rules' = torn + 1 /\ attempt' = "open" => \E q \in Processes : pc'[q] = "mark"
    <3>1. CASE Write(p) /\ todo[p].file = "rules"
      <4>1. rules' <= torn + 1 /\ pc'[p] = "mark"
        BY <1>0, <2>1, <3>1 DEF Write, Afterwards, Goto, RulesKept, TypeOK
      <4> QED
        BY <4>1
    <3>2. CASE Write(p) /\ todo[p].file # "rules"
      <4>1. rules' = rules /\ attempt' = attempt
        BY <3>2 DEF Write
      <4>2. \A q \in Processes : pc[q] # "mark"
        BY <1>1, <1>5, <3>2, Alone DEF Inside, Write
      <4> QED
        BY <2>1, <4>1, <4>2 DEF RulesKept
    <3>3. CASE Mark(p)
      BY <2>1, <3>3 DEF Mark, RulesKept
    <3>4. CASE Clear(p)
      <4>1. rules' = rules /\ attempt' = attempt
        BY <3>4 DEF Clear
      <4>2. \A q \in Processes : pc[q] # "mark"
        BY <1>1, <1>5, <3>4, Alone DEF Inside, Clear
      <4> QED
        BY <2>1, <4>1, <4>2 DEF RulesKept
    <3> QED
      BY <3>1, <3>2, <3>3, <3>4
  <2> QED
    BY <1>1, <1>3, <1>5, <2>2 DEF RulesKept
<1> QED
  BY <1>1, <1>4, <1>5 DEF Kept

LEMMA KeptFaults ==
  ASSUME IInv, Kept, NEW p \in Processes, Crash(p) \/ FillFails(p) \/ WriteFails(p)
  PROVE  Kept'
<1>0. TypeOK
  BY DEF IInv
<1>1. UNCHANGED <<sessions, attempt, rules, robbed>>
  BY DEF Crash, FillFails, WriteFails, files
<1>2. ASSUME NEW q \in Processes PROVE todo'[q] = todo[q] \/ todo'[q] = Nothing
  BY <1>0 DEF Crash, FillFails, WriteFails, TypeOK
<1>3. torn' = (IF pc[p] = "mark" THEN torn + 1 ELSE torn)
  BY DEF Crash, FillFails, WriteFails
<1>4. \A q \in Processes : q # p => pc'[q] = pc[q]
  <2>1. \E there : pc' = [pc EXCEPT ![p] = there]
    BY DEF Crash, FillFails, WriteFails, Goto
  <2> QED
    BY <1>0, <2>1 DEF TypeOK
<1>5. ASSUME ~robbed PROVE SessionsKept'
  BY <1>1, <1>2, <1>5 DEF Kept, SessionsKept, Nothing
<1>6. ASSUME ~robbed PROVE RulesKept'
  <2>1. RulesKept /\ rules \in Nat /\ torn \in Nat
    BY <1>0, <1>6 DEF Kept, TypeOK
  <2>2. \A q \in Processes :
          todo'[q].file = "rules" => attempt = "open" /\ rules <= torn /\ todo'[q].value = rules + 1
    BY <1>2, <2>1 DEF RulesKept, Nothing
  <2>3. CASE pc[p] = "mark"
    BY <1>1, <1>3, <2>1, <2>2, <2>3 DEF RulesKept
  <2>4. CASE pc[p] # "mark"
    BY <1>1, <1>3, <1>4, <2>1, <2>2, <2>4 DEF RulesKept
  <2> QED
    BY <2>3, <2>4
<1> QED
  BY <1>1, <1>5, <1>6 DEF Kept

LEMMA KeptStep == IInv /\ Kept /\ [Next]_vars => Kept'
<1> SUFFICES ASSUME IInv, Kept, [Next]_vars PROVE Kept'
  OBVIOUS
<1>1. CASE UNCHANGED vars
  BY <1>1 DEF vars, files, Kept, SessionsKept, RulesKept
<1>2. CASE Next
  BY <1>2, KeptLock, KeptRead, KeptWrite, KeptFaults DEF Next, Proceed
<1> QED
  BY <1>1, <1>2

LEMMA KeptAlways == Spec => []Kept
  BY KeptInit, KeptStep, Invariant, PTL DEF Spec

\* For any number of programs, an attempt becomes a rule once, and once more for
\* each conversion interrupted between the rule and the mark, unless a lock was
\* lost.
THEOREM Once == Spec => []OneRulePerAttempt
<1>1. Kept => OneRulePerAttempt
  BY DEF Kept, RulesKept, OneRulePerAttempt
<1> QED
  BY <1>1, KeptAlways, PTL

\* For any number of programs and sessions, no write of the sessions' file brings
\* an ended session back or takes one away, unless a lock was lost.
THEOREM Ended == Spec => EndedStaysEnded
<1> DEFINE Stays ==
      robbed
      \/ \A s \in Sessions :
           /\ sessions[s] = "ended" => sessions'[s] = "ended"
           /\ sessions[s] # "absent" => sessions'[s] # "absent"
<1>1. ASSUME IInv, Kept, [Next]_vars PROVE [Stays]_vars
  <2> SUFFICES ASSUME ~robbed, sessions' # sessions, NEW s \in Sessions
               PROVE  /\ sessions[s] = "ended" => sessions'[s] = "ended"
                      /\ sessions[s] # "absent" => sessions'[s] # "absent"
    OBVIOUS
  <2>1. PICK p \in Processes : Write(p)
    BY <1>1 DEF vars, files, Next, Proceed, Call, Acquire, Fill, Judge, Reclaim, Wait, Read,
                Refuse, Mark, Clear, Release, Crash, FillFails, WriteFails
  <2>2. SessionSuccessor(sessions, sessions')
    BY <1>1, <2>1 DEF Kept, SessionsKept, Write
  <2>3. PICK t \in Sessions, state \in {"open", "ended"} :
          sessions[t] # "ended" /\ sessions' = [sessions EXCEPT ![t] = state]
    BY <2>2 DEF SessionSuccessor
  <2>4. sessions \in [Sessions -> SessionStates]
    BY <1>1 DEF IInv, TypeOK
  <2> QED
    BY <2>3, <2>4
<1> QED
  BY <1>1, Invariant, KeptAlways, PTL DEF Spec, EndedStaysEnded
=============================================================================
