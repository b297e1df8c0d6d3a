------------------------ MODULE TransitionLock_proofs ------------------------
(***************************************************************************)
(* For any number of processes and every fault of TransitionLock: the type *)
(* invariant, and in which ways only exclusion can be lost.                *)
(*                                                                         *)
(* The inductive argument: as long as no live owner's file was taken, a    *)
(* process that created its file finds it at the path, every file in       *)
(* quarantine is stale for good, and so nothing is ever moved back.  And   *)
(* as long as live owners' files were only taken with their record in      *)
(* them, such a file is at the path or in somebody's quarantine, where the *)
(* second look spares it.                                                  *)
(***************************************************************************)
EXTENDS TransitionLock, TLAPS

Inside == {"fill", "hold", "remove"}

Untaken ==
  taken = {} =>
    /\ \A p \in Processes : pc[p] \in Inside /\ Own(p) \notin lapsed => at = Own(p)
    /\ \A p \in Processes : moved[p] # NoFile => moved[p] \in lapsed
    /\ \A p \in Processes : pc[p] # "restore"

Restored ==
  taken \subseteq {"live"} =>
    /\ \A p \in Processes : pc[p] \in Inside /\ Own(p) \notin lapsed =>
         at = Own(p) \/ \E r \in Processes : moved[r] = Own(p)
    /\ \A r \in Processes : moved[r] \in lapsed \cup {NoFile} \/
         (moved[r] \in written /\ pc[r] # "discard")

IInv == TypeOK /\ Untaken /\ Restored

-----------------------------------------------------------------------------
(* Files                                                                   *)

\* No attempt's file is the absent one, and attempts of two processes differ.
LEMMA OwnFacts ==
  ASSUME TypeOK, NEW p \in Processes
  PROVE  /\ Own(p) \in Files /\ Own(p) # NoFile
         /\ \A q \in Processes : Own(p) = Own(q) => p = q
  BY ProcessesAssumption DEF Own, Files, NoFile, TypeOK

\* The absent file is not a file.
LEMMA NoFileFacts == NoFile \notin Files
  BY ProcessesAssumption DEF Files, NoFile

\* What is in use stays judged as it was when a new attempt forgets the rest.
LEMMA InUseFacts ==
  ASSUME TypeOK, NEW p \in Processes
  PROVE  moved[p] \in InUse /\ (pc[p] # "idle" => Own(p) \in InUse)
  BY DEF InUse

\* Only the process that moves changes its place.
LEMMA GotoFacts ==
  ASSUME TypeOK, NEW p \in Processes, NEW there \in Pcs, Goto(p, there)
  PROVE  /\ pc' \in [Processes -> Pcs]
         /\ pc'[p] = there
         /\ \A q \in Processes : q # p => pc'[q] = pc[q]
  BY DEF Goto, TypeOK

\* A history flag only says more.
LEMMA LoseFacts ==
  ASSUME TypeOK, NEW f, NEW how \in Losses
  PROVE  /\ Lose(f, how) \subseteq Losses
         /\ taken \subseteq Lose(f, how)
         /\ Lose(f, how) = {} => f \in lapsed \cup {NoFile}
         /\ Lose(f, how) \subseteq {"live"} => how = "live" \/ f \in lapsed \cup {NoFile}
  BY DEF Lose, TypeOK

\* A file left by an earlier boot is stale, and nothing is in quarantine.
LEMMA InvInit == Init => IInv
<1> SUFFICES ASSUME Init PROVE IInv
  OBVIOUS
<1>1. TypeOK
  BY BoundAssumption, AttemptsAssumption DEF Init, TypeOK, Pcs, Files
<1>2. Untaken /\ Restored
  BY DEF Init, Untaken, Restored, Inside
<1> QED
  BY <1>1, <1>2 DEF IInv

-----------------------------------------------------------------------------
(* One lemma per group of actions                                          *)

\* A new attempt creates its file only where there is none, and forgets only
\* files that nobody uses.
LEMMA InvTry ==
  ASSUME IInv, NEW p \in Processes, Try(p)
  PROVE  IInv'
<1> DEFINE f(id) == [by |-> p, id |-> id]
<1>0. TypeOK /\ pc[p] = "idle"
  BY DEF IInv, Try
<1>1. PICK id \in Ids : /\ f(id) \in Attempts \ InUse
                        /\ own' = [own EXCEPT ![p] = id]
                        /\ Create(p, f(id), "judge")
  BY DEF Try
<1>2. /\ UNCHANGED <<moved, budget, taken>>
      /\ written' = written \cap InUse /\ lapsed' = lapsed \cap InUse
  BY DEF Try
<1>3. Own(p)' = f(id) /\ \A q \in Processes : q # p => Own(q)' = Own(q)
  BY <1>0, <1>1 DEF Own, TypeOK
<1>4. /\ pc'[p] \in {"fill", "judge"} /\ \A q \in Processes : q # p => pc'[q] = pc[q]
      /\ pc' \in [Processes -> Pcs]
  BY <1>0, <1>1, GotoFacts DEF Create, Pcs
<1>5. \/ at = NoFile /\ at' = f(id) /\ pc'[p] = "fill"
      \/ at # NoFile /\ at' = at /\ pc'[p] = "judge"
  BY <1>0, <1>1, GotoFacts DEF Create, Pcs
<1>6. TypeOK'
  <2>1. at' \in Files \cup {NoFile} /\ own' \in [Processes -> Ids]
    BY <1>0, <1>1, <1>5 DEF TypeOK, Files
  <2>2. \A q \in Processes : moved'[q] # NoFile <=> pc'[q] \in {"recheck", "restore", "discard"}
    BY <1>0, <1>2, <1>4 DEF TypeOK
  <2> QED
    BY <1>0, <1>2, <1>4, <2>1, <2>2 DEF TypeOK
<1>7. Untaken'
  <2> SUFFICES ASSUME taken = {}
               PROVE  /\ \A q \in Processes : pc'[q] \in Inside /\ Own(q)' \notin lapsed'
                                                => at' = Own(q)'
                      /\ \A q \in Processes : moved'[q] # NoFile => moved'[q] \in lapsed'
                      /\ \A q \in Processes : pc'[q] # "restore"
    BY <1>2 DEF Untaken
  <2>1. \A q \in Processes : q # p /\ pc'[q] \in Inside /\ Own(q)' \notin lapsed' => at' = Own(q)'
    <3> SUFFICES ASSUME NEW q \in Processes, q # p, pc[q] \in Inside, Own(q) \notin lapsed'
                 PROVE  at' = Own(q)
      BY <1>3, <1>4
    <3>1. Own(q) \in InUse
      BY <1>0, InUseFacts DEF Inside
    <3>2. at = Own(q) /\ Own(q) # NoFile
      BY <1>0, <1>2, <3>1, OwnFacts DEF IInv, Untaken
    <3> QED
      BY <1>5, <3>2
  <2>2. pc'[p] \in Inside => at' = Own(p)'
    BY <1>3, <1>5 DEF Inside
  <2>3. \A q \in Processes : moved'[q] # NoFile => moved'[q] \in lapsed'
    BY <1>0, <1>2, InUseFacts DEF IInv, Untaken
  <2>4. \A q \in Processes : pc'[q] # "restore"
    BY <1>4 DEF IInv, Untaken
  <2> QED
    BY <2>1, <2>2, <2>3, <2>4
<1>8. Restored'
  <2> SUFFICES ASSUME taken \subseteq {"live"} PROVE Restored'
    BY <1>2 DEF Restored
  <2>1. ASSUME NEW q \in Processes, q # p, pc'[q] \in Inside, Own(q)' \notin lapsed'
        PROVE  at' = Own(q) \/ \E r \in Processes : moved[r] = Own(q)
    <3>1. pc[q] \in Inside /\ Own(q) \notin lapsed' /\ Own(q) \in InUse
      BY <1>0, <1>3, <1>4, <2>1, InUseFacts DEF Inside
    <3>2. Own(q) \notin lapsed /\ Own(q) # NoFile
      BY <1>0, <1>2, <3>1, OwnFacts
    <3> QED
      BY <1>5, <3>1, <3>2 DEF IInv, Restored
  <2>2. pc'[p] \in Inside => at' = Own(p)'
    BY <1>3, <1>5 DEF Inside
  <2>3. \A r \in Processes : moved[r] \in lapsed' \cup {NoFile} \/
          (moved[r] \in written' /\ pc'[r] # "discard")
    BY <1>0, <1>2, <1>4, InUseFacts DEF IInv, Restored
  <2> QED
    BY <1>2, <1>3, <2>1, <2>2, <2>3 DEF Restored
<1> QED
  BY <1>6, <1>7, <1>8 DEF IInv

\* Steps that move nothing: filling, judging, judging again, deciding to release.
LEMMA InvLook ==
  ASSUME IInv, NEW p \in Processes, Fill(p) \/ Judge(p) \/ Recheck(p) \/ Release(p)
  PROVE  IInv'
<1>0. TypeOK /\ Own(p) \in Files
  BY OwnFacts DEF IInv
<1>1. /\ UNCHANGED <<at, moved, lapsed, own, budget, taken>>
      /\ written \subseteq written' /\ written' \subseteq Files
  BY <1>0 DEF Fill, Judge, Recheck, Release, TypeOK
<1>2. PICK there \in Pcs :
        /\ Goto(p, there)
        /\ there \in Inside => pc[p] \in Inside
        /\ there \in {"recheck", "restore", "discard"} <=> pc[p] = "recheck"
        /\ pc[p] # "restore" /\ pc[p] # "discard"
        /\ there = "restore" => moved[p] \notin lapsed /\ pc[p] = "recheck"
        /\ there = "discard" => moved[p] \in lapsed \/ moved[p] \notin written
  <2>1. CASE Fill(p)
    BY <2>1 DEF Fill, Pcs, Inside
  <2>2. CASE Judge(p)
    BY <2>2 DEF Judge, Pcs, Inside
  <2>3. CASE Recheck(p)
    BY <2>3 DEF Recheck, Pcs, Inside, Stale
  <2>4. CASE Release(p)
    BY <2>4 DEF Release, Pcs, Inside
  <2> QED
    BY <2>1, <2>2, <2>3, <2>4
<1>3. /\ pc' \in [Processes -> Pcs] /\ pc'[p] = there
      /\ \A q \in Processes : q # p => pc'[q] = pc[q]
  BY <1>0, <1>2, GotoFacts
<1>4. TypeOK'
  BY <1>0, <1>1, <1>2, <1>3 DEF TypeOK
<1>5. Untaken'
  <2>1. \A q \in Processes : Own(q)' = Own(q)
    BY <1>1 DEF Own
  <2>2. taken = {} => there # "restore"
    BY <1>0, <1>2 DEF IInv, Untaken, TypeOK
  <2> QED
    BY <1>1, <1>2, <1>3, <2>1, <2>2 DEF IInv, Untaken
<1>6. Restored'
  <2>1. \A q \in Processes : Own(q)' = Own(q)
    BY <1>1 DEF Own
  <2>2. taken \subseteq {"live"} => there # "discard" \/ moved[p] \in lapsed \cup {NoFile}
    BY <1>2 DEF IInv, Restored
  <2> QED
    BY <1>1, <1>2, <1>3, <2>1, <2>2 DEF IInv, Restored
<1> QED
  BY <1>4, <1>5, <1>6 DEF IInv

\* Steps that rename or remove what is at the path, and the second create.
LEMMA InvMove ==
  ASSUME IInv, NEW p \in Processes, Move(p) \/ Restore(p) \/ Discard(p) \/ Recreate(p) \/ Remove(p)
  PROVE  IInv'
<1>0. TypeOK /\ Own(p) \in Files /\ Own(p) # NoFile
  BY OwnFacts DEF IInv
<1>1. UNCHANGED <<written, lapsed, own, budget>>
  BY DEF Move, Restore, Discard, Recreate, Remove
<1>2. \A q \in Processes : Own(q)' = Own(q)
  BY <1>1 DEF Own
<1>3. CASE Move(p)
  <2> DEFINE how == IF at \in written THEN "live" ELSE "empty"
  <2>0. how \in Losses
    BY DEF Losses
  <2>1. /\ moved' = [moved EXCEPT ![p] = at] /\ at' = NoFile /\ taken' = Lose(at, how)
        /\ pc' \in [Processes -> Pcs]
        /\ pc'[p] = IF at = NoFile THEN "recreate" ELSE "recheck"
        /\ \A q \in Processes : q # p => pc'[q] = pc[q]
    BY <1>0, <1>3, GotoFacts DEF Move, Pcs
  <2> HIDE DEF how
  <2>2. TypeOK'
    BY <1>0, <1>1, <2>0, <2>1, LoseFacts DEF TypeOK
  <2>3. Untaken'
    <3> SUFFICES ASSUME taken' = {} PROVE Untaken'
      BY DEF Untaken
    <3>1. taken = {} /\ at \in lapsed \cup {NoFile}
      BY <1>0, <2>0, <2>1, LoseFacts
    <3>2. \A q \in Processes : pc[q] \in Inside => Own(q) \in lapsed
      BY <1>0, <3>1, OwnFacts DEF IInv, Untaken
    <3> QED
      BY <1>0, <1>1, <1>2, <2>1, <3>1, <3>2 DEF IInv, Untaken, Inside, TypeOK
  <2>4. Restored'
    <3> SUFFICES ASSUME taken' \subseteq {"live"} PROVE Restored'
      BY DEF Restored
    <3>1. taken \subseteq {"live"} /\ (at \in written \/ at \in lapsed \cup {NoFile})
      BY <1>0, <2>0, <2>1, LoseFacts DEF how
    <3>2. moved[p] = NoFile
      BY <1>0, <1>3 DEF Move, TypeOK
    <3>3. ASSUME NEW q \in Processes, pc'[q] \in Inside, Own(q) \notin lapsed
          PROVE  \E r \in Processes : moved'[r] = Own(q)
      <4>1. pc[q] \in Inside /\ Own(q) # NoFile
        BY <1>0, <2>1, <3>3, OwnFacts DEF Inside
      <4>2. CASE at = Own(q)
        BY <1>0, <2>1, <4>2 DEF TypeOK
      <4>3. ASSUME NEW r \in Processes, moved[r] = Own(q) PROVE moved'[r] = Own(q)
        BY <1>0, <2>1, <3>2, <4>1, <4>3 DEF TypeOK
      <4> QED
        BY <3>1, <3>3, <4>1, <4>2, <4>3 DEF IInv, Restored
    <3>4. \A r \in Processes : moved'[r] \in lapsed \cup {NoFile} \/
            (moved'[r] \in written /\ pc'[r] # "discard")
      BY <1>0, <2>1, <3>1 DEF IInv, Restored, TypeOK
    <3> QED
      BY <1>1, <1>2, <3>3, <3>4 DEF Restored
  <2> QED
    BY <2>2, <2>3, <2>4 DEF IInv
<1>4. CASE Restore(p)
  <2>1. /\ moved' = [moved EXCEPT ![p] = NoFile] /\ at' = moved[p]
        /\ taken \subseteq taken' /\ taken' \subseteq Losses
        /\ taken' \subseteq {"live"} => at \in lapsed \cup {NoFile}
        /\ pc' \in [Processes -> Pcs] /\ pc'[p] = "idle" /\ pc[p] = "restore"
        /\ \A q \in Processes : q # p => pc'[q] = pc[q]
    <3>1. "covered" \in Losses
      BY DEF Losses
    <3> QED
      BY <1>0, <1>4, <3>1, LoseFacts, GotoFacts DEF Restore, Pcs, TypeOK
  <2>2. TypeOK'
    BY <1>0, <1>1, <2>1 DEF TypeOK
  <2>3. Untaken'
    BY <2>1 DEF IInv, Untaken
  <2>4. Restored'
    <3> SUFFICES ASSUME taken' \subseteq {"live"} PROVE Restored'
      BY DEF Restored
    <3>1. taken \subseteq {"live"} /\ at \in lapsed \cup {NoFile}
      BY <2>1
    <3>2. ASSUME NEW q \in Processes, pc'[q] \in Inside, Own(q) \notin lapsed
          PROVE  at' = Own(q) \/ \E r \in Processes : moved'[r] = Own(q)
      <4>1. pc[q] \in Inside /\ Own(q) # NoFile
        BY <1>0, <2>1, <3>2, OwnFacts DEF Inside
      <4>2. PICK r \in Processes : moved[r] = Own(q)
        BY <3>1, <3>2, <4>1 DEF IInv, Restored
      <4>3. r = p \/ moved'[r] = moved[r]
        BY <1>0, <2>1 DEF TypeOK
      <4> QED
        BY <2>1, <4>2, <4>3
    <3>3. \A r \in Processes : moved'[r] \in lapsed \cup {NoFile} \/
            (moved'[r] \in written /\ pc'[r] # "discard")
      BY <1>0, <2>1, <3>1 DEF IInv, Restored, TypeOK
    <3> QED
      BY <1>1, <1>2, <3>2, <3>3 DEF Restored
  <2> QED
    BY <2>2, <2>3, <2>4 DEF IInv
<1>5. CASE Discard(p)
  <2>1. /\ moved' = [moved EXCEPT ![p] = NoFile] /\ at' = at /\ taken' = taken
        /\ pc' \in [Processes -> Pcs] /\ pc'[p] = "recreate" /\ pc[p] = "discard"
        /\ \A q \in Processes : q # p => pc'[q] = pc[q]
    BY <1>0, <1>5, GotoFacts DEF Discard, Pcs
  <2>2. TypeOK'
    BY <1>0, <1>1, <2>1 DEF TypeOK
  <2>3. Untaken'
    BY <1>0, <1>1, <1>2, <2>1 DEF IInv, Untaken, Inside, TypeOK
  <2>4. Restored'
    <3> SUFFICES ASSUME taken \subseteq {"live"} PROVE Restored'
      BY <2>1 DEF Restored
    <3>1. ASSUME NEW q \in Processes, pc'[q] \in Inside, Own(q) \notin lapsed
          PROVE  at = Own(q) \/ \E r \in Processes : moved'[r] = Own(q)
      <4>1. pc[q] \in Inside /\ Own(q) # NoFile
        BY <1>0, <2>1, <3>1, OwnFacts DEF Inside
      <4>2. ASSUME NEW r \in Processes, moved[r] = Own(q) PROVE moved'[r] = Own(q)
        BY <1>0, <2>1, <3>1, <4>1, <4>2 DEF IInv, Restored, TypeOK
      <4> QED
        BY <3>1, <4>1, <4>2 DEF IInv, Restored
    <3>2. \A r \in Processes : moved'[r] \in lapsed \cup {NoFile} \/
            (moved'[r] \in written /\ pc'[r] # "discard")
      BY <1>0, <2>1 DEF IInv, Restored, TypeOK
    <3> QED
      BY <1>1, <1>2, <2>1, <3>1, <3>2 DEF Restored
  <2> QED
    BY <2>2, <2>3, <2>4 DEF IInv
<1>6. CASE Recreate(p)
  <2>1. /\ moved' = moved /\ taken' = taken /\ pc[p] = "recreate"
        /\ pc' \in [Processes -> Pcs]
        /\ \/ at = NoFile /\ at' = Own(p) /\ pc'[p] = "fill"
           \/ at # NoFile /\ at' = at /\ pc'[p] = "idle"
        /\ \A q \in Processes : q # p => pc'[q] = pc[q]
    BY <1>0, <1>6, GotoFacts DEF Recreate, Create, Pcs
  <2>2. TypeOK'
    BY <1>0, <1>1, <2>1 DEF TypeOK
  <2>3. Untaken'
    <3> SUFFICES ASSUME taken = {} PROVE Untaken'
      BY <2>1 DEF Untaken
    <3>1. at = NoFile => \A q \in Processes : pc[q] \in Inside => Own(q) \in lapsed
      BY <1>0, OwnFacts DEF IInv, Untaken
    <3> QED
      BY <1>1, <1>2, <2>1, <3>1 DEF IInv, Untaken, Inside
  <2>4. Restored'
    <3> SUFFICES ASSUME taken \subseteq {"live"} PROVE Restored'
      BY <2>1 DEF Restored
    <3>1. ASSUME NEW q \in Processes, pc'[q] \in Inside, Own(q) \notin lapsed
          PROVE  at' = Own(q) \/ \E r \in Processes : moved[r] = Own(q)
      <4>1. CASE q = p
        BY <2>1, <3>1, <4>1 DEF Inside
      <4>2. CASE q # p
        <5>1. pc[q] \in Inside /\ Own(q) # NoFile
          BY <1>0, <2>1, <3>1, <4>2, OwnFacts
        <5> QED
          BY <2>1, <3>1, <5>1 DEF IInv, Restored
      <4> QED
        BY <4>1, <4>2
    <3>2. \A r \in Processes : moved[r] \in lapsed \cup {NoFile} \/
            (moved[r] \in written /\ pc'[r] # "discard")
      BY <2>1 DEF IInv, Restored
    <3> QED
      BY <1>1, <1>2, <2>1, <3>1, <3>2 DEF Restored
  <2> QED
    BY <2>2, <2>3, <2>4 DEF IInv
<1>7. CASE Remove(p)
  <2>1. /\ moved' = moved /\ at' = NoFile /\ pc[p] = "remove"
        /\ taken' = IF at = Own(p) THEN taken ELSE Lose(at, "removed")
        /\ pc' \in [Processes -> Pcs] /\ pc'[p] = "idle"
        /\ \A q \in Processes : q # p => pc'[q] = pc[q]
    BY <1>0, <1>7, GotoFacts DEF Remove, Pcs
  <2>0. "removed" \in Losses
    BY DEF Losses
  <2>2. TypeOK'
    BY <1>0, <1>1, <2>0, <2>1, LoseFacts DEF TypeOK
  <2>3. Untaken'
    <3> SUFFICES ASSUME taken' = {} PROVE Untaken'
      BY DEF Untaken
    <3>1. taken = {} /\ (at = Own(p) \/ at \in lapsed \cup {NoFile})
      BY <1>0, <2>0, <2>1, LoseFacts
    <3>2. \A q \in Processes : q # p /\ pc[q] \in Inside => Own(q) \in lapsed
      BY <1>0, <3>1, OwnFacts DEF IInv, Untaken
    <3> QED
      BY <1>0, <1>1, <1>2, <2>1, <3>1, <3>2 DEF IInv, Untaken, Inside, TypeOK
  <2>4. Restored'
    <3> SUFFICES ASSUME taken' \subseteq {"live"} PROVE Restored'
      BY DEF Restored
    <3>1. taken \subseteq {"live"} /\ (at = Own(p) \/ at \in lapsed \cup {NoFile})
      BY <1>0, <2>0, <2>1, LoseFacts
    <3>2. ASSUME NEW q \in Processes, pc'[q] \in Inside, Own(q) \notin lapsed
          PROVE  \E r \in Processes : moved[r] = Own(q)
      <4>1. pc[q] \in Inside /\ q # p /\ Own(q) # NoFile /\ Own(q) # Own(p)
        BY <1>0, <2>1, <3>2, OwnFacts DEF Inside
      <4> QED
        BY <3>1, <3>2, <4>1 DEF IInv, Restored
    <3>3. \A r \in Processes : moved[r] \in lapsed \cup {NoFile} \/
            (moved[r] \in written /\ pc'[r] # "discard")
      BY <2>1, <3>1 DEF IInv, Restored
    <3> QED
      BY <1>1, <1>2, <2>1, <3>2, <3>3 DEF Restored
  <2> QED
    BY <2>2, <2>3, <2>4 DEF IInv
<1> QED
  BY <1>3, <1>4, <1>5, <1>6, <1>7

\* Faults and time only make files stale, or end an attempt.
LEMMA InvFaults ==
  ASSUME IInv,
         \/ \E p \in Processes : Crash(p) \/ FillFails(p) \/ Overslept(p)
         \/ LeaseEnds
  PROVE  IInv'
<1>0. TypeOK
  BY DEF IInv
<1>1. ASSUME NEW p \in Processes, Crash(p) PROVE IInv'
  <2>1. /\ moved' = [moved EXCEPT ![p] = NoFile]
        /\ lapsed \subseteq lapsed' /\ lapsed' \subseteq Files
        /\ pc' \in [Processes -> Pcs] /\ pc'[p] = "idle" /\ budget' \in Nat
        /\ UNCHANGED <<at, written, own>>
        /\ taken \subseteq taken' /\ taken' \subseteq Losses
        /\ taken' \subseteq {"live"} => moved[p] \in lapsed \cup {NoFile}
        /\ \A q \in Processes : q # p => pc'[q] = pc[q]
    <3>1. "orphaned" \in Losses
      BY DEF Losses
    <3> QED
      BY <1>0, <1>1, <3>1, LoseFacts, GotoFacts DEF Crash, Fault, Pcs, TypeOK
  <2>2. TypeOK'
    BY <1>0, <2>1 DEF TypeOK
  <2>3. \A q \in Processes : Own(q)' = Own(q)
    BY <2>1 DEF Own
  <2>4. Untaken'
    <3> SUFFICES ASSUME taken = {} PROVE Untaken'
      BY <2>1 DEF Untaken
    <3> QED
      BY <1>0, <2>1, <2>3 DEF IInv, Untaken, Inside, TypeOK
  <2>5. Restored'
    <3> SUFFICES ASSUME taken' \subseteq {"live"} PROVE Restored'
      BY DEF Restored
    <3>1. taken \subseteq {"live"} /\ moved[p] \in lapsed \cup {NoFile}
      BY <2>1
    <3>2. ASSUME NEW q \in Processes, pc'[q] \in Inside, Own(q) \notin lapsed'
          PROVE  at = Own(q) \/ \E r \in Processes : moved'[r] = Own(q)
      <4>1. pc[q] \in Inside /\ Own(q) \notin lapsed /\ Own(q) # NoFile
        BY <1>0, <2>1, <3>2, OwnFacts DEF Inside
      <4>2. ASSUME NEW r \in Processes, moved[r] = Own(q) PROVE moved'[r] = Own(q)
        BY <1>0, <2>1, <3>1, <4>1, <4>2 DEF TypeOK
      <4> QED
        BY <3>1, <4>1, <4>2 DEF IInv, Restored
    <3>3. \A r \in Processes : moved'[r] \in lapsed' \cup {NoFile} \/
            (moved'[r] \in written /\ pc'[r] # "discard")
      BY <1>0, <2>1, <3>1 DEF IInv, Restored, TypeOK
    <3> QED
      BY <2>1, <2>3, <3>2, <3>3 DEF Restored
  <2> QED
    BY <2>2, <2>4, <2>5 DEF IInv
<1>2. ASSUME NEW p \in Processes, FillFails(p) PROVE IInv'
  <2>1. /\ UNCHANGED <<at, moved, written, lapsed, own, taken>>
        /\ pc' \in [Processes -> Pcs] /\ pc'[p] = "idle" /\ budget' \in Nat
        /\ pc[p] = "fill"
        /\ \A q \in Processes : q # p => pc'[q] = pc[q]
    BY <1>0, <1>2, GotoFacts DEF FillFails, Fault, Pcs, TypeOK
  <2>2. TypeOK'
    BY <1>0, <2>1 DEF TypeOK
  <2>3. \A q \in Processes : Own(q)' = Own(q)
    BY <2>1 DEF Own
  <2>4. Untaken'
    BY <2>1, <2>3 DEF IInv, Untaken, Inside
  <2>5. Restored'
    BY <2>1, <2>3 DEF IInv, Restored, Inside
  <2> QED
    BY <2>2, <2>4, <2>5 DEF IInv
<1>3. ASSUME NEW f, Expire(f), budget' \in Nat PROVE IInv'
  <2>1. /\ UNCHANGED <<at, moved, written, pc, own, taken>>
        /\ lapsed \subseteq lapsed' /\ lapsed' \subseteq Files
    BY <1>0, <1>3 DEF Expire, TypeOK
  <2>2. TypeOK'
    BY <1>0, <1>3, <2>1 DEF TypeOK
  <2>3. \A q \in Processes : Own(q)' = Own(q)
    BY <2>1 DEF Own
  <2>4. Untaken'
    BY <2>1, <2>3 DEF IInv, Untaken
  <2>5. Restored'
    BY <2>1, <2>3 DEF IInv, Restored
  <2> QED
    BY <2>2, <2>4, <2>5 DEF IInv
<1>4. ASSUME NEW p \in Processes, Overslept(p) PROVE Expire(Own(p)) /\ budget' \in Nat
  BY <1>0, <1>4 DEF Overslept, Fault, TypeOK
<1>5. LeaseEnds => Expire(at) /\ budget' \in Nat
  BY <1>0 DEF LeaseEnds, TypeOK
<1> QED
  BY <1>1, <1>2, <1>3, <1>4, <1>5

\* Every step keeps the inductive invariant.
LEMMA InvStep == IInv /\ [Next]_vars => IInv'
<1>1. ASSUME IInv, UNCHANGED vars PROVE IInv'
  BY <1>1 DEF vars, IInv, TypeOK, Untaken, Restored, Own
<1> QED
  BY <1>1, InvTry, InvLook, InvMove, InvFaults DEF Next, Step

-----------------------------------------------------------------------------
(* The theorems                                                            *)

\* The variables keep their types, and a process keeps a file in quarantine
\* exactly while it decides about it.
THEOREM TypeCorrect == Spec => []TypeOK
<1>1. IInv => TypeOK
  BY DEF IInv
<1> QED
  BY <1>1, InvInit, InvStep, PTL DEF Spec

\* Two live processes are in the critical section at once only while a third has
\* the file of one of them in quarantine, or after a file was caught empty, covered,
\* orphaned or removed late: having moved a live owner's file is not enough, because
\* the moved file is judged again and put back.  For any number of processes and
\* every fault.
THEOREM ExclusiveButCaught == Spec => []ExclusiveUnlessCaught
<1>1. IInv => ExclusiveUnlessCaught
  <2> SUFFICES ASSUME IInv, NEW p \in Owners, NEW q \in Owners, p # q,
                      taken \subseteq {"live"},
                      \A r \in Processes : moved[r] \notin {Own(p), Own(q)}
               PROVE  FALSE
    BY DEF ExclusiveUnlessCaught
  <2>1. at = Own(p) /\ at = Own(q)
    BY DEF IInv, Restored, Owners, Inside
  <2> QED
    BY <2>1, OwnFacts DEF IInv, Owners
<1> QED
  BY <1>1, InvInit, InvStep, PTL DEF Spec

\* Two live processes are in the critical section at once only after a live
\* owner's file was moved away, removed or covered by another: for any number
\* of processes, with crashes, failing writes and leases that run out.
THEOREM Exclusive == Spec => []ExclusiveUnlessTaken
<1>1. IInv => ExclusiveUnlessTaken
  <2> SUFFICES ASSUME IInv, taken = {}, NEW p \in Owners, NEW q \in Owners PROVE p = q
    BY DEF ExclusiveUnlessTaken
  <2>1. at = Own(p) /\ at = Own(q)
    BY DEF IInv, Untaken, Owners, Inside
  <2> QED
    BY <2>1, OwnFacts DEF IInv, Owners
<1> QED
  BY <1>1, InvInit, InvStep, PTL DEF Spec
=============================================================================
