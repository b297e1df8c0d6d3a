--------------------------- MODULE BrainSync_proofs ---------------------------
(***************************************************************************)
(* What BrainSync publishes, for any number of machines, memories,         *)
(* commands and faults: it implements BrainChain.                          *)
(*                                                                         *)
(* This is not inductive.  A push publishes what it decided on several     *)
(* steps earlier, while others publish and reset; what connects the two    *)
(* moments is that a generation of a chain is published once, so that      *)
(* equal generations of one chain are the same manifest.  History says so. *)
(***************************************************************************)
EXTENDS BrainSync, TLAPS

-----------------------------------------------------------------------------
(* The inductive invariant                                                 *)

\* The live manifest is of the present chain.
Current == chain > 0 /\ (manifest # NoManifest => manifest.chain = chain)

\* A manifest of the past: of an older chain, or an older generation of this
\* one, or the live one.
Past(r) ==
  /\ 0 < r.chain /\ r.chain <= chain
  /\ r.chain = chain =>
       /\ manifest # NoManifest
       /\ r.gen <= manifest.gen
       /\ r.gen = manifest.gen => r = manifest

ReadIsPast(m) == job[m].remote # NoManifest => Past(job[m].remote)

\* Whoever has the live generation for a marker has seen it.
MarkerIsSeen(m) ==
  /\ lastSeen[m].chain <= chain
  /\ lastSeen[m].chain = 0 <=> lastSeen[m].gen = 0
  /\ lastSeen[m].chain = chain =>
       /\ manifest # NoManifest
       /\ lastSeen[m].gen <= manifest.gen
       /\ lastSeen[m].gen = manifest.gen => manifest.object.content \subseteq seen[m]

\* What a push is about to replace was merged, or its marker is of a dead chain.
Cleared(m) ==
  job[m].pc \in {"export", "publish"} =>
    lastSeen[m].chain \notin {0, chain} \/ job[m].remote.object.content \subseteq seen[m]

\* What a push is about to publish, or has published.
DraftIsOwn(m) ==
  /\ job[m].pc \in {"publish", "undo", "settle"} =>
       /\ job[m].mine # NoManifest
       /\ job[m].mine.object.content \subseteq seen[m]
  /\ job[m].pc = "publish" => job[m].mine.gen = job[m].remote.gen + 1
  /\ job[m].pc = "settle" => Past(job[m].mine)

HoldingsAreSeen(m) == \A e \in Entries : brain[m][e] # "unknown" => e \in seen[m]

Sound(m) ==
  /\ ReadIsPast(m) /\ MarkerIsSeen(m) /\ Cleared(m) /\ DraftIsOwn(m) /\ HoldingsAreSeen(m)

History == TypeOK /\ Current /\ \A m \in Machines : Sound(m)

-----------------------------------------------------------------------------
(* Types                                                                   *)

LEMMA IdleType == Idle \in Jobs
  <1>1. 1 \in 1..MaxAttempts
    BY BoundsAssumption
  <1> QED
    BY <1>1 DEF Idle, Jobs, Pcs, NoManifest

LEMMA PcType ==
  ASSUME NEW j \in Jobs, NEW pc \in Pcs
  PROVE  [j EXCEPT !.pc = pc] \in Jobs
  BY DEF Jobs

LEMMA AfterMergeType ==
  ASSUME NEW j \in Jobs
  PROVE  AfterMerge(j) \in Jobs
  BY IdleType DEF AfterMerge, Jobs, Pcs

LEMMA AfterReadType ==
  ASSUME TypeOK, NEW m \in Machines, NEW j \in Jobs
  PROVE  AfterRead(m, j) \in Jobs
  <1> DEFINE read == [j EXCEPT !.remote = manifest]
  <1>1. read \in Jobs /\ [read EXCEPT !.pc = "fetch"] \in Jobs
    BY DEF TypeOK, Jobs, Pcs
  <1>2. AfterMerge(read) \in Jobs
    BY <1>1, AfterMergeType
  <1> HIDE DEF read
  <1>3. AfterRead(m, j) \in {[read EXCEPT !.pc = "fetch"], AfterMerge(read), Idle}
    BY DEF AfterRead, read
  <1> QED
    BY <1>1, <1>2, <1>3, IdleType

\* What a merge brings is of the memories there are.
LEMMA BroughtType ==
  ASSUME NEW m \in Machines, job[m] \in Jobs
  PROVE  Unknown(m, job[m].remote.object.content) \subseteq Entries
  BY DEF Unknown, Jobs, Manifests, Objects, NoManifest, NoObject

LEMMA RetriedType ==
  ASSUME NEW j \in Jobs
  PROVE  /\ Retried(j) \in Jobs
         /\ Retried(j).pc \in {"idle", "read"}
         /\ Retried(j).remote = NoManifest
         /\ Retried(j).pc = "read" =>
              /\ Retried(j).attempt = j.attempt + 1
              /\ Retried(j).op = j.op /\ Retried(j).pushing = j.pushing
              /\ Retried(j).imported = j.imported /\ Retried(j).overtaken = j.overtaken
  <1>1. CASE j.attempt = MaxAttempts
    <2>1. Retried(j) = Idle
      BY <1>1 DEF Retried
    <2>2. Idle.pc = "idle" /\ Idle.remote = NoManifest
      BY DEF Idle
    <2> QED
      BY <2>1, <2>2, IdleType
  <1>2. CASE j.attempt # MaxAttempts
    <2> DEFINE next == [j EXCEPT !.pc = "read", !.attempt = j.attempt + 1,
                                 !.remote = NoManifest, !.mine = NoManifest]
    <2>1. j.attempt + 1 \in 1..MaxAttempts
      BY <1>2, BoundsAssumption DEF Jobs
    <2>2. Retried(j) = next
      BY <1>2 DEF Retried, NextRound
    <2>3. next \in Jobs
      BY <2>1 DEF Jobs, Pcs
    <2>4. /\ next.pc = "read" /\ next.remote = NoManifest /\ next.attempt = j.attempt + 1
          /\ next.op = j.op /\ next.pushing = j.pushing
          /\ next.imported = j.imported /\ next.overtaken = j.overtaken
      BY DEF Jobs
    <2> HIDE DEF next
    <2> QED
      BY <2>2, <2>3, <2>4
  <1> QED
    BY <1>1, <1>2

LEMMA JobType ==
  ASSUME TypeOK, NEW m \in Machines, NEW to \in Jobs, ToJob(m, to)
  PROVE  /\ job' \in [Machines -> Jobs]
         /\ job'[m] = to
         /\ \A n \in Machines \ {m} : job'[n] = job[n]
  BY DEF TypeOK, ToJob

\* What an overtaken job keeps.
LEMMA OvertakenShape ==
  ASSUME NEW j \in Jobs, NEW k,
         k = [j EXCEPT !.overtaken = IF j.pushing THEN @ + 1 ELSE @]
  PROVE  /\ k.pc = j.pc /\ k.remote = j.remote /\ k.mine = j.mine
         /\ k.op = j.op /\ k.pushing = j.pushing /\ k.imported = j.imported
         /\ k.attempt = j.attempt
         /\ k.overtaken = IF j.pushing THEN j.overtaken + 1 ELSE j.overtaken
  BY DEF Jobs

LEMMA OvertakeType ==
  ASSUME TypeOK, NEW m \in Machines, NEW to \in Jobs, Overtake(m, to)
  PROVE  /\ job' \in [Machines -> Jobs]
         /\ job'[m] = to
         /\ \A n \in Machines \ {m} :
              job'[n] = [job[n] EXCEPT !.overtaken = IF job[n].pushing THEN @ + 1 ELSE @]
  <1>1. \A n \in Machines :
          [job[n] EXCEPT !.overtaken = IF job[n].pushing THEN @ + 1 ELSE @] \in Jobs
    <2> SUFFICES ASSUME NEW n \in Machines
                 PROVE  [job[n] EXCEPT !.overtaken = IF job[n].pushing THEN @ + 1 ELSE @]
                          \in Jobs
      OBVIOUS
    <2>1. job[n] \in Jobs
      BY DEF TypeOK
    <2>2. (IF job[n].pushing THEN job[n].overtaken + 1 ELSE job[n].overtaken) \in Nat
      BY <2>1 DEF Jobs
    <2> QED
      BY <2>1, <2>2 DEF Jobs
  <1> QED
    BY <1>1 DEF Overtake

LEMMA SlipType ==
  ASSUME TypeOK, NEW slip, Slip(slip)
  PROVE  budget' \in [commands : Nat, edits : Nat, faults : Nat]
  BY DEF TypeOK, Slip, Fault

LEMMA MarkedType ==
  ASSUME TypeOK, NEW m \in Machines, NEW gen \in Nat, NEW c \in Nat, NEW slip,
         Marked(m, gen, c, slip)
  PROVE  lastSeen' \in [Machines -> [gen : Nat, chain : Nat]]
  BY DEF TypeOK, Marked

LEMMA ImportedType ==
  ASSUME TypeOK, NEW m \in Machines, NEW new \in SUBSET Entries, Imported(m, new)
  PROVE  /\ brain' \in [Machines -> [Entries -> Standings]]
         /\ seen' \in [Machines -> SUBSET Entries]
  BY DEF TypeOK, Imported, Standings

LEMMA TypeInit == Init => TypeOK
  <1> SUFFICES ASSUME Init PROVE TypeOK
    OBVIOUS
  <1>1. budget \in [commands : Nat, edits : Nat, faults : Nat]
    BY BoundsAssumption DEF Init
  <1>2. job \in [Machines -> Jobs]
    BY IdleType DEF Init
  <1>3. brain \in [Machines -> [Entries -> Standings]]
    BY DEF Init, Standings
  <1>4. lastSeen \in [Machines -> [gen : Nat, chain : Nat]] /\ seen \in [Machines -> SUBSET Entries]
    BY DEF Init
  <1> QED
    BY <1>1, <1>2, <1>3, <1>4 DEF Init, TypeOK

\* The steps of a command up to the export.
LEMMA TypeReading ==
  ASSUME TypeOK, NEW m \in Machines,
         (\E op \in Operations : Invoke(m, op)) \/ Read(m) \/ Merge(m) \/ Missing(m) \/ Guard(m)
  PROVE  TypeOK'
  <1> DEFINE j == job[m]
  <1>j. j \in Jobs
    BY DEF TypeOK
  <1> HIDE DEF j
  <1>1. ASSUME NEW op \in Operations, Invoke(m, op)
        PROVE  TypeOK'
    <2> DEFINE to == [Idle EXCEPT !.pc = IF op = "reset" THEN "delete" ELSE "read",
                                  !.op = op, !.pushing = (op = "force")]
    <2>1. op \in {"pull", "push", "force", "reset"}
      BY OperationsAssumption
    <2>2. to \in Jobs
      BY <2>1, IdleType DEF Jobs, Pcs
    <2>3. ToJob(m, to)
      BY <1>1 DEF Invoke
    <2>4. job' \in [Machines -> Jobs]
      BY <2>2, <2>3, JobType
    <2>5. budget' \in [commands : Nat, edits : Nat, faults : Nat]
      <3>1. budget.commands > 0 /\ budget' = [budget EXCEPT !.commands = budget.commands - 1]
        BY <1>1 DEF Invoke
      <3>2. budget \in [commands : Nat, edits : Nat, faults : Nat]
        BY DEF TypeOK
      <3>3. budget.commands - 1 \in Nat
        BY <3>1, <3>2
      <3> QED
        BY <3>1, <3>2, <3>3
    <2> QED
      BY <1>1, <2>4, <2>5 DEF Invoke, TypeOK, storeVars, localVars
  <1>2. CASE Read(m)
    <2>1. AfterRead(m, j) \in Jobs
      BY <1>j, AfterReadType
    <2>2. job' \in [Machines -> Jobs]
      BY <1>2, <2>1, JobType DEF Read, j
    <2> QED
      BY <1>2, <2>2 DEF Read, TypeOK, storeVars, localVars, ownVars
  <1>3. CASE Merge(m)
    <2>1. PICK slip \in {"none", "contended"} :
            /\ Slip(slip)
            /\ Imported(m, j.remote.object.content)
            /\ Marked(m, j.remote.gen, j.remote.chain, slip)
      BY <1>3 DEF Merge, j
    <2>2. j.remote \in Manifests \cup {NoManifest}
      BY <1>j DEF Jobs
    <2>3. j.remote.object.content \in SUBSET Entries /\ j.remote.gen \in Nat /\ j.remote.chain \in Nat
      BY <2>2 DEF Manifests, NoManifest, Objects, NoObject
    <2> DEFINE brought == Unknown(m, j.remote.object.content)
               next == [j EXCEPT !.imported = j.imported \cup brought]
    <2>4. ToJob(m, AfterMerge(next))
      BY <1>3, <1>j DEF Merge, j
    <2>a. brought \subseteq Entries
      BY <1>j, BroughtType DEF j
    <2> HIDE DEF brought
    <2>b. next \in Jobs
      BY <1>j, <2>a DEF Jobs
    <2> HIDE DEF next
    <2>5. job' \in [Machines -> Jobs]
      BY <2>4, <2>b, AfterMergeType, JobType
    <2>6. budget' \in [commands : Nat, edits : Nat, faults : Nat]
      BY <2>1, SlipType
    <2>7. lastSeen' \in [Machines -> [gen : Nat, chain : Nat]]
      BY <2>1, <2>3, MarkedType
    <2>8. /\ brain' \in [Machines -> [Entries -> Standings]]
          /\ seen' \in [Machines -> SUBSET Entries]
      BY <2>1, <2>3, ImportedType
    <2> QED
      BY <1>3, <2>5, <2>6, <2>7, <2>8 DEF Merge, TypeOK, storeVars
  <1>4. CASE Missing(m)
    <2>1. (IF j.pushing THEN Retried(j) ELSE Idle) \in Jobs
      BY <1>j, RetriedType, IdleType
    <2>2. job' \in [Machines -> Jobs]
      BY <1>4, <2>1, JobType DEF Missing, j
    <2> QED
      BY <1>4, <2>2 DEF Missing, TypeOK, storeVars, localVars, ownVars
  <1>5. CASE Guard(m)
    <2> DEFINE onward == [j EXCEPT !.pushing = TRUE, !.imported = {}]
    <2>1. onward \in Jobs
      BY <1>j DEF Jobs
    <2>2. AfterRead(m, onward) \in Jobs
      BY <2>1, AfterReadType
    <2>3. job' \in [Machines -> Jobs]
      BY <1>5, <2>2, IdleType, JobType DEF Guard, j
    <2> QED
      BY <1>5, <2>3 DEF Guard, TypeOK, storeVars, localVars, ownVars
  <1> QED
    BY <1>1, <1>2, <1>3, <1>4, <1>5

\* The publishing put, whether its answer arrives or not.
LEMMA ReplaceType ==
  ASSUME TypeOK, NEW m \in Machines, NEW pc \in Pcs, job[m].mine # NoManifest, Replace(m, pc)
  PROVE  /\ manifest' = [job[m].mine EXCEPT !.chain = chain]
         /\ manifest' \in Manifests
         /\ job' \in [Machines -> Jobs]
         /\ job'[m] = [job[m] EXCEPT !.pc = pc, !.mine = manifest']
         /\ \A n \in Machines \ {m} :
              job'[n] = [job[n] EXCEPT !.overtaken = IF job[n].pushing THEN @ + 1 ELSE @]
  <1>1. job[m] \in Jobs
    BY DEF TypeOK
  <1>2. job[m].mine \in Manifests
    BY <1>1 DEF Jobs
  <1>3. manifest' = [job[m].mine EXCEPT !.chain = chain]
    BY DEF Replace
  <1>4. manifest' \in Manifests
    BY <1>2, <1>3 DEF TypeOK, Manifests
  <1>5. [job[m] EXCEPT !.pc = pc, !.mine = manifest'] \in Jobs
    BY <1>1, <1>4 DEF Jobs
  <1>6. Overtake(m, [job[m] EXCEPT !.pc = pc, !.mine = manifest'])
    BY <1>3 DEF Replace
  <1> QED
    BY <1>3, <1>4, <1>5, <1>6, OvertakeType

\* The steps from the export on.  A push that publishes has something to
\* publish; that is part of the invariant, not of the type.
LEMMA TypePublishing ==
  ASSUME TypeOK, NEW m \in Machines,
         job[m].pc = "publish" => job[m].mine # NoManifest,
         Export(m) \/ Publish(m) \/ Resend(m) \/ Conflict(m) \/ Undo(m) \/ Settle(m)
  PROVE  TypeOK'
  <1> DEFINE j == job[m]
  <1>j. j \in Jobs
    BY DEF TypeOK
  <1>k. /\ j.remote \in Manifests \cup {NoManifest} /\ j.mine \in Manifests \cup {NoManifest}
        /\ j.remote.gen \in Nat /\ j.mine.gen \in Nat /\ j.mine.chain \in Nat
    BY <1>j DEF Jobs, Manifests, NoManifest
  <1> HIDE DEF j
  <1>1. CASE Export(m)
    <2> DEFINE bundle == [name |-> named + 1,
                          content |-> {e \in Entries : brain[m][e] = "approved"}]
               next   == [gen |-> j.remote.gen + 1, object |-> bundle, chain |-> chain]
    <2>1. bundle \in Objects /\ next \in Manifests
      BY <1>k DEF TypeOK, Objects, Manifests
    <2>2. [j EXCEPT !.pc = "publish", !.mine = next] \in Jobs
      BY <1>j, <2>1 DEF Jobs, Pcs
    <2>3. objects' = objects \cup {bundle} /\ ToJob(m, [j EXCEPT !.pc = "publish", !.mine = next])
      BY <1>1 DEF Export, j
    <2>4. job' \in [Machines -> Jobs]
      BY <2>2, <2>3, JobType
    <2>5. objects' \subseteq Objects
      BY <2>1, <2>3 DEF TypeOK
    <2>6. named' \in Nat
      BY <1>1 DEF Export, TypeOK
    <2> QED
      BY <1>1, <2>4, <2>5, <2>6 DEF Export, TypeOK, localVars
  <1>2. CASE Publish(m)
    <2>1. manifest' \in Manifests /\ job' \in [Machines -> Jobs]
      BY <1>2, ReplaceType DEF Publish, Pcs
    <2> QED
      BY <1>2, <2>1 DEF Publish, TypeOK, localVars, ownVars
  <1>3. CASE Resend(m)
    <2>1. manifest' \in Manifests /\ job' \in [Machines -> Jobs]
      BY <1>3, ReplaceType DEF Resend, Pcs
    <2>2. budget' \in [commands : Nat, edits : Nat, faults : Nat]
      BY <1>3 DEF Resend, Fault, TypeOK
    <2> QED
      BY <1>3, <2>1, <2>2 DEF Resend, TypeOK, localVars
  <1>4. CASE Conflict(m)
    <2>1. [j EXCEPT !.pc = "undo"] \in Jobs
      BY <1>j DEF Jobs, Pcs
    <2>2. job' \in [Machines -> Jobs]
      BY <1>4, <2>1, IdleType, JobType DEF Conflict, Goes, Ends, j
    <2> QED
      BY <1>4, <2>2 DEF Conflict, TypeOK, storeVars, localVars, ownVars
  <1>5. CASE Undo(m)
    <2>1. PICK slip \in {"none", "undeleted"} : Slip(slip) /\ Deleted(j.mine.object, slip)
      BY <1>5 DEF Undo, j
    <2>2. job' \in [Machines -> Jobs]
      BY <1>5, <1>j, RetriedType, JobType DEF Undo, j
    <2>3. budget' \in [commands : Nat, edits : Nat, faults : Nat]
      BY <2>1, SlipType
    <2>4. objects' \subseteq Objects
      BY <2>1 DEF Deleted, TypeOK
    <2> QED
      BY <1>5, <2>2, <2>3, <2>4 DEF Undo, TypeOK, localVars
  <1>6. CASE Settle(m)
    <2>1. PICK slip \in {"none", "contended", "undeleted"} :
            /\ Slip(slip)
            /\ Marked(m, j.mine.gen, j.mine.chain, slip)
            /\ Deleted(j.remote.object, slip)
      BY <1>6 DEF Settle, j
    <2>2. job' \in [Machines -> Jobs]
      BY <1>6, IdleType, JobType DEF Settle, Ends
    <2>3. budget' \in [commands : Nat, edits : Nat, faults : Nat]
      BY <2>1, SlipType
    <2>4. objects' \subseteq Objects
      BY <2>1 DEF Deleted, TypeOK
    <2>5. lastSeen' \in [Machines -> [gen : Nat, chain : Nat]]
      BY <1>k, <2>1, MarkedType
    <2> QED
      BY <1>6, <2>2, <2>3, <2>4, <2>5 DEF Settle, TypeOK
  <1> QED
    BY <1>1, <1>2, <1>3, <1>4, <1>5, <1>6

\* Resets, users and crashes.
LEMMA TypeOther ==
  ASSUME TypeOK, NEW m \in Machines,
         DeleteManifest(m) \/ ClearLastSeen(m) \/ (\E e \in Entries, standing \in Standings : Edit(m, e, standing))
  PROVE  TypeOK'
  <1>1. CASE DeleteManifest(m)
    <2> DEFINE to == [job[m] EXCEPT !.pc = "clear"]
    <2>1. to \in Jobs
      <3>1. job[m] \in Jobs /\ "clear" \in Pcs
        BY DEF TypeOK, Pcs
      <3> QED
        BY <3>1, PcType
    <2>2. job' \in [Machines -> Jobs]
      <3>1. CASE manifest = NoManifest
        BY <1>1, <2>1, <3>1, JobType DEF DeleteManifest, Goes
      <3>2. CASE manifest # NoManifest
        BY <1>1, <2>1, <3>2, OvertakeType DEF DeleteManifest
      <3> QED
        BY <3>1, <3>2
    <2>3. chain' \in Nat
      BY <1>1 DEF DeleteManifest, TypeOK
    <2>4. manifest' \in Manifests \cup {NoManifest}
      BY <1>1 DEF DeleteManifest
    <2> QED
      BY <1>1, <2>2, <2>3, <2>4 DEF DeleteManifest, TypeOK, localVars, ownVars
  <1>2. CASE ClearLastSeen(m)
    <2>1. PICK slip \in {"none", "contended"} : Slip(slip) /\ Marked(m, 0, 0, slip)
      BY <1>2 DEF ClearLastSeen
    <2>2. job' \in [Machines -> Jobs]
      BY <1>2, IdleType, JobType DEF ClearLastSeen, Ends
    <2>3. budget' \in [commands : Nat, edits : Nat, faults : Nat]
      BY <2>1, SlipType
    <2>4. lastSeen' \in [Machines -> [gen : Nat, chain : Nat]]
      BY <2>1, MarkedType
    <2> QED
      BY <1>2, <2>2, <2>3, <2>4 DEF ClearLastSeen, TypeOK, storeVars
  <1>3. ASSUME NEW e \in Entries, NEW standing \in Standings, Edit(m, e, standing)
        PROVE  TypeOK'
    <2>1. budget' \in [commands : Nat, edits : Nat, faults : Nat]
      <3>1. budget.edits > 0 /\ budget' = [budget EXCEPT !.edits = budget.edits - 1]
        BY <1>3 DEF Edit
      <3>2. budget \in [commands : Nat, edits : Nat, faults : Nat]
        BY DEF TypeOK
      <3>3. budget.edits - 1 \in Nat
        BY <3>1, <3>2
      <3> QED
        BY <3>1, <3>2, <3>3
    <2>2. brain' \in [Machines -> [Entries -> Standings]]
      BY <1>3 DEF Edit, TypeOK
    <2>3. seen' \in [Machines -> SUBSET Entries]
      BY <1>3 DEF Edit, TypeOK
    <2> QED
      BY <1>3, <2>1, <2>2, <2>3 DEF Edit, TypeOK, storeVars
  <1> QED
    BY <1>1, <1>2, <1>3

LEMMA TypeCrash ==
  ASSUME TypeOK, NEW m \in Machines, Crash(m)
  PROVE  TypeOK'
  <1>1. job' \in [Machines -> Jobs]
    BY IdleType, JobType DEF Crash, Ends
  <1>2. budget' \in [commands : Nat, edits : Nat, faults : Nat]
    <2>1. Fault("crash")
      BY DEF Crash
    <2> QED
      BY <2>1, SlipType DEF Slip
  <1>3. /\ brain' \in [Machines -> [Entries -> Standings]]
        /\ seen' \in [Machines -> SUBSET Entries]
        /\ lastSeen' = lastSeen
    <2>1. CASE UNCHANGED localVars
      BY <2>1 DEF localVars, TypeOK
    <2>2. CASE /\ \E part \in SUBSET job[m].remote.object.content : Imported(m, part)
               /\ lastSeen' = lastSeen
      <3>1. job[m].remote \in Manifests \cup {NoManifest}
        BY DEF TypeOK, Jobs
      <3>2. job[m].remote.object.content \subseteq Entries
        BY <3>1 DEF Manifests, NoManifest, Objects, NoObject
      <3> QED
        BY <2>2, <3>2, ImportedType
    <2> QED
      BY <2>1, <2>2 DEF Crash
  <1> QED
    BY <1>1, <1>2, <1>3 DEF Crash, TypeOK, storeVars

-----------------------------------------------------------------------------
(* Steps that leave the chain alone                                        *)

\* What such a step of m does not touch.
Local(m) ==
  /\ manifest' = manifest /\ chain' = chain
  /\ \A n \in Machines \ {m} :
       /\ job'[n] = job[n] /\ lastSeen'[n] = lastSeen[n]
       /\ brain'[n] = brain[n] /\ seen'[n] = seen[n]

LEMMA LocalStep ==
  ASSUME History, TypeOK', NEW m \in Machines, Local(m), Sound(m)'
  PROVE  History'
  <1>1. Current'
    BY DEF History, Current, Local
  <1>2. ASSUME NEW n \in Machines \ {m}
        PROVE  Sound(n)'
    <2>1. /\ manifest' = manifest /\ chain' = chain
          /\ job'[n] = job[n] /\ lastSeen'[n] = lastSeen[n]
          /\ brain'[n] = brain[n] /\ seen'[n] = seen[n]
      BY DEF Local
    <2>2. Sound(n)
      BY DEF History
    <2> QED
      BY <2>1, <2>2
      DEF Sound, ReadIsPast, MarkerIsSeen, Cleared, DraftIsOwn, HoldingsAreSeen, Past
  <1> QED
    BY <1>1, <1>2 DEF History

\* m keeps what it holds, and has not come to the export.
LEMMA Quietly ==
  ASSUME History, NEW m \in Machines,
         manifest' = manifest, chain' = chain,
         lastSeen'[m] = lastSeen[m], brain'[m] = brain[m], seen'[m] = seen[m],
         job'[m].pc \notin {"export", "publish", "undo", "settle"},
         job'[m].remote \in {NoManifest, job[m].remote}
  PROVE  Sound(m)'
  <1>1. Sound(m)
    BY DEF History
  <1> QED
    BY <1>1 DEF Sound, ReadIsPast, MarkerIsSeen, Cleared, DraftIsOwn, HoldingsAreSeen, Past

\* A manifest that has just been read is the live one.
LEMMA AfterReadSound ==
  ASSUME History, NEW m \in Machines, NEW j \in Jobs,
         manifest' = manifest, chain' = chain,
         lastSeen'[m] = lastSeen[m], brain'[m] = brain[m], seen'[m] = seen[m],
         job'[m] = AfterRead(m, j)
  PROVE  Sound(m)'
  <1> DEFINE read == [j EXCEPT !.remote = manifest]
  <1>1. Sound(m) /\ Current /\ TypeOK
    BY DEF History
  <1>2. \/ job'[m] = Idle
        \/ /\ job'[m].remote = manifest
           /\ \/ job'[m].pc \in {"fetch", "guard"}
              \/ job'[m].pc = "export" /\ (manifest.gen = lastSeen[m].gen)
    <2>1. CASE manifest.gen > lastSeen[m].gen
      <3>1. job'[m] = [read EXCEPT !.pc = "fetch"]
        BY <2>1 DEF AfterRead
      <3>2. job'[m].remote = manifest /\ job'[m].pc = "fetch"
        BY <3>1 DEF Jobs
      <3> QED
        BY <3>2
    <2>2. CASE /\ ~(manifest.gen > lastSeen[m].gen)
               /\ manifest.gen = lastSeen[m].gen \/ (manifest = NoManifest /\ ~j.pushing)
      <3>1. job'[m] = AfterMerge(read)
        BY <2>2 DEF AfterRead
      <3>2. read.pushing = j.pushing /\ read.op = j.op /\ read.remote = manifest
        BY DEF Jobs
      <3>3. read \in Jobs
        BY <1>1 DEF TypeOK, Jobs
      <3>4. CASE j.pushing
        <4>1. job'[m] = [read EXCEPT !.pc = "export"] /\ manifest.gen = lastSeen[m].gen
          BY <2>2, <3>1, <3>2, <3>4 DEF AfterMerge
        <4> HIDE DEF read
        <4>2. job'[m].remote = manifest /\ job'[m].pc = "export"
          BY <3>2, <3>3, <4>1 DEF Jobs
        <4> QED
          BY <4>1, <4>2
      <3>5. CASE ~j.pushing
        <4>1. job'[m] \in {[read EXCEPT !.pc = "guard"], Idle}
          BY <3>1, <3>2, <3>5 DEF AfterMerge
        <4> HIDE DEF read
        <4>2. [read EXCEPT !.pc = "guard"].remote = manifest /\ [read EXCEPT !.pc = "guard"].pc = "guard"
          BY <3>2, <3>3 DEF Jobs
        <4> QED
          BY <4>1, <4>2
      <3> QED
        BY <3>4, <3>5
    <2>3. CASE /\ ~(manifest.gen > lastSeen[m].gen)
               /\ ~(manifest.gen = lastSeen[m].gen \/ (manifest = NoManifest /\ ~j.pushing))
      <3> QED
        BY <2>3 DEF AfterRead
    <2> QED
      BY <2>1, <2>2, <2>3
  <1> HIDE DEF read
  <1>3. CASE job'[m] = Idle
    <2>1. job'[m].pc = "idle" /\ job'[m].remote = NoManifest
      BY <1>3 DEF Idle
    <2> QED
      BY <2>1, Quietly
  <1>4. CASE job'[m].remote = manifest
    <2>1. ReadIsPast(m)'
      <3>1. manifest # NoManifest => Past(manifest)
        BY <1>1 DEF Current, Past, TypeOK, Manifests
      <3> QED
        BY <1>4, <3>1 DEF ReadIsPast, Past
    <2>2. CASE job'[m].pc = "export" /\ manifest.gen = lastSeen[m].gen
      <3>1. lastSeen[m].chain \notin {0, chain} \/ manifest.object.content \subseteq seen[m]
        <4>1. CASE lastSeen[m].chain = chain
          BY <1>1, <2>2, <4>1 DEF Sound, MarkerIsSeen
        <4>2. CASE lastSeen[m].chain = 0
          <5>1. manifest.gen = 0
            BY <1>1, <2>2, <4>2 DEF Sound, MarkerIsSeen
          <5>2. manifest = NoManifest
            BY <1>1, <5>1 DEF TypeOK, Manifests
          <5> QED
            BY <5>2 DEF NoManifest, NoObject
        <4> QED
          BY <4>1, <4>2
      <3> QED
        BY <1>1, <1>4, <2>1, <2>2, <3>1
        DEF Sound, MarkerIsSeen, Cleared, DraftIsOwn, HoldingsAreSeen
    <2>3. CASE job'[m].pc \in {"fetch", "guard"}
      BY <1>1, <1>4, <2>1, <2>3
      DEF Sound, MarkerIsSeen, Cleared, DraftIsOwn, HoldingsAreSeen
    <2>4. CASE job'[m] = Idle
      BY <1>3, <2>4
    <2> QED
      BY <1>2, <2>2, <2>3, <2>4
  <1> QED
    BY <1>2, <1>3, <1>4

\* What an import does to m's view of the chain.
LEMMA ImportedSound ==
  ASSUME History, NEW m \in Machines, NEW new \in SUBSET Entries,
         manifest' = manifest, chain' = chain, Imported(m, new)
  PROVE  /\ seen'[m] = seen[m] \cup new
         /\ HoldingsAreSeen(m)'
         /\ \A n \in Machines \ {m} : brain'[n] = brain[n] /\ seen'[n] = seen[n]
  <1>1. seen'[m] = seen[m] \cup new /\ \A n \in Machines \ {m} : seen'[n] = seen[n]
    BY DEF Imported, Unknown, History, TypeOK
  <1>2. /\ brain'[m] = [e \in Entries |-> IF e \in new /\ brain[m][e] = "unknown"
                                         THEN "suggested" ELSE brain[m][e]]
        /\ \A n \in Machines \ {m} : brain'[n] = brain[n]
    BY DEF Imported, Unknown, History, TypeOK
  <1>3. HoldingsAreSeen(m)
    BY DEF History, Sound
  <1>4. HoldingsAreSeen(m)'
    BY <1>1, <1>2, <1>3 DEF HoldingsAreSeen
  <1> QED
    BY <1>1, <1>2, <1>4

\* A marker is set to a manifest of the past whose content was seen, to zero,
\* or not at all.
LEMMA MarkedSound ==
  ASSUME History, NEW m \in Machines, NEW gen \in Nat, NEW c \in Nat, NEW slip,
         Marked(m, gen, c, slip),
         manifest' = manifest, chain' = chain, seen[m] \subseteq seen'[m],
         c <= chain, c = 0 <=> gen = 0,
         c = chain => /\ manifest # NoManifest
                      /\ gen <= manifest.gen
                      /\ gen = manifest.gen => manifest.object.content \subseteq seen'[m]
  PROVE  /\ MarkerIsSeen(m)'
         /\ \A n \in Machines \ {m} : lastSeen'[n] = lastSeen[n]
  <1>1. MarkerIsSeen(m)
    BY DEF History, Sound
  <1>2. \/ lastSeen' = lastSeen
        \/ /\ lastSeen'[m] = [gen |-> gen, chain |-> c]
           /\ \A n \in Machines \ {m} : lastSeen'[n] = lastSeen[n]
    BY DEF Marked, History, TypeOK
  <1>3. CASE lastSeen' = lastSeen
    BY <1>1, <1>3 DEF MarkerIsSeen
  <1>4. CASE /\ lastSeen'[m] = [gen |-> gen, chain |-> c]
             /\ \A n \in Machines \ {m} : lastSeen'[n] = lastSeen[n]
    <2>1. lastSeen'[m].gen = gen /\ lastSeen'[m].chain = c
      BY <1>4
    <2> QED
      BY <1>4, <2>1 DEF MarkerIsSeen
  <1> QED
    BY <1>2, <1>3, <1>4

LEMMA HistoryReading ==
  ASSUME History, NEW m \in Machines,
         (\E op \in Operations : Invoke(m, op)) \/ Read(m) \/ Merge(m) \/ Missing(m) \/ Guard(m)
  PROVE  History'
  <1>t. TypeOK /\ TypeOK' /\ Sound(m) /\ Current
    BY TypeReading DEF History
  <1>j. job[m] \in Jobs
    BY <1>t DEF TypeOK
  <1>o. \A n \in Machines \ {m} : job'[n] = job[n]
    BY <1>t DEF TypeOK, Invoke, Read, Merge, Missing, Guard, ToJob
  <1>1. ASSUME NEW op \in Operations, Invoke(m, op)
        PROVE  History'
    <2>1. Local(m)
      BY <1>1, <1>o DEF Invoke, Local, storeVars, localVars
    <2>2. job'[m] = [Idle EXCEPT !.pc = IF op = "reset" THEN "delete" ELSE "read",
                                 !.op = op, !.pushing = (op = "force")]
      BY <1>1, <1>t DEF Invoke, ToJob, TypeOK
    <2>3. job'[m].pc \in {"delete", "read"} /\ job'[m].remote = NoManifest
      BY <2>2 DEF Idle
    <2>4. Sound(m)'
      BY <1>1, <2>3, Quietly DEF Invoke, storeVars, localVars
    <2> QED
      BY <1>t, <2>1, <2>4, LocalStep
  <1>2. CASE Read(m)
    <2>1. Local(m)
      BY <1>2, <1>o DEF Read, Local, storeVars, localVars
    <2>2. job'[m] = AfterRead(m, job[m])
      BY <1>2, <1>t DEF Read, ToJob, TypeOK
    <2>3. Sound(m)'
      BY <1>2, <1>j, <2>2, AfterReadSound DEF Read, storeVars, localVars
    <2> QED
      BY <1>t, <2>1, <2>3, LocalStep
  <1>3. CASE Merge(m)
    <2> DEFINE remote == job[m].remote
    <2>1. PICK slip \in {"none", "contended"} :
            /\ Imported(m, remote.object.content)
            /\ Marked(m, remote.gen, remote.chain, slip)
      BY <1>3 DEF Merge
    <2>2. remote \in Manifests \cup {NoManifest}
      BY <1>j DEF Jobs
    <2>3. remote.object.content \in SUBSET Entries /\ remote.gen \in Nat /\ remote.chain \in Nat
      BY <2>2 DEF Manifests, NoManifest, Objects, NoObject
    <2>4. manifest' = manifest /\ chain' = chain
      BY <1>3 DEF Merge, storeVars
    <2>5. /\ seen'[m] = seen[m] \cup remote.object.content
          /\ HoldingsAreSeen(m)'
          /\ \A n \in Machines \ {m} : brain'[n] = brain[n] /\ seen'[n] = seen[n]
      BY <2>1, <2>3, <2>4, ImportedSound
    <2>6. /\ remote.chain <= chain
          /\ remote.chain = 0 <=> remote.gen = 0
          /\ remote.chain = chain =>
               /\ manifest # NoManifest
               /\ remote.gen <= manifest.gen
               /\ remote.gen = manifest.gen => manifest.object.content \subseteq seen'[m]
      <3>1. CASE remote = NoManifest
        BY <1>t, <3>1 DEF NoManifest, Current, TypeOK
      <3>2. CASE remote # NoManifest
        <4>1. Past(remote)
          BY <1>t, <3>2 DEF Sound, ReadIsPast
        <4>2. remote.gen # 0
          BY <2>2, <3>2 DEF Manifests
        <4> QED
          BY <2>3, <2>5, <4>1, <4>2 DEF Past
      <3> QED
        BY <3>1, <3>2
    <2>7. /\ MarkerIsSeen(m)'
          /\ \A n \in Machines \ {m} : lastSeen'[n] = lastSeen[n]
      BY <2>1, <2>3, <2>4, <2>5, <2>6, MarkedSound
    <2>8. Local(m)
      BY <1>o, <2>4, <2>5, <2>7 DEF Local
    <2>9. job'[m] = Idle \/ (job'[m].remote = remote /\ job'[m].pc \in {"guard", "export"})
      <3> DEFINE brought == Unknown(m, job[m].remote.object.content)
                 j == [job[m] EXCEPT !.imported = job[m].imported \cup brought]
      <3>1. job'[m] = AfterMerge(j)
        BY <1>3, <1>t DEF Merge, ToJob, TypeOK
      <3>a. brought \subseteq Entries
        BY <1>j, BroughtType
      <3> HIDE DEF brought
      <3>2. j \in Jobs /\ j.remote = remote
        BY <1>j, <3>a DEF Jobs
      <3> HIDE DEF j
      <3>3. job'[m] \in {[j EXCEPT !.pc = "export"], [j EXCEPT !.pc = "guard"], Idle}
        BY <3>1 DEF AfterMerge
      <3> QED
        BY <3>2, <3>3 DEF Jobs
    <2>10. Sound(m)'
      <3>1. CASE job'[m] = Idle
        BY <2>5, <2>7, <3>1 DEF Idle, Sound, ReadIsPast, Cleared, DraftIsOwn
      <3>2. CASE job'[m].remote = remote /\ job'[m].pc \in {"guard", "export"}
        <4>1. ReadIsPast(m)'
          BY <1>t, <2>4, <3>2 DEF Sound, ReadIsPast, Past
        <4>2. Cleared(m)' /\ DraftIsOwn(m)'
          BY <2>5, <3>2 DEF Cleared, DraftIsOwn
        <4> QED
          BY <2>5, <2>7, <4>1, <4>2 DEF Sound
      <3> QED
        BY <2>9, <3>1, <3>2
    <2> QED
      BY <1>t, <2>8, <2>10, LocalStep
  <1>4. CASE Missing(m)
    <2>1. Local(m)
      BY <1>4, <1>o DEF Missing, Local, storeVars, localVars
    <2>2. job'[m] \in {Retried(job[m]), Idle}
      BY <1>4, <1>t DEF Missing, ToJob, TypeOK
    <2>3. job'[m].pc \in {"idle", "read"} /\ job'[m].remote = NoManifest
      BY <1>j, <2>2, RetriedType DEF Idle
    <2>4. Sound(m)'
      BY <1>4, <2>3, Quietly DEF Missing, storeVars, localVars
    <2> QED
      BY <1>t, <2>1, <2>4, LocalStep
  <1>5. CASE Guard(m)
    <2> DEFINE onward == [job[m] EXCEPT !.pushing = TRUE, !.imported = {}]
    <2>1. Local(m)
      BY <1>5, <1>o DEF Guard, Local, storeVars, localVars
    <2>2. job'[m] \in {AfterRead(m, onward), Idle}
      BY <1>5, <1>t DEF Guard, ToJob, TypeOK
    <2>3. onward \in Jobs
      BY <1>j DEF Jobs
    <2>4. CASE job'[m] = Idle
      <3>1. job'[m].pc = "idle" /\ job'[m].remote = NoManifest
        BY <2>4 DEF Idle
      <3>2. Sound(m)'
        BY <1>5, <3>1, Quietly DEF Guard, storeVars, localVars
      <3> QED
        BY <1>t, <2>1, <3>2, LocalStep
    <2>5. CASE job'[m] = AfterRead(m, onward)
      <3>1. Sound(m)'
        BY <1>5, <2>3, <2>5, AfterReadSound DEF Guard, storeVars, localVars
      <3> QED
        BY <1>t, <2>1, <3>1, LocalStep
    <2> QED
      BY <2>2, <2>4, <2>5
  <1> QED
    BY <1>1, <1>2, <1>3, <1>4, <1>5

\* A push of m up to its put, and after it.
LEMMA HistoryWriting ==
  ASSUME History, NEW m \in Machines,
         Export(m) \/ Conflict(m) \/ Undo(m) \/ Settle(m)
  PROVE  History'
  <1>t. TypeOK /\ TypeOK' /\ Sound(m) /\ Current
    BY TypePublishing DEF History, Sound, DraftIsOwn
  <1>j. job[m] \in Jobs
    BY <1>t DEF TypeOK
  <1>o. \A n \in Machines \ {m} : job'[n] = job[n]
    BY <1>t DEF TypeOK, Export, Conflict, Undo, Settle, Goes, Ends, ToJob
  <1>1. CASE Export(m)
    <2> DEFINE bundle == [name |-> named + 1,
                          content |-> {e \in Entries : brain[m][e] = "approved"}]
               next   == [gen |-> job[m].remote.gen + 1, object |-> bundle, chain |-> chain]
    <2>1. Local(m)
      BY <1>1, <1>o DEF Export, Local, localVars
    <2>2. job'[m] = [job[m] EXCEPT !.pc = "publish", !.mine = next]
      BY <1>1, <1>t DEF Export, ToJob, TypeOK
    <2>3. job'[m].pc = "publish" /\ job'[m].mine = next /\ job'[m].remote = job[m].remote
      BY <1>j, <2>2 DEF Jobs
    <2>4. next # NoManifest
      <3>1. next.gen = job[m].remote.gen + 1 /\ job[m].remote.gen \in Nat
        BY <1>j DEF Jobs, Manifests, NoManifest
      <3> QED
        BY <3>1 DEF NoManifest
    <2>5. next.object.content \subseteq seen[m]
      BY <1>t DEF Sound, HoldingsAreSeen
    <2>6. DraftIsOwn(m)'
      BY <1>1, <2>3, <2>4, <2>5 DEF DraftIsOwn, Export, localVars
    <2>7. Cleared(m)'
      BY <1>1, <1>t, <2>3 DEF Sound, Cleared, Export, localVars
    <2>8. ReadIsPast(m)' /\ MarkerIsSeen(m)' /\ HoldingsAreSeen(m)'
      BY <1>1, <1>t, <2>3 DEF Sound, ReadIsPast, MarkerIsSeen, HoldingsAreSeen, Past, Export, localVars
    <2>9. Sound(m)'
      BY <2>6, <2>7, <2>8 DEF Sound
    <2> QED
      BY <1>t, <2>1, <2>9, LocalStep
  <1>2. CASE Conflict(m)
    <2>1. Local(m)
      BY <1>2, <1>o DEF Conflict, Local, storeVars, localVars
    <2>2. job'[m] \in {[job[m] EXCEPT !.pc = "undo"], Idle}
      BY <1>2, <1>t DEF Conflict, Goes, Ends, ToJob, TypeOK
    <2>3. CASE job'[m] = Idle
      <3>1. job'[m].pc = "idle" /\ job'[m].remote = NoManifest
        BY <2>3 DEF Idle
      <3>2. Sound(m)'
        BY <1>2, <3>1, Quietly DEF Conflict, storeVars, localVars
      <3> QED
        BY <1>t, <2>1, <3>2, LocalStep
    <2>4. CASE job'[m] = [job[m] EXCEPT !.pc = "undo"]
      <3>1. job'[m].pc = "undo" /\ job'[m].mine = job[m].mine /\ job'[m].remote = job[m].remote
        BY <1>j, <2>4 DEF Jobs
      <3>2. job[m].pc = "publish"
        BY <1>2 DEF Conflict
      <3>3. Sound(m)'
        BY <1>2, <1>t, <3>1, <3>2
        DEF Sound, ReadIsPast, MarkerIsSeen, Cleared, DraftIsOwn, HoldingsAreSeen, Past,
            Conflict, storeVars, localVars
      <3> QED
        BY <1>t, <2>1, <3>3, LocalStep
    <2> QED
      BY <2>2, <2>3, <2>4
  <1>3. CASE Undo(m)
    <2>1. Local(m)
      BY <1>3, <1>o DEF Undo, Local, localVars
    <2>2. job'[m] = Retried(job[m])
      BY <1>3, <1>t DEF Undo, ToJob, TypeOK
    <2>3. job'[m].pc \in {"idle", "read"} /\ job'[m].remote = NoManifest
      BY <1>j, <2>2, RetriedType DEF Idle
    <2>4. Sound(m)'
      BY <1>3, <2>3, Quietly DEF Undo, localVars
    <2> QED
      BY <1>t, <2>1, <2>4, LocalStep
  <1>4. CASE Settle(m)
    <2> DEFINE mine == job[m].mine
    <2>1. PICK slip \in {"none", "contended", "undeleted"} : Marked(m, mine.gen, mine.chain, slip)
      BY <1>4 DEF Settle
    <2>2. manifest' = manifest /\ chain' = chain /\ seen' = seen /\ brain' = brain
      BY <1>4 DEF Settle
    <2>3. Past(mine) /\ mine # NoManifest /\ mine.object.content \subseteq seen[m]
      BY <1>4, <1>t DEF Settle, Sound, DraftIsOwn
    <2>4. mine \in Manifests
      BY <1>j, <2>3 DEF Jobs
    <2>5. mine.gen \in Nat /\ mine.chain \in Nat /\ mine.gen # 0
      BY <2>4 DEF Manifests
    <2>6. /\ MarkerIsSeen(m)'
          /\ \A n \in Machines \ {m} : lastSeen'[n] = lastSeen[n]
      BY <2>1, <2>2, <2>3, <2>5, MarkedSound DEF Past
    <2>7. Local(m)
      BY <1>o, <2>2, <2>6 DEF Local
    <2>8. job'[m] = Idle
      BY <1>4, <1>t DEF Settle, Ends, ToJob, TypeOK
    <2>9. HoldingsAreSeen(m)'
      BY <1>t, <2>2 DEF Sound, HoldingsAreSeen
    <2>10. Sound(m)'
      BY <2>6, <2>8, <2>9 DEF Idle, Sound, ReadIsPast, Cleared, DraftIsOwn
    <2> QED
      BY <1>t, <2>7, <2>10, LocalStep
  <1> QED
    BY <1>1, <1>2, <1>3, <1>4

\* A reset's second half, users and crashes.
LEMMA HistoryOther ==
  ASSUME History, NEW m \in Machines,
         ClearLastSeen(m) \/ (\E e \in Entries, standing \in Standings : Edit(m, e, standing)) \/ Crash(m)
  PROVE  History'
  <1>t. TypeOK /\ TypeOK' /\ Sound(m) /\ Current
    BY TypeOther, TypeCrash DEF History
  <1>1. CASE ClearLastSeen(m)
    <2>1. PICK slip \in {"none", "contended"} : Marked(m, 0, 0, slip)
      BY <1>1 DEF ClearLastSeen
    <2>2. manifest' = manifest /\ chain' = chain /\ seen' = seen /\ brain' = brain
      BY <1>1 DEF ClearLastSeen, storeVars
    <2>3. 0 <= chain /\ 0 # chain
      BY <1>t DEF TypeOK, Current
    <2>4. /\ MarkerIsSeen(m)'
          /\ \A n \in Machines \ {m} : lastSeen'[n] = lastSeen[n]
      BY <2>1, <2>2, <2>3, MarkedSound
    <2>5. job'[m] = Idle /\ \A n \in Machines \ {m} : job'[n] = job[n]
      BY <1>1, <1>t DEF ClearLastSeen, Ends, ToJob, TypeOK
    <2>6. Local(m)
      BY <2>2, <2>4, <2>5 DEF Local
    <2>7. HoldingsAreSeen(m)'
      BY <1>t, <2>2 DEF Sound, HoldingsAreSeen
    <2>8. Sound(m)'
      BY <2>4, <2>5, <2>7 DEF Idle, Sound, ReadIsPast, Cleared, DraftIsOwn
    <2> QED
      BY <1>t, <2>6, <2>8, LocalStep
  <1>2. ASSUME NEW e \in Entries, NEW standing \in Standings, Edit(m, e, standing)
        PROVE  History'
    <2>1. manifest' = manifest /\ chain' = chain /\ lastSeen' = lastSeen /\ job' = job
      BY <1>2 DEF Edit, storeVars
    <2>2. /\ seen'[m] = seen[m] \cup {e}
          /\ \A n \in Machines \ {m} : brain'[n] = brain[n] /\ seen'[n] = seen[n]
      BY <1>2, <1>t DEF Edit, TypeOK
    <2>3. \A f \in Entries \ {e} : brain'[m][f] = brain[m][f]
      BY <1>2, <1>t DEF Edit, TypeOK
    <2>4. Local(m)
      BY <2>1, <2>2 DEF Local
    <2>5. HoldingsAreSeen(m)'
      BY <1>t, <2>2, <2>3 DEF Sound, HoldingsAreSeen
    <2>6. ReadIsPast(m)' /\ MarkerIsSeen(m)' /\ Cleared(m)' /\ DraftIsOwn(m)'
      BY <1>t, <2>1, <2>2 DEF Sound, ReadIsPast, MarkerIsSeen, Cleared, DraftIsOwn, Past
    <2>7. Sound(m)'
      BY <2>5, <2>6 DEF Sound
    <2> QED
      BY <1>t, <2>4, <2>7, LocalStep
  <1>3. CASE Crash(m)
    <2>1. job'[m] = Idle /\ \A n \in Machines \ {m} : job'[n] = job[n]
      BY <1>3, <1>t DEF Crash, Ends, ToJob, TypeOK
    <2>2. manifest' = manifest /\ chain' = chain
      BY <1>3 DEF Crash, storeVars
    <2>3. job'[m].pc = "idle" /\ job'[m].remote = NoManifest
      BY <2>1 DEF Idle
    <2>4. CASE UNCHANGED localVars
      <3>1. Local(m)
        BY <2>1, <2>2, <2>4 DEF Local, localVars
      <3>2. Sound(m)'
        BY <2>2, <2>3, <2>4, Quietly DEF localVars
      <3> QED
        BY <1>t, <3>1, <3>2, LocalStep
    <2>5. CASE /\ \E part \in SUBSET job[m].remote.object.content : Imported(m, part)
               /\ lastSeen' = lastSeen
      <3>1. job[m].remote \in Manifests \cup {NoManifest}
        BY <1>t DEF TypeOK, Jobs
      <3>2. job[m].remote.object.content \subseteq Entries
        BY <3>1 DEF Manifests, NoManifest, Objects, NoObject
      <3>3. PICK part \in SUBSET Entries : Imported(m, part)
        BY <2>5, <3>2
      <3>4. /\ seen'[m] = seen[m] \cup part
            /\ HoldingsAreSeen(m)'
            /\ \A n \in Machines \ {m} : brain'[n] = brain[n] /\ seen'[n] = seen[n]
        BY <2>2, <3>3, ImportedSound
      <3>5. Local(m)
        BY <2>1, <2>2, <2>5, <3>4 DEF Local
      <3>6. MarkerIsSeen(m)'
        BY <1>t, <2>2, <2>5, <3>4 DEF Sound, MarkerIsSeen
      <3>7. Sound(m)'
        BY <2>3, <3>4, <3>6 DEF Sound, ReadIsPast, Cleared, DraftIsOwn
      <3> QED
        BY <1>t, <3>5, <3>7, LocalStep
    <2> QED
      BY <1>3, <2>4, <2>5 DEF Crash
  <1> QED
    BY <1>1, <1>2, <1>3

-----------------------------------------------------------------------------
(* Steps that change the chain                                             *)

\* The put goes through: what was live is what the push had read.
LEMMA HistoryPut ==
  ASSUME History, NEW m \in Machines, NEW pc \in {"settle", "undo"},
         job[m].pc = "publish", manifest = job[m].remote, Replace(m, pc),
         UNCHANGED <<chain, localVars>>, TypeOK'
  PROVE  History'
  <1>t. TypeOK /\ Sound(m) /\ Current
    BY DEF History
  <1>u. /\ chain' = chain /\ lastSeen' = lastSeen /\ brain' = brain /\ seen' = seen
    BY DEF localVars
  <1>1. /\ job[m].mine # NoManifest
        /\ job[m].mine.object.content \subseteq seen[m]
        /\ job[m].mine.gen = manifest.gen + 1
    BY <1>t DEF Sound, DraftIsOwn
  <1>2. /\ manifest' = [job[m].mine EXCEPT !.chain = chain]
        /\ manifest' \in Manifests
        /\ job'[m] = [job[m] EXCEPT !.pc = pc, !.mine = manifest']
        /\ \A n \in Machines \ {m} :
             job'[n] = [job[n] EXCEPT !.overtaken = IF job[n].pushing THEN @ + 1 ELSE @]
    BY <1>t, <1>1, ReplaceType DEF Pcs
  <1>j. \A n \in Machines : job[n] \in Jobs
    BY <1>t DEF TypeOK
  <1>3. /\ manifest'.chain = chain
        /\ manifest'.gen = manifest.gen + 1
        /\ manifest'.object = job[m].mine.object
    <2>1. job[m].mine \in Manifests
      BY <1>1, <1>j DEF Jobs
    <2> QED
      BY <1>1, <1>2, <2>1 DEF Manifests
  <1>4. manifest.gen \in Nat /\ manifest' # NoManifest /\ chain \in Nat
    BY <1>2, <1>t DEF TypeOK, Manifests, NoManifest
  <1>5. Current'
    BY <1>t, <1>u, <1>3 DEF Current
  <1>6. \A r \in Manifests : Past(r) => Past(r)'
    <2> SUFFICES ASSUME NEW r \in Manifests, Past(r) PROVE Past(r)'
      OBVIOUS
    <2>1. r.gen \in Nat /\ r.chain \in Nat
      BY DEF Manifests
    <2>2. r.chain = chain => r.gen <= manifest.gen
      BY DEF Past
    <2>3. r.chain = chain => r.gen < manifest'.gen
      BY <1>3, <1>4, <2>1, <2>2
    <2> QED
      BY <1>u, <1>3, <1>4, <2>1, <2>3 DEF Past
  <1>7. Past(manifest)'
    <2>1. 0 < chain' /\ chain' <= chain' /\ manifest'.gen <= manifest'.gen
      BY <1>t, <1>u, <1>3, <1>4 DEF Current
    <2> QED
      BY <1>u, <1>3, <1>4, <2>1 DEF Past
  <1>8. \A n \in Machines : MarkerIsSeen(n)'
    <2> SUFFICES ASSUME NEW n \in Machines PROVE MarkerIsSeen(n)'
      OBVIOUS
    <2>1. MarkerIsSeen(n)
      BY DEF History, Sound
    <2>2. lastSeen[n].gen \in Nat /\ lastSeen[n].chain \in Nat
      BY <1>t DEF TypeOK
    <2>3. lastSeen[n].chain = chain => lastSeen[n].gen < manifest'.gen
      BY <1>3, <1>4, <2>1, <2>2 DEF MarkerIsSeen
    <2> QED
      BY <1>u, <1>4, <2>1, <2>2, <2>3, <1>3 DEF MarkerIsSeen
  <1>9. ASSUME NEW n \in Machines \ {m}
        PROVE  Sound(n)'
    <2>1. Sound(n)
      BY DEF History
    <2>2. /\ job'[n].pc = job[n].pc /\ job'[n].remote = job[n].remote
          /\ job'[n].mine = job[n].mine
      <3>1. job'[n] = [job[n] EXCEPT !.overtaken = IF job[n].pushing THEN job[n].overtaken + 1
                                                    ELSE job[n].overtaken]
        BY <1>2
      <3>2. job[n] \in Jobs
        BY <1>j
      <3> QED
        BY <3>1, <3>2 DEF Jobs
    <2>3. /\ job[n].remote \in Manifests \cup {NoManifest}
          /\ job[n].mine \in Manifests \cup {NoManifest}
      BY <1>j DEF Jobs
    <2>4. ReadIsPast(n)'
      BY <1>6, <2>1, <2>2, <2>3 DEF Sound, ReadIsPast
    <2>5. DraftIsOwn(n)'
      BY <1>6, <1>u, <2>1, <2>2, <2>3 DEF Sound, DraftIsOwn
    <2>6. Cleared(n)' /\ HoldingsAreSeen(n)'
      BY <1>u, <2>1, <2>2 DEF Sound, Cleared, HoldingsAreSeen
    <2> QED
      BY <1>8, <2>4, <2>5, <2>6 DEF Sound
  <1>10. Sound(m)'
    <2>1. job'[m].pc = pc /\ job'[m].mine = manifest' /\ job'[m].remote = job[m].remote
      BY <1>2, <1>j DEF Jobs
    <2>2. ReadIsPast(m)'
      <3>1. job[m].remote \in Manifests \cup {NoManifest}
        BY <1>j DEF Jobs
      <3> QED
        BY <1>t, <1>6, <2>1, <3>1 DEF Sound, ReadIsPast
    <2>3. DraftIsOwn(m)'
      <3>1. job'[m].mine # NoManifest /\ job'[m].mine.object.content \subseteq seen'[m]
        BY <1>1, <1>u, <1>3, <1>4, <2>1
      <3>2. Past(job[m].mine)'
        BY <1>7, <2>1 DEF Past
      <3> QED
        BY <2>1, <3>1, <3>2 DEF DraftIsOwn
    <2>4. Cleared(m)'
      BY <2>1 DEF Cleared
    <2>5. HoldingsAreSeen(m)'
      BY <1>t, <1>u DEF Sound, HoldingsAreSeen
    <2> QED
      BY <1>8, <2>2, <2>3, <2>4, <2>5 DEF Sound
  <1> QED
    BY <1>5, <1>9, <1>10 DEF History

\* A reset: whatever anybody has read or published is of an older chain now.
LEMMA HistoryDelete ==
  ASSUME History, NEW m \in Machines, DeleteManifest(m), TypeOK'
  PROVE  History'
  <1>t. TypeOK /\ Sound(m) /\ Current
    BY DEF History
  <1>u. lastSeen' = lastSeen /\ brain' = brain /\ seen' = seen /\ manifest' = NoManifest
    BY DEF DeleteManifest, localVars
  <1>j. \A n \in Machines : job[n] \in Jobs
    BY <1>t DEF TypeOK
  <1>1. /\ job'[m].pc = "clear" /\ job'[m].remote = job[m].remote
        /\ \A n \in Machines \ {m} :
             /\ job'[n].pc = job[n].pc /\ job'[n].remote = job[n].remote
             /\ job'[n].mine = job[n].mine
    <2> DEFINE to == [job[m] EXCEPT !.pc = "clear"]
    <2>1. to \in Jobs /\ to.pc = "clear" /\ to.remote = job[m].remote
      BY <1>j DEF Jobs, Pcs
    <2> HIDE DEF to
    <2>2. CASE manifest = NoManifest
      BY <1>t, <2>1, <2>2, JobType DEF DeleteManifest, Goes, to
    <2>3. CASE manifest # NoManifest
      <3>1. Overtake(m, to)
        BY <2>3 DEF DeleteManifest, to
      <3>2. /\ job'[m] = to
            /\ \A n \in Machines \ {m} :
                 job'[n] = [job[n] EXCEPT !.overtaken = IF job[n].pushing THEN @ + 1 ELSE @]
        BY <1>t, <2>1, <3>1, OvertakeType
      <3>3. ASSUME NEW n \in Machines \ {m}
            PROVE  /\ job'[n].pc = job[n].pc /\ job'[n].remote = job[n].remote
                   /\ job'[n].mine = job[n].mine
        BY <1>j, <3>2, OvertakenShape
      <3> QED
        BY <2>1, <3>2, <3>3
    <2> QED
      BY <2>2, <2>3
  <1>2. CASE manifest = NoManifest
    <2>1. chain' = chain /\ manifest' = manifest
      BY <1>2, <1>u DEF DeleteManifest
    <2>2. ASSUME NEW n \in Machines \ {m}
          PROVE  Sound(n)'
      <3>1. Sound(n)
        BY DEF History
      <3> QED
        BY <1>1, <1>u, <2>1, <3>1
        DEF Sound, ReadIsPast, MarkerIsSeen, Cleared, DraftIsOwn, HoldingsAreSeen, Past
    <2>3. Sound(m)'
      BY <1>1, <1>u, <2>1, Quietly
    <2>4. Current'
      BY <1>t, <2>1 DEF Current
    <2> QED
      BY <2>2, <2>3, <2>4 DEF History
  <1>3. CASE manifest # NoManifest
    <2>1. chain' = chain + 1 /\ chain \in Nat
      BY <1>3, <1>t DEF DeleteManifest, TypeOK
    <2>2. \A r \in Manifests : Past(r) => Past(r)'
      BY <2>1 DEF Past, Manifests
    <2>3. \A n \in Machines : /\ lastSeen[n].chain \in Nat
                             /\ job[n].remote \in Manifests \cup {NoManifest}
                             /\ job[n].mine \in Manifests \cup {NoManifest}
      BY <1>t DEF TypeOK, Jobs
    <2>4. ASSUME NEW n \in Machines
          PROVE  Sound(n)'
      <3>1. Sound(n)
        BY DEF History
      <3>2. ReadIsPast(n)'
        BY <1>1, <2>2, <2>3, <3>1 DEF Sound, ReadIsPast
      <3>3. MarkerIsSeen(n)'
        BY <1>u, <2>1, <2>3, <3>1 DEF Sound, MarkerIsSeen
      <3>4. DraftIsOwn(n)'
        BY <1>1, <1>u, <2>2, <2>3, <3>1 DEF Sound, DraftIsOwn
      <3>5. Cleared(n)'
        BY <1>1, <1>u, <2>1, <2>3, <3>1 DEF Sound, Cleared, MarkerIsSeen
      <3>6. HoldingsAreSeen(n)'
        BY <1>u, <3>1 DEF Sound, HoldingsAreSeen
      <3> QED
        BY <3>2, <3>3, <3>4, <3>5, <3>6 DEF Sound
    <2>5. Current'
      BY <1>u, <2>1 DEF Current
    <2> QED
      BY <2>4, <2>5 DEF History
  <1> QED
    BY <1>2, <1>3

-----------------------------------------------------------------------------
(* The theorems                                                            *)

LEMMA HistoryInit == Init => History
  <1> SUFFICES ASSUME Init PROVE History
    OBVIOUS
  <1>1. TypeOK
    BY TypeInit
  <1>2. Current
    BY DEF Init, Current
  <1>3. ASSUME NEW m \in Machines
        PROVE  Sound(m)
    <2>1. /\ job[m].pc = "idle" /\ job[m].remote = NoManifest
          /\ lastSeen[m].gen = 0 /\ lastSeen[m].chain = 0 /\ chain = 1
          /\ \A e \in Entries : brain[m][e] = "unknown"
      BY DEF Init, Idle
    <2> QED
      BY <2>1 DEF Sound, ReadIsPast, MarkerIsSeen, Cleared, DraftIsOwn, HoldingsAreSeen
  <1> QED
    BY <1>1, <1>2, <1>3 DEF History

LEMMA HistoryStep == History /\ [Next]_vars => History'
  <1> SUFFICES ASSUME History, [Next]_vars PROVE History'
    OBVIOUS
  <1>1. CASE UNCHANGED vars
    BY <1>1 DEF vars, History, TypeOK, Current, Sound, ReadIsPast, MarkerIsSeen, Cleared,
                DraftIsOwn, HoldingsAreSeen, Past
  <1>2. CASE Next
    <2>1. PICK m \in Machines :
            \/ \E op \in Operations : Invoke(m, op)
            \/ Command(m)
            \/ \E e \in Entries, standing \in Standings : Edit(m, e, standing)
            \/ Resend(m) \/ Crash(m)
      BY <1>2 DEF Next
    <2>2. job[m].pc = "publish" => job[m].mine # NoManifest
      BY DEF History, Sound, DraftIsOwn
    <2>3. CASE \E op \in Operations : Invoke(m, op)
      BY <2>3, HistoryReading
    <2>4. CASE Read(m) \/ Merge(m) \/ Missing(m) \/ Guard(m)
      BY <2>4, HistoryReading
    <2>5. CASE Export(m) \/ Conflict(m) \/ Undo(m) \/ Settle(m)
      BY <2>5, HistoryWriting
    <2>6. CASE Publish(m) \/ Resend(m)
      <3>1. TypeOK'
        BY <2>2, <2>6, TypePublishing DEF History
      <3>2. PICK pc \in {"settle", "undo"} : Replace(m, pc)
        BY <2>6 DEF Publish, Resend
      <3>3. /\ job[m].pc = "publish" /\ manifest = job[m].remote
            /\ UNCHANGED <<chain, localVars>>
        BY <2>6 DEF Publish, Resend
      <3> QED
        BY <3>1, <3>2, <3>3, HistoryPut
    <2>7. CASE DeleteManifest(m)
      BY <2>7, TypeOther, HistoryDelete DEF History
    <2>8. CASE ClearLastSeen(m) \/ Crash(m)
      BY <2>8, HistoryOther
    <2>9. CASE \E e \in Entries, standing \in Standings : Edit(m, e, standing)
      BY <2>9, HistoryOther
    <2> QED
      BY <2>1, <2>3, <2>4, <2>5, <2>6, <2>7, <2>8, <2>9 DEF Command
  <1> QED
    BY <1>1, <1>2

\* The variables of brain sync keep their types: a retry never exceeds the
\* attempts, and every manifest that is written counts from one (push, pull).
THEOREM TypeCorrect == Spec => []TypeOK
  <1>1. History => TypeOK
    BY DEF History
  <1> QED
    BY <1>1, HistoryInit, HistoryStep, PTL DEF Spec

-----------------------------------------------------------------------------
(* Refinement                                                              *)

LEMMA ChainInit == Init => Chain!Init
  BY DEF Init, Chain!Init, NoManifest, NoObject

\* A machine learns what it is shown, and takes up the chain it is shown.
LEMMA Learning ==
  ASSUME History, History', NEW m \in Machines, NEW more \in SUBSET Entries,
         manifest' = manifest, chain' = chain,
         seen' = [seen EXCEPT ![m] = @ \cup more],
         \A n \in Machines \ {m} : lastSeen'[n] = lastSeen[n]
  PROVE  Chain!Learn(m)
  <1> DEFINE c == lastSeen'[m].chain
  <1>1. c \in 0..chain
    BY DEF History, Sound, MarkerIsSeen, TypeOK
  <1>2. [n \in Machines |-> lastSeen'[n].chain]
          = [[n \in Machines |-> lastSeen[n].chain] EXCEPT ![m] = c]
    OBVIOUS
  <1> QED
    BY <1>1, <1>2 DEF Chain!Learn

\* A put publishes the next generation, of content its machine has seen, over
\* content it has seen or as a stranded machine.
LEMMA Putting ==
  ASSUME History, NEW m \in Machines, NEW pc \in {"settle", "undo"},
         job[m].pc = "publish", manifest = job[m].remote, Replace(m, pc),
         UNCHANGED <<chain, localVars>>
  PROVE  Chain!Publish(m)
  <1>1. Sound(m) /\ TypeOK
    BY DEF History
  <1>2. /\ job[m].mine # NoManifest
        /\ job[m].mine.object.content \subseteq seen[m]
        /\ job[m].mine.gen = manifest.gen + 1
    BY <1>1 DEF Sound, DraftIsOwn
  <1>3. job[m].mine \in Manifests
    BY <1>1, <1>2 DEF TypeOK, Jobs
  <1>4. manifest' = [job[m].mine EXCEPT !.chain = chain]
    BY DEF Replace
  <1>5. manifest'.gen = manifest.gen + 1 /\ manifest'.object.content \in SUBSET seen[m]
    BY <1>2, <1>3, <1>4 DEF Manifests
  <1>6. lastSeen[m].chain \notin {0, chain} \/ manifest.object.content \subseteq seen[m]
    BY <1>1 DEF Sound, Cleared
  <1> QED
    BY <1>5, <1>6 DEF Chain!Publish, Chain!Stranded, localVars

LEMMA ChainStep == History /\ History' /\ [Next]_vars => [Chain!Next]_(Chain!vars)
  <1> SUFFICES ASSUME History, History', [Next]_vars PROVE [Chain!Next]_(Chain!vars)
    OBVIOUS
  <1>t. TypeOK /\ TypeOK'
    BY DEF History
  <1>1. CASE UNCHANGED <<manifest, chain, seen, lastSeen>>
    BY <1>1 DEF Chain!vars
  <1>2. ASSUME NEW m \in Machines, Chain!Learn(m) \/ Chain!Publish(m)
        PROVE  [Chain!Next]_(Chain!vars)
    BY <1>2 DEF Chain!Next
  <1>3. ASSUME NEW m \in Machines,
               Merge(m) \/ Settle(m) \/ ClearLastSeen(m) \/ Crash(m)
                 \/ (\E e \in Entries, standing \in Standings : Edit(m, e, standing))
        PROVE  Chain!Learn(m)
    <2>1. manifest' = manifest /\ chain' = chain
      BY <1>3 DEF Merge, Settle, ClearLastSeen, Crash, Edit, storeVars
    <2>2. \A n \in Machines \ {m} : lastSeen'[n] = lastSeen[n]
      BY <1>3, <1>t DEF Merge, Settle, ClearLastSeen, Crash, Edit, Marked, TypeOK, localVars
    <2>3. job[m].remote.object.content \in SUBSET Entries
      <3>1. job[m].remote \in Manifests \cup {NoManifest}
        BY <1>t DEF TypeOK, Jobs
      <3> QED
        BY <3>1 DEF Manifests, NoManifest, Objects, NoObject
    <2>4. \E more \in SUBSET Entries : seen' = [seen EXCEPT ![m] = @ \cup more]
      <3>1. CASE seen' = seen
        <4>1. seen' = [seen EXCEPT ![m] = @ \cup {}]
          BY <1>t, <3>1 DEF TypeOK
        <4> QED
          BY <4>1
      <3>2. CASE \E new \in SUBSET Entries : Imported(m, new)
        BY <3>2 DEF Imported
      <3>3. CASE \E e \in Entries, standing \in Standings : Edit(m, e, standing)
        <4>1. PICK e \in Entries : \E standing \in Standings : Edit(m, e, standing)
          BY <3>3
        <4>2. seen' = [seen EXCEPT ![m] = @ \cup {e}]
          BY <4>1 DEF Edit
        <4>3. {e} \in SUBSET Entries
          OBVIOUS
        <4> QED
          BY <4>2, <4>3
      <3>4. CASE Merge(m)
        BY <2>3, <3>2, <3>4 DEF Merge
      <3>5. CASE Settle(m) \/ ClearLastSeen(m)
        BY <3>1, <3>5 DEF Settle, ClearLastSeen
      <3>6. CASE Crash(m)
        <4>1. \/ seen' = seen
              \/ \E part \in SUBSET job[m].remote.object.content : Imported(m, part)
          BY <3>6 DEF Crash, localVars
        <4> QED
          BY <2>3, <3>1, <3>2, <4>1
      <3> QED
        BY <1>3, <3>3, <3>4, <3>5, <3>6
    <2> QED
      BY <2>1, <2>2, <2>4, Learning
  <1>4. ASSUME NEW m \in Machines, Publish(m) \/ Resend(m)
        PROVE  Chain!Publish(m)
    <2>1. PICK pc \in {"settle", "undo"} : Replace(m, pc)
      BY <1>4 DEF Publish, Resend
    <2>2. /\ job[m].pc = "publish" /\ manifest = job[m].remote
          /\ UNCHANGED <<chain, localVars>>
      BY <1>4 DEF Publish, Resend
    <2> QED
      BY <2>1, <2>2, Putting
  <1>5. ASSUME NEW m \in Machines, DeleteManifest(m)
        PROVE  [Chain!Next]_(Chain!vars)
    <2>1. CASE manifest = NoManifest
      <3>1. UNCHANGED <<manifest, chain, seen, lastSeen>>
        BY <1>5, <2>1 DEF DeleteManifest, localVars
      <3> QED
        BY <1>1, <3>1
    <2>2. CASE manifest # NoManifest
      <3>1. Chain!Clear
        BY <1>5, <2>2 DEF DeleteManifest, localVars, Chain!Clear, NoManifest, NoObject
      <3> QED
        BY <3>1 DEF Chain!Next
    <2> QED
      BY <2>1, <2>2
  <1>6. ASSUME NEW m \in Machines,
               (\E op \in Operations : Invoke(m, op)) \/ Read(m) \/ Missing(m) \/ Guard(m)
                 \/ Export(m) \/ Conflict(m) \/ Undo(m)
        PROVE  [Chain!Next]_(Chain!vars)
    <2>1. UNCHANGED <<manifest, chain, seen, lastSeen>>
      BY <1>6 DEF Invoke, Read, Missing, Guard, Export, Conflict, Undo, storeVars, localVars
    <2> QED
      BY <1>1, <2>1
  <1>7. CASE UNCHANGED vars
    BY <1>1, <1>7 DEF vars
  <1>8. CASE Next
    <2>1. PICK m \in Machines :
            \/ \E op \in Operations : Invoke(m, op)
            \/ Command(m)
            \/ \E e \in Entries, standing \in Standings : Edit(m, e, standing)
            \/ Resend(m) \/ Crash(m)
      BY <1>8 DEF Next
    <2> QED
      BY <1>2, <1>3, <1>4, <1>5, <1>6, <2>1 DEF Command
  <1> QED
    BY <1>7, <1>8

\* Brain sync implements the chain: a machine overwrites only what it has seen,
\* unless its marker is of a chain that was reset since (push and its merge).
THEOREM Implements == Spec => ImplementsChain
  <1> QED
    BY HistoryInit, HistoryStep, ChainInit, ChainStep, PTL
    DEF Spec, ImplementsChain, Chain!Spec

-----------------------------------------------------------------------------
(***************************************************************************)
(* What BrainSync does to the store and to its users, for any number of    *)
(* machines, memories, commands and faults: the live object stays, a push  *)
(* over undecided imports does not happen, a conflict means contention.    *)
(*                                                                         *)
(* The live object stays because an object has its name from one export    *)
(* (Apart), and because nobody deletes what is live or about to be: an     *)
(* undone push deletes a draft that was never published, a settled one     *)
(* what it replaced (Replaced).  A conflict means contention because a     *)
(* push that finds its object missing, or its put refused, was overtaken   *)
(* since its read (Counted), the live object being there.                  *)
(***************************************************************************)

Name(r)  == r.object.name
Draft(m) == job[m].pc \in {"publish", "undo"}

NamesHandedOut ==
  /\ Name(manifest) <= named
  /\ \A m \in Machines : Name(job[m].remote) <= named

\* A draft is nobody else's draft, and was not published.
Fresh(m) ==
  Draft(m) => /\ 0 < Name(job[m].mine) /\ Name(job[m].mine) <= named
              /\ Name(job[m].mine) # Name(manifest)
Apart(m, n) ==
  Draft(m) => /\ Name(job[n].remote) # Name(job[m].mine)
              /\ n # m /\ Draft(n) => Name(job[n].mine) # Name(job[m].mine)

\* What a settled push deletes is not live again.
Replaced(m) ==
  job[m].pc = "settle" /\ manifest # NoManifest => Name(job[m].remote) # Name(manifest)

\* What is about to be published is in the store.
Uploaded(m) == job[m].pc = "publish" => job[m].mine.object \in objects

Storage ==
  /\ NamesHandedOut
  /\ \A m \in Machines : Fresh(m) /\ Replaced(m) /\ Uploaded(m)
  /\ \A m, n \in Machines : Apart(m, n)
  /\ manifest # NoManifest => manifest.object \in objects

\* Every attempt but the present one was overtaken, and that one too once it is
\* to be undone or the manifest is not what it read.
Counted(m) ==
  /\ job[m].overtaken + 1 >= job[m].attempt
  /\ \/ job[m].pc = "undo"
     \/ /\ job[m].pc \in {"fetch", "export", "publish"}
        /\ job[m].pushing /\ job[m].remote # manifest
     => job[m].overtaken >= job[m].attempt

Pushing(m) == job[m].pc \in {"export", "publish", "undo"} => job[m].pushing

\* What is fetched was read, and what an unforced push finds undecided was
\* brought by its own merges.
Fetching(m) == job[m].pc = "fetch" => job[m].remote # NoManifest
Decided(m) ==
  job[m].op = "push" /\ job[m].pushing
    => \A e \in Entries : brain[m][e] = "suggested" => e \in job[m].imported

StoreInv ==
  /\ History
  /\ ~resent => Storage /\ \A m \in Machines : Counted(m)
  /\ \A m \in Machines : Pushing(m) /\ Fetching(m) /\ Decided(m)

-----------------------------------------------------------------------------
(* The shapes of a job                                                     *)

\* What AfterMerge and AfterRead leave as it was.
SameCount(j, k) ==
  /\ j.op = k.op /\ j.pushing = k.pushing /\ j.imported = k.imported
  /\ j.attempt = k.attempt /\ j.overtaken = k.overtaken

LEMMA AfterMergeShape ==
  ASSUME NEW j \in Jobs
  PROVE  \/ AfterMerge(j) = Idle
         \/ /\ AfterMerge(j).pc \in {"guard", "export"}
            /\ AfterMerge(j).remote = j.remote
            /\ SameCount(AfterMerge(j), j)
            /\ AfterMerge(j).pc = "export" => j.pushing
  <1>1. \/ AfterMerge(j) = [j EXCEPT !.pc = "export"] /\ j.pushing
        \/ AfterMerge(j) = [j EXCEPT !.pc = "guard"]
        \/ AfterMerge(j) = Idle
    BY DEF AfterMerge
  <1>2. ASSUME NEW pc \in {"export", "guard"}
        PROVE  /\ [j EXCEPT !.pc = pc].pc = pc /\ [j EXCEPT !.pc = pc].remote = j.remote
               /\ SameCount([j EXCEPT !.pc = pc], j)
    BY DEF Jobs, SameCount
  <1>3. CASE AfterMerge(j) = Idle
    BY <1>3
  <1>4. CASE AfterMerge(j) = [j EXCEPT !.pc = "export"] /\ j.pushing
    BY <1>2, <1>4
  <1>5. CASE AfterMerge(j) = [j EXCEPT !.pc = "guard"]
    BY <1>2, <1>5
  <1> QED
    BY <1>1, <1>3, <1>4, <1>5

LEMMA AfterReadShape ==
  ASSUME TypeOK, NEW m \in Machines, NEW j \in Jobs
  PROVE  \/ AfterRead(m, j) = Idle
         \/ /\ AfterRead(m, j).pc \in {"fetch", "guard", "export"}
            /\ AfterRead(m, j).remote = manifest
            /\ SameCount(AfterRead(m, j), j)
            /\ AfterRead(m, j).pc = "fetch" => manifest # NoManifest
            /\ AfterRead(m, j).pc = "export" => j.pushing
  <1> DEFINE read == [j EXCEPT !.remote = manifest]
  <1>1. read \in Jobs /\ read.remote = manifest /\ SameCount(read, j)
    BY DEF TypeOK, Jobs, SameCount
  <1> HIDE DEF read
  <1>2. \/ AfterRead(m, j) = [read EXCEPT !.pc = "fetch"] /\ manifest.gen > lastSeen[m].gen
        \/ AfterRead(m, j) = AfterMerge(read)
        \/ AfterRead(m, j) = Idle
    BY DEF AfterRead, read
  <1>3. CASE AfterRead(m, j) = [read EXCEPT !.pc = "fetch"] /\ manifest.gen > lastSeen[m].gen
    <2>1. /\ [read EXCEPT !.pc = "fetch"].pc = "fetch"
          /\ [read EXCEPT !.pc = "fetch"].remote = manifest
          /\ SameCount([read EXCEPT !.pc = "fetch"], j)
      BY <1>1 DEF Jobs, SameCount
    <2>2. manifest # NoManifest
      BY <1>3 DEF TypeOK, NoManifest
    <2> QED
      BY <1>3, <2>1, <2>2
  <1>4. CASE AfterRead(m, j) = AfterMerge(read)
    BY <1>1, <1>4, AfterMergeShape DEF SameCount
  <1> QED
    BY <1>2, <1>3, <1>4

LEMMA IdleShape ==
  /\ Idle.pc = "idle" /\ Idle.remote = NoManifest /\ Idle.pushing = FALSE
  /\ Idle.overtaken = 0 /\ Idle.attempt = 1
  BY DEF Idle

LEMMA NoName == NoManifest.object.name = 0
  BY DEF NoManifest, NoObject

LEMMA NameType ==
  ASSUME TypeOK
  PROVE  /\ named \in Nat /\ Name(manifest) \in Nat
         /\ \A m \in Machines : Name(job[m].remote) \in Nat /\ Name(job[m].mine) \in Nat
  <1>1. \A r \in Manifests \cup {NoManifest} : Name(r) \in Nat
    BY NoName DEF Manifests, Objects, Name
  <1>2. \A m \in Machines : /\ job[m].remote \in Manifests \cup {NoManifest}
                           /\ job[m].mine \in Manifests \cup {NoManifest}
    BY DEF TypeOK, Jobs
  <1> QED
    BY <1>1, <1>2 DEF TypeOK

-----------------------------------------------------------------------------
(* The store                                                               *)

\* A step of m that hands out no name and publishes nothing, and deletes, if
\* anything, neither the live object nor what somebody else is about to publish.
LEMMA StorageKept ==
  ASSUME TypeOK, Storage, NEW m \in Machines,
         manifest' \in {manifest, NoManifest}, named' = named,
         \A n \in Machines \ {m} :
           job'[n].pc = job[n].pc /\ job'[n].remote = job[n].remote /\ job'[n].mine = job[n].mine,
         job'[m].remote \in {NoManifest, job[m].remote, manifest},
         job'[m].pc \notin {"publish", "settle"},
         job'[m].pc = "undo" => job[m].pc = "publish" /\ job'[m].mine = job[m].mine,
         \A n \in Machines \ {m} : job[n].pc = "publish" => job[n].mine.object \in objects',
         manifest' # NoManifest => manifest.object \in objects'
  PROVE  Storage'
  <1>n. /\ named \in Nat /\ Name(manifest) \in Nat /\ Name(NoManifest) = 0
        /\ \A n \in Machines : Name(job[n].remote) \in Nat /\ Name(job[n].mine) \in Nat
    BY NameType, NoName DEF Name
  <1>1. Name(manifest') \in {Name(manifest), 0} /\ Name(job'[m].remote) \in
          {0, Name(job[m].remote), Name(manifest)}
    BY <1>n DEF Name
  <1>2. \A n \in Machines : Draft(n)' => Draft(n) /\ job'[n].mine = job[n].mine
    BY DEF Draft
  <1>3. NamesHandedOut'
    BY <1>n, <1>1 DEF NamesHandedOut, Storage, Name
  <1>4. ASSUME NEW n \in Machines
        PROVE  Fresh(n)'
    <2>1. Draft(n) => Fresh(n) /\ 0 < Name(job[n].mine)
      BY DEF Storage, Fresh
    <2> QED
      BY <1>n, <1>1, <1>2, <2>1 DEF Fresh, Name
  <1>5. ASSUME NEW n \in Machines
        PROVE  Replaced(n)' /\ Uploaded(n)'
    <2>1. Replaced(n) /\ Uploaded(n)
      BY DEF Storage
    <2> QED
      BY <2>1 DEF Replaced, Uploaded, Name
  <1>6. ASSUME NEW n \in Machines, NEW l \in Machines
        PROVE  Apart(n, l)'
    <2>1. Apart(n, l) /\ Fresh(n)
      BY DEF Storage
    <2>2. Draft(n) => Name(job'[l].remote) # Name(job[n].mine)
      <3>1. CASE l = m
        BY <1>n, <1>1, <2>1, <3>1 DEF Apart, Fresh
      <3>2. CASE l # m
        BY <2>1, <3>2 DEF Apart
      <3> QED
        BY <3>1, <3>2
    <2>3. Draft(n)' => /\ Name(job'[n].mine) = Name(job[n].mine)
                       /\ Draft(l)' => Name(job'[l].mine) = Name(job[l].mine)
      BY <1>2 DEF Name
    <2> QED
      BY <1>2, <2>1, <2>2, <2>3 DEF Apart, Name
  <1>7. manifest' # NoManifest => manifest'.object \in objects'
    OBVIOUS
  <1> QED
    BY <1>3, <1>4, <1>5, <1>6, <1>7 DEF Storage

LEMMA StorageExport ==
  ASSUME TypeOK, Storage, NEW m \in Machines, Export(m)
  PROVE  Storage'
  <1> DEFINE bundle == [name |-> named + 1,
                        content |-> {e \in Entries : brain[m][e] = "approved"}]
             next   == [gen |-> job[m].remote.gen + 1, object |-> bundle, chain |-> chain]
  <1>n. /\ named \in Nat /\ Name(manifest) \in Nat
        /\ \A n \in Machines : Name(job[n].remote) \in Nat /\ Name(job[n].mine) \in Nat
    BY NameType
  <1>j. \A n \in Machines : job[n] \in Jobs
    BY DEF TypeOK
  <1>1. /\ objects' = objects \cup {bundle} /\ named' = named + 1 /\ manifest' = manifest
        /\ job[m].pc = "export"
        /\ job'[m] = [job[m] EXCEPT !.pc = "publish", !.mine = next]
        /\ \A n \in Machines \ {m} : job'[n] = job[n]
    BY DEF Export, ToJob, TypeOK
  <1>2. /\ job'[m].pc = "publish" /\ job'[m].remote = job[m].remote
        /\ job'[m].mine.object = bundle /\ Name(job'[m].mine) = named + 1
    <2>1. next.object = bundle /\ bundle.name = named + 1
      OBVIOUS
    <2> HIDE DEF next, bundle
    <2>2. /\ job'[m].pc = "publish" /\ job'[m].remote = job[m].remote
          /\ job'[m].mine = next
      BY <1>1, <1>j DEF Jobs
    <2> QED
      BY <2>1, <2>2 DEF Name
  <1> HIDE DEF next, bundle
  <1>3. \A n \in Machines : Name(job'[n].remote) = Name(job[n].remote)
    BY <1>1, <1>2 DEF Name
  <1>4. /\ Name(manifest) <= named
        /\ \A n \in Machines :
             /\ Name(job[n].remote) <= named
             /\ Draft(n) => Name(job[n].mine) <= named
    BY DEF Storage, NamesHandedOut, Fresh
  <1>5. NamesHandedOut'
    BY <1>n, <1>1, <1>3, <1>4 DEF NamesHandedOut, Name
  <1>6. ASSUME NEW n \in Machines
        PROVE  Fresh(n)' /\ Replaced(n)' /\ Uploaded(n)'
    <2>1. CASE n = m
      <3>1. 0 < named + 1 /\ named + 1 <= named' /\ named + 1 # Name(manifest)
        BY <1>n, <1>1, <1>4
      <3>2. Name(manifest)' = Name(manifest) /\ Name(job[m].mine)' = named + 1
        BY <1>1, <1>2 DEF Name
      <3> QED
        BY <1>1, <1>2, <2>1, <3>1, <3>2 DEF Fresh, Replaced, Uploaded
    <2>2. CASE n # m
      <3>1. Fresh(n) /\ Replaced(n) /\ Uploaded(n)
        BY DEF Storage
      <3>2. job'[n] = job[n]
        BY <1>1, <2>2
      <3>3. Draft(n) => Name(job[n].mine) <= named + 1
        BY <1>n, <1>4
      <3> QED
        BY <1>1, <3>1, <3>2, <3>3 DEF Fresh, Replaced, Uploaded, Draft, Name
    <2> QED
      BY <2>1, <2>2
  <1>7. ASSUME NEW n \in Machines, NEW l \in Machines
        PROVE  Apart(n, l)'
    <2>1. Apart(n, l)
      BY DEF Storage
    <2>2. CASE n = m
      <3>1. Name(job'[l].remote) # Name(job'[n].mine)
        BY <1>n, <1>2, <1>3, <1>4, <2>2
      <3>2. l # n /\ Draft(l)' => Name(job'[l].mine) # Name(job'[n].mine)
        <4>1. l # m /\ Draft(l)' => Draft(l) /\ Name(job'[l].mine) = Name(job[l].mine)
          BY <1>1 DEF Draft, Name
        <4>2. Draft(l) => Name(job[l].mine) # named + 1
          BY <1>n, <1>4
        <4> QED
          BY <1>2, <2>2, <4>1, <4>2
      <3> QED
        BY <3>1, <3>2 DEF Apart, Name
    <2>3. CASE n # m /\ l = m
      <3>1. Draft(n)' => Draft(n) /\ Name(job'[n].mine) = Name(job[n].mine)
        BY <1>1, <2>3 DEF Draft
      <3>2. Draft(n) => Name(job[n].mine) # Name(job'[m].mine)
        BY <1>n, <1>2, <1>4
      <3> QED
        BY <1>3, <2>1, <2>3, <3>1, <3>2 DEF Apart, Name
    <2>4. CASE n # m /\ l # m
      BY <1>1, <2>1, <2>4 DEF Apart, Draft, Name
    <2> QED
      BY <2>2, <2>3, <2>4
  <1>8. manifest' # NoManifest => manifest'.object \in objects'
    BY <1>1 DEF Storage
  <1> QED
    BY <1>5, <1>6, <1>7, <1>8 DEF Storage

LEMMA StoragePublish ==
  ASSUME TypeOK, Storage, NEW m \in Machines, job[m].mine # NoManifest, Publish(m)
  PROVE  Storage'
  <1>n. /\ named \in Nat /\ Name(manifest) \in Nat
        /\ \A n \in Machines : Name(job[n].remote) \in Nat /\ Name(job[n].mine) \in Nat
    BY NameType
  <1>j. \A n \in Machines : job[n] \in Jobs
    BY DEF TypeOK
  <1>1. /\ manifest' = [job[m].mine EXCEPT !.chain = chain]
        /\ job'[m] = [job[m] EXCEPT !.pc = "settle", !.mine = manifest']
        /\ \A n \in Machines \ {m} :
             job'[n] = [job[n] EXCEPT !.overtaken = IF job[n].pushing THEN @ + 1 ELSE @]
    BY ReplaceType DEF Publish, Pcs
  <1>2. job[m].mine \in Manifests
    BY <1>j DEF Jobs
  <1>3. manifest'.object = job[m].mine.object
    BY <1>1, <1>2 DEF Manifests
  <1>4. /\ job'[m].pc = "settle" /\ job'[m].remote = job[m].remote
        /\ \A n \in Machines \ {m} :
             /\ job'[n].pc = job[n].pc /\ job'[n].remote = job[n].remote
             /\ job'[n].mine = job[n].mine
    <2>1. job'[m].pc = "settle" /\ job'[m].remote = job[m].remote
      BY <1>1, <1>j DEF Jobs
    <2>2. ASSUME NEW n \in Machines \ {m}
          PROVE  /\ job'[n].pc = job[n].pc /\ job'[n].remote = job[n].remote
                 /\ job'[n].mine = job[n].mine
      <3>1. job[n] \in Jobs
        BY <1>j
      <3>2. job'[n] = [job[n] EXCEPT !.overtaken = IF job[n].pushing THEN @ + 1 ELSE @]
        BY <1>1
      <3> QED
        BY <3>1, <3>2, OvertakenShape
    <2> QED
      BY <2>1, <2>2
  <1>5. job[m].pc = "publish" /\ Draft(m) /\ objects' = objects /\ named' = named
    BY DEF Publish, Draft, ownVars
  <1>6. Name(manifest') = Name(job[m].mine) /\ Name(job[m].mine) <= named
    BY <1>3, <1>5 DEF Name, Storage, Fresh
  <1>7. NamesHandedOut'
    BY <1>4, <1>5, <1>6 DEF NamesHandedOut, Storage, Name
  <1>8. ASSUME NEW n \in Machines
        PROVE  Fresh(n)' /\ Replaced(n)' /\ Uploaded(n)'
    <2>1. Apart(m, n) /\ Apart(n, m) /\ Fresh(n) /\ Uploaded(n)
      BY DEF Storage
    <2>2. CASE n = m
      BY <1>4, <1>5, <1>6, <2>1, <2>2 DEF Apart, Fresh, Replaced, Uploaded, Draft, Name
    <2>3. CASE n # m
      BY <1>4, <1>5, <1>6, <2>1, <2>3 DEF Apart, Fresh, Replaced, Uploaded, Draft, Name
    <2> QED
      BY <2>2, <2>3
  <1>9. ASSUME NEW n \in Machines, NEW l \in Machines
        PROVE  Apart(n, l)'
    <2>1. Apart(n, l)
      BY DEF Storage
    <2> QED
      BY <1>4, <2>1 DEF Apart, Draft, Name
  <1>10. manifest'.object \in objects'
    BY <1>3, <1>5 DEF Storage, Uploaded
  <1> QED
    BY <1>7, <1>8, <1>9, <1>10 DEF Storage

\* An undone push deletes a draft, a settled one what it replaced: neither is
\* live nor anybody else's draft.
LEMMA StorageDeletion ==
  ASSUME TypeOK, Storage, NEW m \in Machines, Undo(m) \/ Settle(m)
  PROVE  Storage'
  <1>j. job[m] \in Jobs
    BY DEF TypeOK
  <1>1. /\ manifest' = manifest /\ named' = named
        /\ \A n \in Machines \ {m} : job'[n] = job[n]
    BY DEF Undo, Settle, Ends, ToJob, TypeOK
  <1>2. job'[m].pc \in {"idle", "read"} /\ job'[m].remote = NoManifest
    <2>1. job'[m] \in {Retried(job[m]), Idle}
      BY DEF Undo, Settle, Ends, ToJob, TypeOK
    <2> QED
      BY <1>j, <2>1, RetriedType, IdleShape
  <1> DEFINE gone == IF Undo(m) THEN job[m].mine.object ELSE job[m].remote.object
  <1>3. objects \ {gone} \subseteq objects'
    <2>1. CASE Undo(m)
      BY <2>1 DEF Undo, Deleted
    <2>2. CASE ~Undo(m)
      BY <2>2 DEF Settle, Deleted
    <2> QED
      BY <2>1, <2>2
  <1>4. \A n \in Machines \ {m} : job[n].pc = "publish" => job[n].mine.object # gone
    <2> SUFFICES ASSUME NEW n \in Machines \ {m}, job[n].pc = "publish"
                 PROVE  job[n].mine.object # gone
      OBVIOUS
    <2>1. Apart(n, m) /\ Draft(n)
      BY DEF Storage, Draft
    <2>2. Undo(m) => Draft(m)
      BY DEF Undo, Draft
    <2> QED
      BY <2>1, <2>2 DEF Apart, Name
  <1>5. manifest # NoManifest => manifest.object # gone
    <2>1. CASE Undo(m)
      BY <2>1 DEF Undo, Storage, Fresh, Draft, Name
    <2>2. CASE ~Undo(m)
      BY <2>2 DEF Settle, Storage, Replaced, Name
    <2> QED
      BY <2>1, <2>2
  <1> HIDE DEF gone
  <1>6. \A n \in Machines \ {m} : job[n].pc = "publish" => job[n].mine.object \in objects'
    BY <1>3, <1>4 DEF Storage, Uploaded
  <1>7. manifest # NoManifest => manifest.object \in objects'
    BY <1>3, <1>5 DEF Storage
  <1> QED
    BY <1>1, <1>2, <1>6, <1>7, StorageKept

LEMMA StorageStep ==
  ASSUME History, Storage, NEW m \in Machines,
         \/ (\E op \in Operations : Invoke(m, op)) \/ Command(m) \/ Crash(m)
         \/ \E e \in Entries, standing \in Standings : Edit(m, e, standing)
  PROVE  Storage'
  <1>t. TypeOK /\ job \in [Machines -> Jobs] /\ job[m] \in Jobs
    BY DEF History, TypeOK
  <1>1. ASSUME (\E op \in Operations : Invoke(m, op)) \/ Read(m) \/ Merge(m) \/ Missing(m)
                 \/ Guard(m) \/ Conflict(m) \/ ClearLastSeen(m) \/ Crash(m)
        PROVE  Storage'
    <2>1. /\ manifest' = manifest /\ named' = named /\ objects' = objects
          /\ \A n \in Machines \ {m} : job'[n] = job[n]
      BY <1>1, <1>t
      DEF Invoke, Read, Merge, Missing, Guard, Conflict, ClearLastSeen, Crash, Goes, Ends, ToJob,
          storeVars, ownVars
    <2>2. /\ job'[m].remote \in {NoManifest, job[m].remote, manifest}
          /\ job'[m].pc \notin {"publish", "settle"}
          /\ job'[m].pc = "undo" => job[m].pc = "publish" /\ job'[m].mine = job[m].mine
      <3>1. CASE \E op \in Operations : Invoke(m, op)
        <4>1. PICK op \in Operations : Invoke(m, op)
          BY <3>1
        <4>2. job'[m] = [Idle EXCEPT !.pc = IF op = "reset" THEN "delete" ELSE "read",
                                     !.op = op, !.pushing = (op = "force")]
          BY <1>t, <4>1 DEF Invoke, ToJob
        <4> QED
          BY <4>2 DEF Idle
      <3>2. CASE Read(m)
        <4>1. job'[m] = AfterRead(m, job[m])
          BY <1>t, <3>2 DEF Read, ToJob
        <4> QED
          BY <1>t, <4>1, AfterReadShape, IdleShape
      <3>3. CASE Merge(m)
        <4> DEFINE brought == Unknown(m, job[m].remote.object.content)
                   j == [job[m] EXCEPT !.imported = job[m].imported \cup brought]
        <4>1. job'[m] = AfterMerge(j)
          BY <1>t, <3>3 DEF Merge, ToJob
        <4>a. brought \subseteq Entries
          BY <1>t, BroughtType
        <4> HIDE DEF brought
        <4>2. j \in Jobs /\ j.remote = job[m].remote
          BY <1>t, <4>a DEF Jobs
        <4> QED
          BY <4>1, <4>2, AfterMergeShape, IdleShape
      <3>4. CASE Missing(m)
        <4>1. job'[m] \in {Retried(job[m]), Idle}
          BY <1>t, <3>4 DEF Missing, ToJob
        <4> QED
          BY <1>t, <4>1, RetriedType, IdleShape
      <3>5. CASE Guard(m)
        <4> DEFINE j == [job[m] EXCEPT !.pushing = TRUE, !.imported = {}]
        <4>1. job'[m] \in {AfterRead(m, j), Idle}
          BY <1>t, <3>5 DEF Guard, ToJob
        <4>2. j \in Jobs
          BY <1>t DEF Jobs
        <4> QED
          BY <1>t, <4>1, <4>2, AfterReadShape, IdleShape
      <3>6. CASE Conflict(m)
        <4>1. job'[m] \in {[job[m] EXCEPT !.pc = "undo"], Idle} /\ job[m].pc = "publish"
          BY <1>t, <3>6 DEF Conflict, Goes, Ends, ToJob
        <4>2. /\ [job[m] EXCEPT !.pc = "undo"].pc = "undo"
              /\ [job[m] EXCEPT !.pc = "undo"].mine = job[m].mine
              /\ [job[m] EXCEPT !.pc = "undo"].remote = job[m].remote
          BY <1>t DEF Jobs
        <4> QED
          BY <4>1, <4>2, IdleShape
      <3>7. CASE ClearLastSeen(m) \/ Crash(m)
        <4>1. job'[m] = Idle
          BY <1>t, <3>7 DEF ClearLastSeen, Crash, Ends, ToJob
        <4> QED
          BY <4>1, IdleShape
      <3> QED
        BY <1>1, <3>1, <3>2, <3>3, <3>4, <3>5, <3>6, <3>7
    <2>3. /\ \A n \in Machines \ {m} : job[n].pc = "publish" => job[n].mine.object \in objects'
          /\ manifest' # NoManifest => manifest.object \in objects'
      BY <2>1 DEF Storage, Uploaded
    <2> QED
      BY <1>t, <2>1, <2>2, <2>3, StorageKept
  <1>2. CASE Export(m)
    BY <1>t, <1>2, StorageExport
  <1>3. CASE Publish(m)
    BY <1>t, <1>3, StoragePublish DEF History, Sound, DraftIsOwn, Publish
  <1>4. CASE Undo(m) \/ Settle(m)
    BY <1>t, <1>4, StorageDeletion
  <1>5. CASE DeleteManifest(m)
    <2>1. /\ manifest' = NoManifest /\ named' = named /\ objects' = objects
      BY <1>5 DEF DeleteManifest, ownVars
    <2>2. /\ job'[m].pc = "clear" /\ job'[m].remote = job[m].remote
          /\ \A n \in Machines \ {m} :
               /\ job'[n].pc = job[n].pc /\ job'[n].remote = job[n].remote
               /\ job'[n].mine = job[n].mine
      <3> DEFINE to == [job[m] EXCEPT !.pc = "clear"]
      <3>1. to \in Jobs /\ to.pc = "clear" /\ to.remote = job[m].remote
        BY <1>t DEF Jobs, Pcs
      <3> HIDE DEF to
      <3>2. CASE manifest = NoManifest
        BY <1>5, <1>t, <3>1, <3>2, JobType DEF DeleteManifest, Goes, to
      <3>3. CASE manifest # NoManifest
        <4>1. Overtake(m, to)
          BY <1>5, <3>3 DEF DeleteManifest, to
        <4>2. /\ job'[m] = to
              /\ \A n \in Machines \ {m} :
                   job'[n] = [job[n] EXCEPT !.overtaken = IF job[n].pushing THEN @ + 1 ELSE @]
          BY <1>t, <3>1, <4>1, OvertakeType
        <4>3. \A n \in Machines : job[n] \in Jobs
          BY <1>t
        <4>4. ASSUME NEW n \in Machines \ {m}
              PROVE  /\ job'[n].pc = job[n].pc /\ job'[n].remote = job[n].remote
                     /\ job'[n].mine = job[n].mine
          <5>1. job'[n] = [job[n] EXCEPT !.overtaken = IF job[n].pushing THEN @ + 1 ELSE @]
            BY <4>2
          <5>2. job[n] \in Jobs
            BY <4>3
          <5> QED
            BY <5>1, <5>2, OvertakenShape
        <4> QED
          BY <3>1, <4>2, <4>4
      <3> QED
        BY <3>2, <3>3
    <2>3. \A n \in Machines \ {m} : job[n].pc = "publish" => job[n].mine.object \in objects'
      BY <2>1 DEF Storage, Uploaded
    <2> QED
      BY <1>t, <2>1, <2>2, <2>3, StorageKept
  <1>6. CASE \E e \in Entries, standing \in Standings : Edit(m, e, standing)
    <2>1. manifest' = manifest /\ objects' = objects /\ job' = job /\ named' = named
      BY <1>6 DEF Edit, storeVars
    <2> QED
      BY <2>1 DEF Storage, NamesHandedOut, Fresh, Replaced, Uploaded, Apart, Draft, Name
  <1> QED
    BY <1>1, <1>2, <1>3, <1>4, <1>5, <1>6 DEF Command

-----------------------------------------------------------------------------
(* Counting, and deciding                                                  *)

\* The live object is there, so a missing one is not live.
LEMMA MissingIsOvertaken ==
  ASSUME StoreInv, ~resent, NEW m \in Machines, Missing(m), job[m].pushing
  PROVE  job[m].overtaken >= job[m].attempt
  <1>1. job[m].pc = "fetch" /\ job[m].remote # NoManifest /\ job[m].remote.object \notin objects
    BY DEF Missing, StoreInv, Fetching
  <1>2. job[m].remote # manifest
    BY <1>1 DEF StoreInv, Storage
  <1> QED
    BY <1>1, <1>2 DEF StoreInv, Counted

\* What StoreInv says of m alone, after a step of m.
Kept(m) ==
  /\ ~resent' => Counted(m)'
  /\ Pushing(m)' /\ Fetching(m)' /\ Decided(m)'

LEMMA IdleKept ==
  ASSUME NEW m \in Machines, job'[m] = Idle
  PROVE  Kept(m)
  BY IdleShape DEF Kept, Counted, Pushing, Fetching, Decided

\* A job that starts over from a read.
LEMMA RetriedKept ==
  ASSUME TypeOK, NEW m \in Machines, job'[m] = Retried(job[m]), resent' = resent,
         brain' = brain, Decided(m), ~resent => job[m].overtaken >= job[m].attempt
  PROVE  Kept(m)
  <1>1. job[m] \in Jobs
    BY DEF TypeOK
  <1>2. \/ Retried(job[m]) = Idle
        \/ Retried(job[m]).pc = "read"
    <2>1. job[m].attempt = MaxAttempts => Retried(job[m]) = Idle
      BY DEF Retried
    <2>2. job[m].attempt # MaxAttempts => Retried(job[m]).pc = "read"
      <3>1. job[m].attempt # MaxAttempts =>
              Retried(job[m]) = [job[m] EXCEPT !.pc = "read", !.attempt = job[m].attempt + 1,
                                             !.remote = NoManifest, !.mine = NoManifest]
        BY DEF Retried, NextRound
      <3> QED
        BY <1>1, <3>1 DEF Jobs
    <2> QED
      BY <2>1, <2>2
  <1>3. CASE Retried(job[m]) = Idle
    BY <1>3, IdleKept
  <1>4. CASE Retried(job[m]).pc = "read"
    <2>1. /\ job'[m].pc = "read" /\ job'[m].attempt = job[m].attempt + 1
          /\ job'[m].op = job[m].op /\ job'[m].pushing = job[m].pushing
          /\ job'[m].imported = job[m].imported /\ job'[m].overtaken = job[m].overtaken
      BY <1>1, <1>4, RetriedType
    <2>2. job[m].overtaken \in Nat /\ job[m].attempt \in Nat
      BY <1>1, BoundsAssumption DEF Jobs
    <2>3. ~resent => job[m].overtaken + 1 >= job[m].attempt + 1
      BY <2>2
    <2>4. ~resent' => Counted(m)'
      BY <2>1, <2>3 DEF Counted
    <2>5. Decided(m)'
      BY <2>1 DEF Decided
    <2> QED
      BY <2>1, <2>4, <2>5 DEF Kept, Pushing, Fetching
  <1> QED
    BY <1>2, <1>3, <1>4

LEMMA ReadKept ==
  ASSUME TypeOK, NEW m \in Machines, NEW j \in Jobs, job'[m] = AfterRead(m, j),
         manifest' = manifest, brain' = brain,
         ~resent' => j.overtaken + 1 >= j.attempt,
         j.op = "push" /\ j.pushing
           => \A e \in Entries : brain[m][e] = "suggested" => e \in j.imported
  PROVE  Kept(m)
  <1>1. CASE AfterRead(m, j) = Idle
    BY <1>1, IdleKept
  <1>2. CASE /\ AfterRead(m, j).pc \in {"fetch", "guard", "export"}
             /\ AfterRead(m, j).remote = manifest
             /\ SameCount(AfterRead(m, j), j)
             /\ AfterRead(m, j).pc = "fetch" => manifest # NoManifest
             /\ AfterRead(m, j).pc = "export" => j.pushing
    <2>1. ~resent' => Counted(m)'
      BY <1>2 DEF Counted, SameCount
    <2>2. Decided(m)'
      BY <1>2 DEF Decided, SameCount
    <2> QED
      BY <1>2, <2>1, <2>2 DEF Kept, Pushing, Fetching, SameCount
  <1> QED
    BY <1>1, <1>2, AfterReadShape

LEMMA KeptReading ==
  ASSUME StoreInv, NEW m \in Machines,
         (\E op \in Operations : Invoke(m, op)) \/ Read(m) \/ Merge(m) \/ Missing(m) \/ Guard(m)
  PROVE  Kept(m)
  <1>t. TypeOK /\ job \in [Machines -> Jobs] /\ job[m] \in Jobs
    BY DEF StoreInv, History, TypeOK
  <1>u. /\ Pushing(m) /\ Fetching(m) /\ Decided(m)
        /\ ~resent => Counted(m)
        /\ resent' = resent /\ manifest' = manifest
    BY DEF StoreInv, Invoke, Read, Merge, Missing, Guard, storeVars, ownVars
  <1>1. ASSUME NEW op \in Operations, Invoke(m, op)
        PROVE  Kept(m)
    <2>1. job'[m] = [Idle EXCEPT !.pc = IF op = "reset" THEN "delete" ELSE "read",
                                 !.op = op, !.pushing = (op = "force")]
      BY <1>t, <1>1 DEF Invoke, ToJob
    <2>2. /\ job'[m].pc \in {"delete", "read"} /\ job'[m].op = op
          /\ job'[m].pushing = (op = "force")
          /\ job'[m].overtaken = 0 /\ job'[m].attempt = 1
      BY <2>1 DEF Idle
    <2>3. job'[m].op = "push" => ~job'[m].pushing
      BY <2>2
    <2>4. Counted(m)'
      BY <2>2 DEF Counted
    <2>5. Pushing(m)' /\ Fetching(m)' /\ Decided(m)'
      BY <2>2, <2>3 DEF Pushing, Fetching, Decided
    <2> QED
      BY <2>4, <2>5 DEF Kept
  <1>2. CASE Read(m)
    <2>1. job'[m] = AfterRead(m, job[m]) /\ brain' = brain
      BY <1>t, <1>2 DEF Read, ToJob, localVars
    <2> QED
      BY <1>t, <1>u, <2>1, ReadKept DEF Counted, Decided
  <1>3. CASE Merge(m)
    <2> DEFINE brought == Unknown(m, job[m].remote.object.content)
               j == [job[m] EXCEPT !.imported = job[m].imported \cup brought]
    <2>1. job'[m] = AfterMerge(j) /\ job[m].pc = "fetch"
      BY <1>t, <1>3 DEF Merge, ToJob
    <2>a. brought \subseteq Entries
      BY <1>t, BroughtType
    <2>b. \A e \in Entries :
            brain'[m][e] = "suggested" => brain[m][e] = "suggested" \/ e \in brought
      <3>1. Imported(m, job[m].remote.object.content)
        BY <1>3 DEF Merge
      <3>2. brain'[m] = [e \in Entries |-> IF e \in brought THEN "suggested" ELSE brain[m][e]]
        BY <1>t, <3>1 DEF Imported, TypeOK
      <3> QED
        BY <3>2
    <2> HIDE DEF brought
    <2>2. /\ j \in Jobs /\ j.remote = job[m].remote /\ j.pushing = job[m].pushing
          /\ j.overtaken = job[m].overtaken /\ j.attempt = job[m].attempt
          /\ j.op = job[m].op /\ j.imported = job[m].imported \cup brought
      BY <1>t, <2>a DEF Jobs
    <2> HIDE DEF j
    <2>3. CASE AfterMerge(j) = Idle
      BY <2>1, <2>3, IdleKept
    <2>4. CASE /\ AfterMerge(j).pc \in {"guard", "export"}
               /\ AfterMerge(j).remote = j.remote
               /\ SameCount(AfterMerge(j), j)
               /\ AfterMerge(j).pc = "export" => j.pushing
      <3>1. ~resent' => Counted(m)'
        BY <1>u, <2>1, <2>2, <2>4 DEF Counted, SameCount
      <3>2. Decided(m)'
        BY <1>u, <2>1, <2>2, <2>4, <2>b DEF Decided, SameCount
      <3> QED
        BY <2>1, <2>2, <2>4, <3>1, <3>2 DEF Kept, Pushing, Fetching, SameCount
    <2> QED
      BY <2>2, <2>3, <2>4, AfterMergeShape
  <1>4. CASE Missing(m)
    <2>1. job'[m] = (IF job[m].pushing THEN Retried(job[m]) ELSE Idle) /\ brain' = brain
      BY <1>t, <1>4 DEF Missing, ToJob, localVars
    <2>2. CASE job[m].pushing
      BY <1>t, <1>u, <1>4, <2>1, <2>2, MissingIsOvertaken, RetriedKept
    <2>3. CASE ~job[m].pushing
      BY <2>1, <2>3, IdleKept
    <2> QED
      BY <2>2, <2>3
  <1>5. CASE Guard(m)
    <2> DEFINE j == [job[m] EXCEPT !.pushing = TRUE, !.imported = {}]
    <2>1. /\ job'[m] = (IF \E e \in Entries : brain[m][e] = "suggested" THEN Idle
                        ELSE AfterRead(m, j))
          /\ brain' = brain
      BY <1>t, <1>5 DEF Guard, ToJob, localVars
    <2>2. j \in Jobs /\ j.overtaken = job[m].overtaken /\ j.attempt = job[m].attempt
      BY <1>t DEF Jobs
    <2> HIDE DEF j
    <2>3. CASE \E e \in Entries : brain[m][e] = "suggested"
      BY <2>1, <2>3, IdleKept
    <2>4. CASE ~\E e \in Entries : brain[m][e] = "suggested"
      <3>1. ~resent' => j.overtaken + 1 >= j.attempt
        BY <1>u, <2>2 DEF Counted
      <3> QED
        BY <1>t, <1>u, <2>1, <2>2, <2>4, <3>1, ReadKept
    <2> QED
      BY <2>3, <2>4
  <1> QED
    BY <1>1, <1>2, <1>3, <1>4, <1>5

LEMMA KeptWriting ==
  ASSUME StoreInv, NEW m \in Machines,
         Export(m) \/ Conflict(m) \/ Undo(m) \/ Settle(m) \/ ClearLastSeen(m) \/ Crash(m)
  PROVE  Kept(m)
  <1>t. TypeOK /\ job \in [Machines -> Jobs] /\ job[m] \in Jobs
    BY DEF StoreInv, History, TypeOK
  <1>u. /\ Pushing(m) /\ Fetching(m) /\ Decided(m)
        /\ ~resent => Counted(m)
        /\ resent' = resent /\ manifest' = manifest
    BY DEF StoreInv, Export, Conflict, Undo, Settle, ClearLastSeen, Crash, storeVars, ownVars
  <1>1. CASE Export(m)
    <2>1. /\ job[m].pc = "export" /\ brain' = brain
          /\ \E next : job'[m] = [job[m] EXCEPT !.pc = "publish", !.mine = next]
      BY <1>t, <1>1 DEF Export, ToJob, localVars
    <2>2. /\ job'[m].pc = "publish" /\ job'[m].remote = job[m].remote
          /\ SameCount(job'[m], job[m])
      BY <1>t, <2>1 DEF Jobs, SameCount
    <2>3. ~resent' => Counted(m)'
      BY <1>u, <2>1, <2>2 DEF Counted, SameCount
    <2>4. Decided(m)'
      BY <1>u, <2>1, <2>2 DEF Decided, SameCount
    <2> QED
      BY <1>u, <2>1, <2>2, <2>3, <2>4 DEF Kept, Pushing, Fetching, SameCount
  <1>2. CASE Conflict(m)
    <2>1. /\ job[m].pc = "publish" /\ manifest # job[m].remote /\ brain' = brain
          /\ job'[m] \in {[job[m] EXCEPT !.pc = "undo"], Idle}
      BY <1>t, <1>2 DEF Conflict, Goes, Ends, ToJob, localVars
    <2>2. CASE job'[m] = Idle
      BY <2>2, IdleKept
    <2>3. CASE job'[m] = [job[m] EXCEPT !.pc = "undo"]
      <3>1. /\ job'[m].pc = "undo" /\ job'[m].remote = job[m].remote
            /\ SameCount(job'[m], job[m])
        BY <1>t, <2>3 DEF Jobs, SameCount
      <3>2. ~resent' => Counted(m)'
        BY <1>u, <2>1, <3>1 DEF Counted, SameCount, Pushing
      <3>3. Decided(m)'
        BY <1>u, <2>1, <3>1 DEF Decided, SameCount
      <3> QED
        BY <1>u, <2>1, <3>1, <3>2, <3>3 DEF Kept, Pushing, Fetching, SameCount
    <2> QED
      BY <2>1, <2>2, <2>3
  <1>3. CASE Undo(m)
    <2>1. job'[m] = Retried(job[m]) /\ brain' = brain /\ job[m].pc = "undo"
      BY <1>t, <1>3 DEF Undo, ToJob, localVars
    <2>2. ~resent => job[m].overtaken >= job[m].attempt
      BY <1>u, <2>1 DEF Counted
    <2> QED
      BY <1>t, <1>u, <2>1, <2>2, RetriedKept
  <1>4. CASE Settle(m) \/ ClearLastSeen(m) \/ Crash(m)
    <2>1. job'[m] = Idle
      BY <1>t, <1>4 DEF Settle, ClearLastSeen, Crash, Ends, ToJob
    <2> QED
      BY <2>1, IdleKept
  <1> QED
    BY <1>1, <1>2, <1>3, <1>4

\* The manifest changes: the others are overtaken, and m goes on without it.
LEMMA KeptOvertaken ==
  ASSUME StoreInv, NEW m \in Machines, NEW to \in Jobs, Overtake(m, to), brain' = brain,
         to.pc \in {"settle", "clear"} \/ (to.pc = "undo" /\ resent' /\ to.pushing),
         SameCount(to, job[m]), ~resent' => ~resent
  PROVE  \A n \in Machines : Kept(n)
  <1>t. TypeOK /\ \A n \in Machines : job[n] \in Jobs
    BY DEF StoreInv, History, TypeOK
  <1>1. /\ job'[m] = to
        /\ \A n \in Machines \ {m} :
             job'[n] = [job[n] EXCEPT !.overtaken = IF job[n].pushing THEN @ + 1 ELSE @]
    BY <1>t, OvertakeType
  <1>2. Kept(m)
    <2>1. ~resent => Counted(m)
      BY DEF StoreInv
    <2>2. ~resent' => Counted(m)'
      BY <1>1, <2>1 DEF Counted, SameCount
    <2>3. Pushing(m)' /\ Fetching(m)'
      BY <1>1 DEF Pushing, Fetching
    <2>4. Decided(m)'
      BY <1>1 DEF StoreInv, Decided, SameCount
    <2> QED
      BY <2>2, <2>3, <2>4 DEF Kept
  <1>3. ASSUME NEW n \in Machines \ {m}
        PROVE  Kept(n)
    <2>1. job'[n] = [job[n] EXCEPT !.overtaken = IF job[n].pushing THEN @ + 1 ELSE @]
      BY <1>1
    <2>2. /\ job'[n].pc = job[n].pc /\ job'[n].remote = job[n].remote
          /\ job'[n].op = job[n].op /\ job'[n].pushing = job[n].pushing
          /\ job'[n].imported = job[n].imported /\ job'[n].attempt = job[n].attempt
          /\ job'[n].overtaken = IF job[n].pushing THEN job[n].overtaken + 1
                                ELSE job[n].overtaken
      BY <1>t, <2>1, OvertakenShape
    <2>3. job[n].overtaken \in Nat /\ job[n].attempt \in Nat
      BY <1>t, BoundsAssumption DEF Jobs
    <2>4. /\ Pushing(n) /\ Fetching(n) /\ Decided(n)
          /\ ~resent => Counted(n)
      BY DEF StoreInv
    <2>5. ~resent' => Counted(n)'
      <3>1. ASSUME ~resent'
            PROVE  /\ job'[n].overtaken + 1 >= job'[n].attempt
                   /\ job[n].pushing => job'[n].overtaken >= job'[n].attempt
                   /\ job[n].pc = "undo" => job[n].pushing
        BY <2>2, <2>3, <2>4, <3>1 DEF Counted, Pushing
      <3> QED
        BY <2>2, <3>1 DEF Counted
    <2>6. Pushing(n)' /\ Fetching(n)'
      BY <2>2, <2>4 DEF Pushing, Fetching
    <2>7. Decided(n)'
      BY <2>2, <2>4 DEF Decided
    <2> QED
      BY <2>5, <2>6, <2>7 DEF Kept
  <1> QED
    BY <1>2, <1>3

\* The manifest does not change: only m is concerned.
LEMMA KeptAlone ==
  ASSUME StoreInv, NEW m \in Machines, Kept(m), manifest' = manifest, resent' = resent,
         \A n \in Machines \ {m} : job'[n] = job[n] /\ brain'[n] = brain[n]
  PROVE  \A n \in Machines : Kept(n)
  <1> SUFFICES ASSUME NEW n \in Machines \ {m} PROVE Kept(n)
    OBVIOUS
  <1>1. /\ Pushing(n) /\ Fetching(n) /\ Decided(n)
        /\ ~resent => Counted(n)
    BY DEF StoreInv
  <1> QED
    BY <1>1 DEF Kept, Pushing, Fetching, Decided, Counted

LEMMA KeptStep ==
  ASSUME StoreInv, NEW m \in Machines,
         \/ (\E op \in Operations : Invoke(m, op)) \/ Command(m) \/ Resend(m) \/ Crash(m)
         \/ \E e \in Entries, standing \in Standings : Edit(m, e, standing)
  PROVE  \A n \in Machines : Kept(n)
  <1>t. TypeOK /\ job \in [Machines -> Jobs] /\ job[m] \in Jobs
    BY DEF StoreInv, History, TypeOK
  <1>1. ASSUME (\E op \in Operations : Invoke(m, op)) \/ Read(m) \/ Merge(m) \/ Missing(m)
                 \/ Guard(m) \/ Export(m) \/ Conflict(m) \/ Undo(m) \/ Settle(m)
                 \/ ClearLastSeen(m) \/ Crash(m)
        PROVE  \A n \in Machines : Kept(n)
    <2>1. Kept(m)
      BY <1>1, KeptReading, KeptWriting
    <2>2. manifest' = manifest /\ resent' = resent
      BY <1>1 DEF Invoke, Read, Merge, Missing, Guard, Export, Conflict, Undo, Settle,
                  ClearLastSeen, Crash, storeVars, ownVars
    <2>3. \A n \in Machines \ {m} : job'[n] = job[n]
      BY <1>1, <1>t
      DEF Invoke, Read, Merge, Missing, Guard, Export, Conflict, Undo, Settle,
          ClearLastSeen, Crash, Goes, Ends, ToJob
    <2>4. \A n \in Machines \ {m} : brain'[n] = brain[n]
      BY <1>1, <1>t
      DEF Invoke, Read, Merge, Missing, Guard, Export, Conflict, Undo, Settle,
          ClearLastSeen, Crash, Imported, TypeOK, localVars
    <2> QED
      BY <2>1, <2>2, <2>3, <2>4, KeptAlone
  <1>2. CASE Publish(m) \/ Resend(m)
    <2>1. PICK pc \in {"settle", "undo"} : Replace(m, pc) /\ (pc = "undo" => resent')
      BY <1>2 DEF Publish, Resend
    <2> DEFINE to == [job[m] EXCEPT !.pc = pc, !.mine = [job[m].mine EXCEPT !.chain = chain]]
    <2>2. Overtake(m, to)
      BY <2>1 DEF Replace
    <2>3. job[m].mine \in Manifests
      BY <1>t, <1>2 DEF StoreInv, History, Sound, DraftIsOwn, Publish, Resend, Jobs
    <2>4. [job[m].mine EXCEPT !.chain = chain] \in Manifests
      BY <1>t, <2>3 DEF TypeOK, Manifests
    <2>5. to \in Jobs /\ to.pc = pc /\ SameCount(to, job[m])
      BY <1>t, <2>4 DEF Jobs, Pcs, SameCount
    <2>6. job[m].pushing
      BY <1>2 DEF StoreInv, Pushing, Publish, Resend
    <2>7. brain' = brain /\ (~resent' => ~resent)
      BY <1>2 DEF Publish, Resend, localVars, ownVars
    <2>8. to.pushing
      BY <2>5, <2>6 DEF SameCount
    <2> HIDE DEF to
    <2> QED
      BY <2>1, <2>2, <2>5, <2>7, <2>8, KeptOvertaken
  <1>3. CASE DeleteManifest(m)
    <2> DEFINE to == [job[m] EXCEPT !.pc = "clear"]
    <2>1. to \in Jobs /\ to.pc = "clear" /\ SameCount(to, job[m])
      BY <1>t DEF Jobs, Pcs, SameCount
    <2>2. brain' = brain /\ resent' = resent
      BY <1>3 DEF DeleteManifest, localVars, ownVars
    <2>3. CASE manifest # NoManifest
      <3>1. Overtake(m, to)
        BY <1>3, <2>3 DEF DeleteManifest
      <3> HIDE DEF to
      <3> QED
        BY <2>1, <2>2, <3>1, KeptOvertaken
    <2>4. CASE manifest = NoManifest
      <3>1. job'[m] = to /\ \A n \in Machines \ {m} : job'[n] = job[n]
        BY <1>t, <1>3, <2>4 DEF DeleteManifest, Goes, ToJob
      <3>2. manifest' = manifest
        BY <1>3, <2>4 DEF DeleteManifest
      <3> HIDE DEF to
      <3>3. /\ Decided(m)
            /\ ~resent => Counted(m)
        BY DEF StoreInv
      <3>4. ~resent' => Counted(m)'
        BY <2>1, <2>2, <3>1, <3>3 DEF Counted, SameCount
      <3>5. Decided(m)'
        BY <2>1, <2>2, <3>1, <3>3 DEF Decided, SameCount
      <3>6. Kept(m)
        BY <2>1, <3>1, <3>4, <3>5 DEF Kept, Pushing, Fetching
      <3> QED
        BY <2>2, <3>1, <3>2, <3>6, KeptAlone
    <2> QED
      BY <2>3, <2>4
  <1>4. ASSUME NEW e \in Entries, NEW standing \in Standings, Edit(m, e, standing)
        PROVE  \A n \in Machines : Kept(n)
    <2>1. job' = job /\ manifest' = manifest /\ resent' = resent
      BY <1>4 DEF Edit, storeVars
    <2>2. standing # "suggested" /\ brain' = [brain EXCEPT ![m][e] = standing]
      BY <1>4 DEF Edit
    <2>3. \A n \in Machines, f \in Entries : brain'[n][f] = "suggested" => brain[n][f] = "suggested"
      BY <1>t, <2>2 DEF TypeOK
    <2> SUFFICES ASSUME NEW n \in Machines PROVE Kept(n)
      OBVIOUS
    <2>4. /\ Pushing(n) /\ Fetching(n) /\ Decided(n)
          /\ ~resent => Counted(n)
      BY DEF StoreInv
    <2>5. Decided(n)'
      BY <2>1, <2>3, <2>4 DEF Decided
    <2> QED
      BY <2>1, <2>4, <2>5 DEF Kept, Pushing, Fetching, Counted
  <1> QED
    BY <1>1, <1>2, <1>3, <1>4 DEF Command

-----------------------------------------------------------------------------
(* The theorems                                                            *)

LEMMA StoreInit == Init => StoreInv
  <1> SUFFICES ASSUME Init PROVE StoreInv
    OBVIOUS
  <1>1. History
    BY HistoryInit
  <1>2. \A m \in Machines : job[m] = Idle
    BY DEF Init
  <1>3. manifest = NoManifest /\ named = 0
    BY DEF Init
  <1>4. Storage
    BY <1>2, <1>3, NoName, IdleShape
    DEF Storage, NamesHandedOut, Fresh, Replaced, Uploaded, Apart, Draft, Name
  <1>5. \A m \in Machines : Counted(m) /\ Pushing(m) /\ Fetching(m) /\ Decided(m)
    BY <1>2, IdleShape DEF Counted, Pushing, Fetching, Decided
  <1> QED
    BY <1>1, <1>4, <1>5 DEF StoreInv

LEMMA StoreStep == StoreInv /\ [Next]_vars => StoreInv'
  <1> SUFFICES ASSUME StoreInv, [Next]_vars PROVE StoreInv'
    OBVIOUS
  <1>1. History'
    BY HistoryStep DEF StoreInv
  <1>2. CASE UNCHANGED vars
    <2>1. ~resent' => Storage'
      BY <1>2 DEF vars, StoreInv, Storage, NamesHandedOut, Fresh, Replaced, Uploaded, Apart,
                  Draft, Name
    <2>2. \A m \in Machines : /\ ~resent' => Counted(m)'
                             /\ Pushing(m)' /\ Fetching(m)' /\ Decided(m)'
      BY <1>2 DEF vars, StoreInv, Counted, Pushing, Fetching, Decided
    <2> QED
      BY <1>1, <2>1, <2>2 DEF StoreInv
  <1>3. CASE Next
    <2>1. PICK m \in Machines :
            \/ \E op \in Operations : Invoke(m, op)
            \/ Command(m)
            \/ \E e \in Entries, standing \in Standings : Edit(m, e, standing)
            \/ Resend(m) \/ Crash(m)
      BY <1>3 DEF Next
    <2>2. \A n \in Machines : Kept(n)
      BY <2>1, KeptStep
    <2>3. ~resent' => Storage'
      <3>1. CASE Resend(m)
        BY <3>1 DEF Resend
      <3>2. CASE ~Resend(m)
        <4>1. ~resent' => ~resent
          BY <2>1, <3>2
          DEF Command, Invoke, Read, Merge, Missing, Guard, Export, Publish, Conflict, Undo,
              Settle, DeleteManifest, ClearLastSeen, Edit, Crash, ownVars
        <4> QED
          BY <2>1, <3>2, <4>1, StorageStep DEF StoreInv
      <3> QED
        BY <3>1, <3>2
    <2> QED
      BY <1>1, <2>2, <2>3 DEF StoreInv, Kept
  <1> QED
    BY <1>2, <1>3

\* The live manifest names an object that is in the store, unless the client
\* library repeated a conditional put (push deletes what it superseded, and what
\* it wrote for nothing).
THEOREM LiveObjectStays == Spec => []LiveObjectPresent
  <1>1. StoreInv => LiveObjectPresent
    BY DEF StoreInv, Storage, LiveObjectPresent
  <1> QED
    BY <1>1, StoreInit, StoreStep, PTL DEF Spec

\* An unforced push leaves no import that nobody decided on out of its bundle but
\* for those its own merges brought after the guard of runBrainSyncPush.
THEOREM UndecidedKept == Spec => PushKeepsUndecided
  <1>1. StoreInv /\ [Next]_vars =>
          [\A m \in Machines :
             Export(m) /\ job[m].op = "push"
               => \A e \in Entries : brain[m][e] = "suggested" => e \in job[m].imported]_vars
    BY DEF StoreInv, Pushing, Decided, Export
  <1> QED
    BY <1>1, StoreInit, StoreStep, PTL DEF Spec, PushKeepsUndecided

\* sync_conflict means that the manifest changed under every attempt, unless the
\* client library repeated a conditional put (push's bounded loop).
THEOREM ConflictsContend == Spec => ConflictsAreContention
  <1>1. StoreInv /\ [Next]_vars =>
          [\A m \in Machines :
             job[m].attempt = MaxAttempts /\ job[m].pushing /\ (Missing(m) \/ Undo(m))
               => resent \/ job[m].overtaken >= MaxAttempts]_vars
    <2> SUFFICES ASSUME StoreInv, NEW m \in Machines, ~resent,
                        job[m].attempt = MaxAttempts, job[m].pushing, Missing(m) \/ Undo(m)
                 PROVE  job[m].overtaken >= MaxAttempts
      OBVIOUS
    <2>1. CASE Missing(m)
      BY <2>1, MissingIsOvertaken
    <2>2. CASE Undo(m)
      BY <2>2 DEF Undo, StoreInv, Counted
    <2> QED
      BY <2>1, <2>2
  <1> QED
    BY <1>1, StoreInit, StoreStep, PTL DEF Spec, ConflictsAreContention
===============================================================================
