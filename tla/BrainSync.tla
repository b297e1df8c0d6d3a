----------------------------- MODULE BrainSync ------------------------------
(***************************************************************************)
(* `mega brain sync`: machines exchange one project's memories through an  *)
(* object store that offers no lock, only a conditional put of the         *)
(* manifest.  One command runs per machine; a step is one access to the    *)
(* store, with the local work up to the next one where nobody can tell     *)
(* them apart.                                                             *)
(*                                                                         *)
(* A bundle is the set of memories it holds.  Its text carries the time of *)
(* the export, so the texts of two exports never have the same hash, and   *)
(* push's "up-to-date" answer to an equal hash has no step here.  The tag  *)
(* of a manifest is the manifest itself: its object's name is fresh.       *)
(* Rules and failures (never suggested, never held back) are left out, and *)
(* so is encryption.                                                       *)
(***************************************************************************)
EXTENDS Naturals, FiniteSets

CONSTANTS
  Machines,      \* machines that share the key and the project's name
  Entries,       \* memories, told apart by their content
  Operations,    \* the commands of this instance
  Faults,        \* the faults this instance may suffer
  MaxAttempts,   \* MAX_CAS_ATTEMPTS
  MaxCommands,   \* bound: commands
  MaxEdits,      \* bound: edits of the registries by their users
  MaxFaults      \* bound: faults

ASSUME OperationsAssumption == Operations \subseteq {"pull", "push", "force", "reset"}
ASSUME FaultsAssumption == Faults \subseteq {"crash", "contended", "undeleted", "resent"}
ASSUME BoundsAssumption ==
  /\ MaxAttempts \in Nat \ {0}
  /\ MaxCommands \in Nat /\ MaxEdits \in Nat /\ MaxFaults \in Nat

VARIABLES
  manifest,   \* the live manifest, with the content its hash stands for
  objects,    \* the bundles in the store
  lastSeen,   \* brain-sync.json of each machine
  brain,      \* the standing of each memory in each machine's registry
  job,        \* the command each machine runs
  named,      \* object names handed out (randomUUID)
  budget,     \* commands, edits and faults left
  chain,      \* history: how many chains were started
  seen,       \* history: the memories each machine ever held
  resent      \* history: a conditional put was repeated by the client library

vars == <<manifest, objects, lastSeen, brain, job, named, budget, chain, seen, resent>>

Objects   == [name : Nat, content : SUBSET Entries]
Manifests == [gen : Nat \ {0}, object : Objects, chain : Nat]
NoObject   == [name |-> 0, content |-> {}]
NoManifest == [gen |-> 0, object |-> NoObject, chain |-> 0]

\* "suggested" came with an import, "drafted" is a local suggestion.
Standings == {"unknown", "approved", "suggested", "drafted", "rejected"}

Pcs == {"idle", "read", "fetch", "guard", "export", "publish", "undo",
        "settle", "delete", "clear"}

Jobs == [pc : Pcs, op : {"pull", "push", "force", "reset"}, pushing : BOOLEAN,
         attempt : 1..MaxAttempts, remote : Manifests \cup {NoManifest},
         mine : Manifests \cup {NoManifest}, imported : SUBSET Entries, overtaken : Nat]

\* imported is history, the memories that this push's own merges brought (the
\* code keeps whether it merged), and so is overtaken: how often the manifest
\* changed under it.
Idle == [pc |-> "idle", op |-> "pull", pushing |-> FALSE, attempt |-> 1,
         remote |-> NoManifest, mine |-> NoManifest, imported |-> {}, overtaken |-> 0]

TypeOK ==
  /\ manifest \in Manifests \cup {NoManifest}
  /\ objects \subseteq Objects
  /\ lastSeen \in [Machines -> [gen : Nat, chain : Nat]]
  /\ brain \in [Machines -> [Entries -> Standings]]
  /\ job \in [Machines -> Jobs]
  /\ named \in Nat
  /\ budget \in [commands : Nat, edits : Nat, faults : Nat]
  /\ chain \in Nat
  /\ seen \in [Machines -> SUBSET Entries]
  /\ resent \in BOOLEAN

Init ==
  /\ manifest = NoManifest
  /\ objects = {}
  /\ lastSeen = [m \in Machines |-> [gen |-> 0, chain |-> 0]]
  /\ brain = [m \in Machines |-> [e \in Entries |-> "unknown"]]
  /\ job = [m \in Machines |-> Idle]
  /\ named = 0
  /\ budget = [commands |-> MaxCommands, edits |-> MaxEdits, faults |-> MaxFaults]
  /\ chain = 1
  /\ seen = [m \in Machines |-> {}]
  /\ resent = FALSE

storeVars == <<manifest, objects, chain>>
localVars == <<lastSeen, brain, seen>>
ownVars   == <<named, budget, resent>>

ToJob(m, to) == job' = [job EXCEPT ![m] = to]
Goes(m, pc)  == ToJob(m, [job[m] EXCEPT !.pc = pc])
Ends(m)      == ToJob(m, Idle)

Fault(kind) ==
  /\ kind \in Faults
  /\ budget.faults > 0
  /\ budget' = [budget EXCEPT !.faults = @ - 1]

\* A step goes well, or it slips and nobody is told.
Slip(kind) == IF kind = "none" THEN budget' = budget ELSE Fault(kind)

-----------------------------------------------------------------------------
(* Reading and merging                                                     *)

\* push --force goes straight to the push; an unforced one pulls first.
Invoke(m, op) ==
  /\ op \in Operations
  /\ job[m].pc = "idle"
  /\ budget.commands > 0
  /\ budget' = [budget EXCEPT !.commands = @ - 1]
  /\ ToJob(m, [Idle EXCEPT !.pc = IF op = "reset" THEN "delete" ELSE "read",
                           !.op = op, !.pushing = (op = "force")])
  /\ UNCHANGED <<storeVars, localVars, named, resent>>

\* Where a command goes on when there is nothing (more) to merge.
AfterMerge(j) ==
  IF j.pushing THEN [j EXCEPT !.pc = "export"]
  ELSE IF j.op = "push" THEN [j EXCEPT !.pc = "guard"]
  ELSE Idle

\* readRemote, and mergeRemote up to its download.  A manifest that is gone or
\* older than the marker is a rollback; a pull takes a missing one for empty.
AfterRead(m, j) ==
  LET marker == lastSeen[m].gen
      read   == [j EXCEPT !.remote = manifest]
  IN IF manifest.gen > marker THEN [read EXCEPT !.pc = "fetch"]
     ELSE IF manifest.gen = marker \/ (manifest = NoManifest /\ ~j.pushing)
     THEN AfterMerge(read)
     ELSE Idle

Read(m) ==
  /\ job[m].pc = "read"
  /\ ToJob(m, AfterRead(m, job[m]))
  /\ UNCHANGED <<storeVars, localVars, ownVars>>

\* importBrain: what is here in any standing is skipped.
Unknown(m, new) == {e \in new : brain[m][e] = "unknown"}
Imported(m, new) ==
  /\ brain' = [brain EXCEPT ![m] =
                 [e \in Entries |-> IF e \in Unknown(m, new) THEN "suggested" ELSE @[e]]]
  /\ seen' = [seen EXCEPT ![m] = @ \cup new]

\* updateLastSeen; it gives up silently when the file's lock is contended.
Marked(m, gen, ofChain, slip) ==
  lastSeen' = IF slip = "contended" THEN lastSeen
              ELSE [lastSeen EXCEPT ![m] = [gen |-> gen, chain |-> ofChain]]

Merge(m) == \E slip \in {"none", "contended"} :
  /\ job[m].pc = "fetch"
  /\ job[m].remote.object \in objects
  /\ Slip(slip)
  /\ Imported(m, job[m].remote.object.content)
  /\ Marked(m, job[m].remote.gen, job[m].remote.chain, slip)
  /\ LET brought == Unknown(m, job[m].remote.object.content)
     IN ToJob(m, AfterMerge([job[m] EXCEPT !.imported = @ \cup brought]))
  /\ UNCHANGED <<storeVars, named, resent>>

\* Another round starts from nothing but the count.
NextRound(j, pc) ==
  [j EXCEPT !.pc = pc, !.attempt = @ + 1,
            !.remote = IF pc = "read" THEN NoManifest ELSE @, !.mine = NoManifest]

\* Mutant: a retry that does not read again.
RetriedBlindly(j) == IF j.attempt = MaxAttempts THEN Idle ELSE NextRound(j, "export")

\* The next round of push's loop, or sync_conflict.
Retried(j) == IF j.attempt = MaxAttempts THEN Idle ELSE NextRound(j, "read")

\* object_missing: an error for a pull, another round for a push.
Missing(m) ==
  /\ job[m].pc = "fetch"
  /\ job[m].remote.object \notin objects
  /\ ToJob(m, IF job[m].pushing THEN Retried(job[m]) ELSE Idle)
  /\ UNCHANGED <<storeVars, localVars, ownVars>>

\* Mutant: the guard does not look.
GuardNot(m) ==
  /\ job[m].pc = "guard"
  /\ ToJob(m, AfterRead(m, [job[m] EXCEPT !.pushing = TRUE, !.imported = {}]))
  /\ UNCHANGED <<storeVars, localVars, ownVars>>

\* An unforced push refuses to go on over imports that wait for approval.
Guard(m) ==
  /\ job[m].pc = "guard"
  /\ ToJob(m, IF \E e \in Entries : brain[m][e] = "suggested" THEN Idle
              ELSE AfterRead(m, [job[m] EXCEPT !.pushing = TRUE, !.imported = {}]))
  /\ UNCHANGED <<storeVars, localVars, ownVars>>

-----------------------------------------------------------------------------
(* Publishing                                                              *)

\* exportBrain takes the approved memories; the bundle gets a fresh name.
Export(m) ==
  /\ job[m].pc = "export"
  /\ LET bundle == [name |-> named + 1, content |-> {e \in Entries : brain[m][e] = "approved"}]
         next   == [gen |-> job[m].remote.gen + 1, object |-> bundle, chain |-> chain]
     IN /\ objects' = objects \cup {bundle}
        /\ ToJob(m, [job[m] EXCEPT !.pc = "publish", !.mine = next])
  /\ named' = named + 1
  /\ UNCHANGED <<manifest, chain, localVars, budget, resent>>

\* The manifest changes under everybody else's push.
Overtake(m, to) ==
  job' = [n \in Machines |->
            IF n = m THEN to
            ELSE [job[n] EXCEPT !.overtaken = IF job[n].pushing THEN @ + 1 ELSE @]]

Replace(m, pc) ==
  LET next == [job[m].mine EXCEPT !.chain = chain]
  IN /\ manifest' = next
     /\ Overtake(m, [job[m] EXCEPT !.pc = pc, !.mine = next])

\* Mutant: an unconditional put.
PublishOver(m) ==
  /\ job[m].pc = "publish"
  /\ Replace(m, "settle")
  /\ UNCHANGED <<objects, chain, localVars, ownVars>>

\* The conditional put: If-Match on what was read, If-None-Match on nothing.
Publish(m) ==
  /\ job[m].pc = "publish"
  /\ manifest = job[m].remote
  /\ Replace(m, "settle")
  /\ UNCHANGED <<objects, chain, localVars, ownVars>>

\* The put succeeds, its answer is lost, and the client library's own retry of
\* it is refused: push takes the 412 for a lost race.
Resend(m) ==
  /\ Fault("resent")
  /\ job[m].pc = "publish"
  /\ manifest = job[m].remote
  /\ Replace(m, "undo")
  /\ resent' = TRUE
  /\ UNCHANGED <<objects, chain, localVars, named>>

\* 412.  For a manifest that is gone S3 has an error of its own, which ends it.
Conflict(m) ==
  /\ job[m].pc = "publish"
  /\ manifest # job[m].remote
  /\ \/ Goes(m, "undo")
     \/ manifest = NoManifest /\ Ends(m)
  /\ UNCHANGED <<storeVars, localVars, ownVars>>

\* A deletion that fails is ignored.
Deleted(object, slip) ==
  objects' = IF slip = "undeleted" THEN objects ELSE objects \ {object}

\* What this push wrote for nothing goes, and the loop goes on.
Undo(m) == \E slip \in {"none", "undeleted"} :
  /\ job[m].pc = "undo"
  /\ Slip(slip)
  /\ Deleted(job[m].mine.object, slip)
  /\ ToJob(m, Retried(job[m]))
  /\ UNCHANGED <<manifest, chain, localVars, named, resent>>

\* Mutant: the bundle that is deleted is the new one.
SettleOwn(m) == \E slip \in {"none", "contended", "undeleted"} :
  /\ job[m].pc = "settle"
  /\ Slip(slip)
  /\ Marked(m, job[m].mine.gen, job[m].mine.chain, slip)
  /\ Deleted(job[m].mine.object, slip)
  /\ Ends(m)
  /\ UNCHANGED <<manifest, chain, brain, seen, named, resent>>

\* The marker, and then the superseded bundle.
Settle(m) == \E slip \in {"none", "contended", "undeleted"} :
  /\ job[m].pc = "settle"
  /\ Slip(slip)
  /\ Marked(m, job[m].mine.gen, job[m].mine.chain, slip)
  /\ Deleted(job[m].remote.object, slip)
  /\ Ends(m)
  /\ UNCHANGED <<manifest, chain, brain, seen, named, resent>>

-----------------------------------------------------------------------------
(* Reset, users, crashes                                                   *)

\* reset deletes the manifest ...
DeleteManifest(m) ==
  /\ job[m].pc = "delete"
  /\ manifest' = NoManifest
  /\ IF manifest = NoManifest
     THEN chain' = chain /\ Goes(m, "clear")
     ELSE chain' = chain + 1 /\ Overtake(m, [job[m] EXCEPT !.pc = "clear"])
  /\ UNCHANGED <<objects, localVars, ownVars>>

\* ... and then this machine's marker.
ClearLastSeen(m) == \E slip \in {"none", "contended"} :
  /\ job[m].pc = "clear"
  /\ Slip(slip)
  /\ Marked(m, 0, 0, slip)
  /\ Ends(m)
  /\ UNCHANGED <<storeVars, brain, seen, named, resent>>

\* A user, or an agent, adds, approves, rejects or deletes a memory.
Edit(m, e, standing) ==
  /\ budget.edits > 0
  /\ budget' = [budget EXCEPT !.edits = @ - 1]
  /\ brain[m][e] # standing
  /\ standing \in IF brain[m][e] = "unknown" THEN {"approved", "drafted"}
                   ELSE {"approved", "rejected", "unknown"}
  /\ brain' = [brain EXCEPT ![m][e] = standing]
  /\ seen' = [seen EXCEPT ![m] = @ \cup {e}]
  /\ UNCHANGED <<storeVars, lastSeen, job, named, resent>>

\* A command is killed; an import may have got half way.
Crash(m) ==
  /\ Fault("crash")
  /\ job[m].pc # "idle"
  /\ Ends(m)
  /\ \/ UNCHANGED localVars
     \/ /\ job[m].pc = "fetch" /\ job[m].remote.object \in objects
        /\ \E part \in SUBSET job[m].remote.object.content : Imported(m, part)
        /\ lastSeen' = lastSeen
  /\ UNCHANGED <<storeVars, named, resent>>

Command(m) ==
  \/ Read(m) \/ Merge(m) \/ Missing(m) \/ Guard(m) \/ Export(m) \/ Publish(m)
  \/ Conflict(m) \/ Undo(m) \/ Settle(m)
  \/ DeleteManifest(m) \/ ClearLastSeen(m)

Next == \E m \in Machines :
  \/ \E op \in Operations : Invoke(m, op)
  \/ Command(m)
  \/ \E e \in Entries, standing \in Standings : Edit(m, e, standing)
  \/ Resend(m) \/ Crash(m)

Spec == Init /\ [][Next]_vars

-----------------------------------------------------------------------------
(* Properties                                                              *)

\* The chain is a register that a machine overwrites only after it has seen all
\* of it, unless the marker it trusts is of a chain that was reset since
\* (push merges before it publishes, and its put is conditional).
Chain == INSTANCE BrainChain WITH
  generation <- manifest.gen,
  content    <- manifest.object.content,
  known      <- seen,
  follows    <- [m \in Machines |-> lastSeen[m].chain]
ImplementsChain == Chain!Spec

\* A push can never drop unseen remote entries, resets or not.
NeverDropsUnseen ==
  [][\A m \in Machines : Publish(m) => manifest.object.content \subseteq seen[m]]_vars

\* An unforced push leaves no import that nobody decided on out of its bundle,
\* however often it merges and retries, but for those that its own merges brought
\* after the guard of runBrainSyncPush had looked.
PushKeepsUndecided ==
  [][\A m \in Machines :
       Export(m) /\ job[m].op = "push"
         => \A e \in Entries : brain[m][e] = "suggested" => e \in job[m].imported]_vars

\* The live manifest names an object that is in the store, unless the client
\* library repeated a conditional put on its own.
LiveObjectPresent ==
  manifest # NoManifest /\ ~resent => manifest.object \in objects

\* sync_conflict means contention: the manifest changed under every attempt.
ConflictsAreContention ==
  [][\A m \in Machines :
       job[m].attempt = MaxAttempts /\ job[m].pushing /\ (Missing(m) \/ Undo(m))
         => resent \/ job[m].overtaken >= MaxAttempts]_vars
=============================================================================
