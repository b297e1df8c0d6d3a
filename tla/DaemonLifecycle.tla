--------------------------- MODULE DaemonLifecycle ---------------------------
(***************************************************************************)
(* How the context daemon is found, started, replaced and stopped          *)
(* (daemon/src/client.ts, lock.ts, discovery.ts, server.ts,                *)
(* cli/src/commands/daemon/serve.ts, gui/bridge/routes/daemon.ts).  A      *)
(* starter looks for a daemon that answers; without one it removes the     *)
(* discovery file and the lock file, whosever they are, spawns a daemon    *)
(* and waits for one, whichever, to be advertised.  A daemon takes the     *)
(* lock or ends.  A step is one access to a file or one request.           *)
(***************************************************************************)
EXTENDS Naturals

CONSTANTS
  Starters,    \* getDaemon, the bridge's start handler and its boot; a starter
               \* also names the daemon it spawns
  Boots,       \* those that do not wait
  Old,         \* a daemon of before, or one served by hand
  Incidents,   \* what may happen: "kill", "stop", "slow", "fail"
  MaxIncidents \* bound: how often

Daemons == Starters \cup {Old}

ASSUME OldAssumption == Old \notin Starters
ASSUME BootsAssumption == Boots \subseteq Starters
ASSUME IncidentsAssumption ==
  Incidents \subseteq {"kill", "stop", "slow", "fail"} /\ MaxIncidents \in Nat

VARIABLES
  lock,      \* daemon.lock, none or one: by which daemon it was made
  advert,    \* daemon.json, none or one: the daemon it names
  daemon,    \* each daemon's life
  starter,   \* each starter, and the daemon it found advertised
  reaped,    \* history: daemons whose lock was removed by another in their life
  hidden,    \* history: a daemon that serves under the lock lost its advertisement to
             \* the end of another daemon, or to a starter that died
  budget     \* incidents left

vars == <<lock, advert, daemon, starter, reaped, hidden, budget>>

Live(d) == daemon[d] \in {"locked", "serving"}
Answers(d) == daemon[d] = "serving"

TypeOK ==
  /\ lock \subseteq Daemons /\ \A d, e \in lock : d = e
  /\ advert \subseteq Daemons /\ \A d, e \in advert : d = e
  /\ daemon \in [Daemons -> {"unborn", "spawned", "locked", "serving", "draining",
                             "closing", "ended"}]
  /\ starter \in [Starters ->
       [pc : {"idle", "read", "ping", "clear", "unlock", "spawn", "wait", "try",
              "got", "ended"},
        found : SUBSET Daemons]]
  /\ \A s \in Starters :
       (starter[s].pc \in {"wait", "try"}) => daemon[s] # "unborn"
  /\ reaped \subseteq Daemons /\ hidden \in BOOLEAN
  /\ budget \in Nat

\* Before: no daemon, one that is being served by hand, one that runs, and what a
\* killed daemon and one that was shut down leave.
Before ==
  {[daemon |-> "ended", lock |-> {}, advert |-> {}],
   [daemon |-> "spawned", lock |-> {}, advert |-> {}],
   [daemon |-> "serving", lock |-> {Old}, advert |-> {Old}],
   [daemon |-> "ended", lock |-> {Old}, advert |-> {Old}],
   [daemon |-> "ended", lock |-> {Old}, advert |-> {}]}

Init ==
  /\ \E b \in Before :
       /\ lock = b.lock /\ advert = b.advert
       /\ daemon = [d \in Daemons |-> IF d = Old THEN b.daemon ELSE "unborn"]
  /\ starter = [s \in Starters |-> [pc |-> "idle", found |-> {}]]
  /\ reaped = {} /\ hidden = FALSE
  /\ budget \in 0 .. MaxIncidents

Incident(kind) == kind \in Incidents /\ budget > 0 /\ budget' = budget - 1
Lives(d, state) == daemon' = [daemon EXCEPT ![d] = state]
Goto(s, pc) == starter' = [starter EXCEPT ![s] = [pc |-> pc, found |-> {}]]

\* The lock file is removed by name, by w.
RemoveLock(w) ==
  /\ lock' = {}
  /\ reaped' = reaped \cup {d \in lock \ {w} : Live(d)}

-----------------------------------------------------------------------------
(* A starter                                                               *)

Start(s) ==
  /\ starter[s].pc = "idle" /\ Goto(s, "read")
  /\ UNCHANGED <<lock, advert, daemon, reaped, hidden, budget>>

Read(s) ==
  /\ starter[s].pc = "read"
  /\ starter' = [starter EXCEPT ![s] =
       [pc |-> IF advert = {} THEN "clear" ELSE "ping", found |-> advert]]
  /\ UNCHANGED <<lock, advert, daemon, reaped, hidden, budget>>

\* Mutant: a daemon that does not answer is replaced, and its files are left.
PingAndSpawn(s) ==
  /\ starter[s].pc = "ping"
  /\ Goto(s, IF \E d \in starter[s].found : Answers(d) THEN "got" ELSE "spawn")
  /\ UNCHANGED <<lock, advert, daemon, reaped, hidden, budget>>
\* The process exists and answers with its token, or does not.
Ping(s) ==
  /\ starter[s].pc = "ping"
  /\ Goto(s, IF \E d \in starter[s].found : Answers(d) THEN "got" ELSE "clear")
  /\ UNCHANGED <<lock, advert, daemon, reaped, hidden, budget>>

\* It answers too late: 1.5 s.
PingSlow(s) ==
  /\ Incident("slow")
  /\ starter[s].pc = "ping"
  /\ Goto(s, "clear")
  /\ UNCHANGED <<lock, advert, daemon, reaped, hidden>>

ClearDiscovery(s) ==
  /\ starter[s].pc = "clear"
  /\ advert' = {}
  /\ Goto(s, "unlock")
  /\ UNCHANGED <<lock, daemon, reaped, hidden, budget>>

ClearLock(s) ==
  /\ starter[s].pc = "unlock"
  /\ RemoveLock(s)
  /\ Goto(s, "spawn")
  /\ UNCHANGED <<advert, daemon, hidden, budget>>

\* Mutant: the discovery file is removed after the lock.
SpawnClean(s) ==
  /\ starter[s].pc = "spawn"
  /\ advert' = {} /\ Lives(s, "spawned")
  /\ Goto(s, IF s \in Boots THEN "ended" ELSE "wait")
  /\ UNCHANGED <<lock, reaped, hidden, budget>>
Spawn(s) ==
  /\ starter[s].pc = "spawn"
  /\ Lives(s, "spawned")
  /\ Goto(s, IF s \in Boots THEN "ended" ELSE "wait")
  /\ UNCHANGED <<lock, advert, reaped, hidden, budget>>

\* Its error is swallowed.
SpawnFails(s) ==
  /\ Incident("fail")
  /\ starter[s].pc = "spawn"
  /\ Lives(s, "ended")
  /\ Goto(s, IF s \in Boots THEN "ended" ELSE "wait")
  /\ UNCHANGED <<lock, advert, reaped, hidden>>

\* The waiting loop reads the discovery file and pings, again and again.
Wait(s) ==
  /\ starter[s].pc = "wait" /\ advert # {}
  /\ starter' = [starter EXCEPT ![s] = [pc |-> "try", found |-> advert]]
  /\ UNCHANGED <<lock, advert, daemon, reaped, hidden, budget>>

Try(s) ==
  /\ starter[s].pc = "try"
  /\ Goto(s, IF \E d \in starter[s].found : Answers(d) THEN "got" ELSE "wait")
  /\ UNCHANGED <<lock, advert, daemon, reaped, hidden, budget>>

\* It gives up after 5 s.
GiveUp(s) ==
  /\ Incident("slow")
  /\ starter[s].pc = "wait" /\ Goto(s, "ended")
  /\ UNCHANGED <<lock, advert, daemon, reaped, hidden>>

StarterDies(s) ==
  /\ Incident("kill")
  /\ starter[s].pc \in {"ping", "clear", "unlock", "spawn"}
  /\ Goto(s, "ended")
  /\ hidden' = (hidden \/ starter[s].pc = "unlock")
  /\ UNCHANGED <<lock, advert, daemon, reaped>>

-----------------------------------------------------------------------------
(* A daemon                                                                *)

\* Mutant: the lock file is opened for writing, whether it exists or not.
AcquireOver(d) ==
  /\ daemon[d] = "spawned"
  /\ lock' = {d} /\ Lives(d, "locked")
  /\ UNCHANGED <<advert, starter, reaped, hidden, budget>>
\* The exclusive create; who finds a lock says so and ends.
Acquire(d) ==
  /\ daemon[d] = "spawned"
  /\ IF lock = {} THEN lock' = {d} /\ Lives(d, "locked")
     ELSE UNCHANGED lock /\ Lives(d, "ended")
  /\ UNCHANGED <<advert, starter, reaped, hidden, budget>>

Advertise(d) ==
  /\ daemon[d] = "locked"
  /\ advert' = {d} /\ Lives(d, "serving")
  /\ UNCHANGED <<lock, starter, reaped, hidden, budget>>

\* Without a port it gives the lock back.
ListenFails(d) ==
  /\ Incident("fail")
  /\ daemon[d] = "locked"
  /\ RemoveLock(d) /\ Lives(d, "ended")
  /\ UNCHANGED <<advert, starter, hidden>>

\* With the end of d goes what was advertised, although another serves under the
\* lock.
Hides(d, lost) == hidden' = (hidden \/ (lost # {} /\ \E e \in lock \ {d} : Answers(e)))

\* POST /shutdown: it finishes the requests it has.  The lock stays.
Shutdown(d) ==
  /\ Incident("stop")
  /\ daemon[d] = "serving"
  /\ advert' = {} /\ Lives(d, "draining")
  /\ Hides(d, advert)
  /\ UNCHANGED <<lock, starter, reaped>>

Drained(d) ==
  /\ daemon[d] = "draining" /\ Lives(d, "ended")
  /\ UNCHANGED <<lock, advert, starter, reaped, hidden, budget>>

\* SIGTERM, also while it drains: it gives the lock back,
Signal(d) ==
  /\ Incident("stop")
  /\ daemon[d] \in {"serving", "draining"}
  /\ RemoveLock(d) /\ Lives(d, "closing")
  /\ UNCHANGED <<advert, starter, hidden>>

\* and removes the discovery file.
Close(d) ==
  /\ daemon[d] = "closing"
  /\ advert' = {} /\ Lives(d, "ended")
  /\ Hides(d, advert)
  /\ UNCHANGED <<lock, starter, reaped, budget>>

Kill(d) ==
  /\ Incident("kill")
  /\ daemon[d] \in {"locked", "serving", "draining", "closing"} /\ Lives(d, "ended")
  /\ Hides(d, advert \cap {d})
  /\ UNCHANGED <<lock, advert, starter, reaped>>

Go(s) ==
  \/ Read(s) \/ Ping(s) \/ ClearDiscovery(s) \/ ClearLock(s) \/ Spawn(s)
  \/ Wait(s) \/ Try(s)
Proceed(d) == Acquire(d) \/ Advertise(d) \/ Drained(d) \/ Close(d)

Next ==
  \/ \E s \in Starters : Start(s) \/ Go(s)
  \/ \E s \in Starters : PingSlow(s) \/ SpawnFails(s) \/ GiveUp(s) \/ StarterDies(s)
  \/ \E d \in Daemons : Proceed(d)
  \/ \E d \in Daemons : ListenFails(d) \/ Shutdown(d) \/ Signal(d) \/ Kill(d)

Spec == Init /\ [][Next]_vars

\* A starter and a daemon that began go on.
FairSpec ==
  /\ Spec
  /\ \A s \in Starters : WF_vars(Go(s))
  /\ \A d \in Daemons : WF_vars(Proceed(d))

-----------------------------------------------------------------------------
(* Properties                                                              *)

\* Concurrent starts and stops let two daemons live only where one had its lock
\* removed by another in its life.
OneUnlessReaped ==
  \A d, e \in Daemons : Live(d) /\ Live(e) /\ d # e => {d, e} \cap reaped # {}

\* A daemon that serves under the lock, which keeps others from serving, can be
\* found, or at least one that serves can; or a starter is about to remove the
\* lock, because it removes the discovery file first.
HolderIsFindable ==
  \A d \in lock :
    Answers(d) /\ ~ hidden =>
      (\E e \in advert : Answers(e)) \/ (\E s \in Starters : starter[s].pc = "unlock")

\* Once nothing more is killed, stopped or slow, whoever starts gets a daemon,
\* whatever was left before and whoever starts at the same time.
StartGetsOne ==
  \A s \in Starters \ Boots :
    (starter[s].pc = "read" /\ budget = 0 /\ \A d \in Daemons : daemon[d] # "closing")
      ~> starter[s].pc = "got"
=============================================================================
