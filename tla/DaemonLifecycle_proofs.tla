------------------------ MODULE DaemonLifecycle_proofs ------------------------
(***************************************************************************)
(* Safety of DaemonLifecycle for any number of starters and incidents.     *)
(*                                                                         *)
(* That two daemons live only when a lock was removed from one of them     *)
(* follows from who owns the lock: a daemon that lives has it, unless it   *)
(* was reaped.  This is inductive because a starter that removes the lock  *)
(* has not spawned its own daemon yet (Unborn), so that every live owner   *)
(* of what it removes is another and is counted as reaped.                 *)
(***************************************************************************)
EXTENDS DaemonLifecycle, TLAPS

Unborn ==
  \A s \in Starters :
    starter[s].pc \in {"idle", "read", "ping", "clear", "unlock", "spawn"}
      => daemon[s] = "unborn"

Owned == \A d \in Daemons : Live(d) /\ d \notin reaped => d \in lock

IInv == TypeOK /\ Unborn /\ Owned /\ HolderIsFindable

StarterIdle(s) == \/ Start(s) \/ Read(s) \/ Ping(s) \/ Wait(s) \/ Try(s)
                  \/ PingSlow(s) \/ GiveUp(s)

-----------------------------------------------------------------------------
LEMMA InvInit == Init => IInv
<1> SUFFICES ASSUME Init PROVE IInv
  OBVIOUS
<1>1. PICK b \in Before :
        /\ lock = b.lock /\ advert = b.advert
        /\ daemon = [d \in Daemons |-> IF d = Old THEN b.daemon ELSE "unborn"]
  BY DEF Init
<1>2. /\ b.lock \subseteq {Old} /\ b.advert \subseteq {Old}
      /\ b.daemon \in {"ended", "spawned", "serving"}
      /\ b.daemon = "serving" => b.lock = {Old} /\ b.advert = {Old}
  BY DEF Before
<1>3. TypeOK
  <2>1. lock \subseteq {Old} /\ advert \subseteq {Old} /\ Old \in Daemons
    BY <1>1, <1>2 DEF Daemons
  <2>2. /\ daemon \in [Daemons -> {"unborn", "spawned", "locked", "serving", "draining",
                                   "closing", "ended"}]
        /\ budget \in Nat
    BY <1>1, <1>2, IncidentsAssumption DEF Init
  <2>3. /\ starter \in [Starters ->
            [pc : {"idle", "read", "ping", "clear", "unlock", "spawn", "wait", "try",
                   "got", "ended"},
             found : SUBSET Daemons]]
        /\ \A s \in Starters : starter[s].pc = "idle"
    BY DEF Init
  <2>4. reaped \subseteq Daemons /\ hidden \in BOOLEAN
    BY DEF Init
  <2> QED
    BY <2>1, <2>2, <2>3, <2>4 DEF TypeOK
<1>4. Unborn
  BY <1>1, OldAssumption DEF Init, Unborn, Daemons
<1>5. Owned /\ HolderIsFindable
  BY <1>1, <1>2 DEF Owned, HolderIsFindable, Live, Answers, Daemons
<1> QED
  BY <1>3, <1>4, <1>5 DEF IInv

\* A starter that only looks around changes nothing but where it is.
LEMMA InvLook ==
  ASSUME IInv, NEW s \in Starters, StarterIdle(s)
  PROVE  IInv'
<1>1. /\ UNCHANGED <<lock, advert, daemon, reaped, hidden>>
      /\ budget' \in Nat
      /\ s \in Daemons
  BY DEF StarterIdle, Start, Read, Ping, Wait, Try, PingSlow, GiveUp, Incident, IInv, TypeOK,
         Daemons
<1>2. PICK pc \in {"read", "ping", "clear", "wait", "try", "got", "ended"},
           found \in SUBSET Daemons :
        /\ starter' = [starter EXCEPT ![s] = [pc |-> pc, found |-> found]]
        /\ pc \in {"wait", "try"} => daemon[s] # "unborn"
        /\ starter[s].pc # "unlock"
        /\ pc \in {"read", "ping", "clear"} =>
             starter[s].pc \in {"idle", "read", "ping", "clear", "unlock", "spawn"}
  <2>1. advert \subseteq Daemons /\ {} \subseteq Daemons
    BY DEF IInv, TypeOK
  <2>2. starter[s].pc \in {"wait", "try"} => daemon[s] # "unborn"
    BY DEF IInv, TypeOK
  <2> QED
    BY <2>1, <2>2 DEF StarterIdle, Start, Read, Ping, Wait, Try, PingSlow, GiveUp, Goto
<1>3. TypeOK'
  BY <1>1, <1>2 DEF IInv, TypeOK
<1>4. Unborn'
  BY <1>1, <1>2 DEF IInv, TypeOK, Unborn
<1>5. Owned' /\ HolderIsFindable'
  BY <1>1, <1>2 DEF IInv, TypeOK, Owned, HolderIsFindable, Live, Answers
<1> QED
  BY <1>3, <1>4, <1>5 DEF IInv
\* The steps of a starter that remove files or spawn a daemon.
LEMMA InvStarter ==
  ASSUME IInv, NEW s \in Starters,
         \/ ClearDiscovery(s) \/ ClearLock(s) \/ Spawn(s) \/ SpawnFails(s) \/ StarterDies(s)
  PROVE  IInv'
<1>0. TypeOK /\ Unborn /\ Owned /\ HolderIsFindable /\ s \in Daemons
  BY DEF IInv, Daemons
<1>1. CASE ClearDiscovery(s)
  <2>1. TypeOK'
    BY <1>0, <1>1 DEF ClearDiscovery, Goto, TypeOK
  <2>2. Unborn' /\ Owned'
    BY <1>0, <1>1 DEF ClearDiscovery, Goto, TypeOK, Unborn, Owned, Live
  <2>3. starter'[s].pc = "unlock"
    BY <1>0, <1>1 DEF ClearDiscovery, Goto, TypeOK
  <2>4. HolderIsFindable'
    BY <2>3 DEF HolderIsFindable
  <2> QED
    BY <2>1, <2>2, <2>4 DEF IInv
<1>2. CASE ClearLock(s)
  <2>1. TypeOK'
    BY <1>0, <1>2 DEF ClearLock, RemoveLock, Goto, TypeOK
  <2>2. Unborn'
    BY <1>0, <1>2 DEF ClearLock, Goto, TypeOK, Unborn
  <2>3. ~Live(s)
    BY <1>0, <1>2 DEF ClearLock, Unborn, Live
  <2>4. Owned'
    BY <1>0, <1>2, <2>3 DEF ClearLock, RemoveLock, Owned, Live
  <2>5. HolderIsFindable'
    BY <1>2 DEF ClearLock, RemoveLock, HolderIsFindable
  <2> QED
    BY <2>1, <2>2, <2>4, <2>5 DEF IInv
<1>3. CASE Spawn(s) \/ SpawnFails(s)
  <2>0. PICK life \in {"spawned", "ended"}, pc \in {"ended", "wait"} :
          /\ daemon' = [daemon EXCEPT ![s] = life]
          /\ starter' = [starter EXCEPT ![s] = [pc |-> pc, found |-> {}]]
    BY <1>3 DEF Spawn, SpawnFails, Lives, Goto
  <2>1. /\ UNCHANGED <<lock, advert, reaped, hidden>>
        /\ budget' \in Nat
        /\ starter[s].pc = "spawn" /\ daemon[s] = "unborn"
    BY <1>0, <1>3 DEF Spawn, SpawnFails, Incident, TypeOK, Unborn
  <2>2. TypeOK'
    BY <1>0, <2>0, <2>1 DEF TypeOK
  <2>3. Unborn'
    BY <1>0, <2>0, <2>1 DEF TypeOK, Unborn
  <2>4. \A d \in Daemons : (Live(d)' <=> Live(d)) /\ (Answers(d)' <=> Answers(d))
    BY <1>0, <2>0, <2>1 DEF TypeOK, Live, Answers
  <2>5. \A t \in Starters : (starter'[t].pc = "unlock") = (starter[t].pc = "unlock")
    BY <1>0, <2>0, <2>1 DEF TypeOK
  <2>6. Owned'
    BY <1>0, <2>1, <2>4 DEF Owned
  <2>7. HolderIsFindable'
    BY <1>0, <2>1, <2>4, <2>5 DEF HolderIsFindable, TypeOK
  <2> QED
    BY <2>2, <2>3, <2>6, <2>7 DEF IInv
<1>4. CASE StarterDies(s)
  <2>1. TypeOK'
    BY <1>0, <1>4 DEF StarterDies, Incident, Goto, TypeOK
  <2>2. Unborn' /\ Owned'
    BY <1>0, <1>4 DEF StarterDies, Goto, TypeOK, Unborn, Owned, Live
  <2>3. hidden' \/ (~hidden /\ starter[s].pc # "unlock")
    BY <1>0, <1>4 DEF StarterDies, TypeOK
  <2>4. HolderIsFindable'
    BY <1>0, <1>4, <2>3 DEF StarterDies, Goto, TypeOK, HolderIsFindable, Answers
  <2> QED
    BY <2>1, <2>2, <2>4 DEF IInv
<1> QED
  BY <1>1, <1>2, <1>3, <1>4

\* The steps of a daemon.
LEMMA InvDaemon ==
  ASSUME IInv, NEW d \in Daemons,
         Proceed(d) \/ ListenFails(d) \/ Shutdown(d) \/ Signal(d) \/ Kill(d)
  PROVE  IInv'
<1>0. TypeOK /\ Unborn /\ Owned /\ HolderIsFindable
  BY DEF IInv
<1>1. PICK life \in {"locked", "serving", "draining", "closing", "ended"} :
        /\ daemon[d] # "unborn"
        /\ daemon' = [daemon EXCEPT ![d] = life]
        /\ starter' = starter
  BY DEF Proceed, Acquire, Advertise, Drained, Close, ListenFails, Shutdown, Signal, Kill, Lives
<1>2. /\ \A e \in Daemons \ {d} : (Live(e)' <=> Live(e)) /\ (Answers(e)' <=> Answers(e))
      /\ Live(d)' <=> life \in {"locked", "serving"}
      /\ Answers(d)' <=> life = "serving"
  BY <1>0, <1>1 DEF TypeOK, Live, Answers
<1>3. TypeOK'
  <2>1. budget' \in Nat
    BY <1>0 DEF TypeOK, Proceed, Acquire, Advertise, Drained, Close, ListenFails, Shutdown,
                Signal, Kill, Incident
  <2>2. lock' \in {lock, {}, {d}} /\ advert' \in {advert, {}, {d}}
    BY DEF Proceed, Acquire, Advertise, Drained, Close, ListenFails, Shutdown, Signal, Kill,
           RemoveLock
  <2>3. reaped' \subseteq Daemons /\ hidden' \in BOOLEAN
    BY <1>0 DEF TypeOK, Proceed, Acquire, Advertise, Drained, Close, ListenFails, Shutdown,
                Signal, Kill, RemoveLock, Hides
  <2>4. /\ daemon' \in [Daemons -> {"unborn", "spawned", "locked", "serving", "draining",
                                    "closing", "ended"}]
        /\ \A e \in Daemons : daemon[e] # "unborn" => daemon'[e] # "unborn"
    BY <1>0, <1>1 DEF TypeOK
  <2>5. \A s \in Starters : s \in Daemons
    BY DEF Daemons
  <2>6. /\ lock' \subseteq Daemons /\ \A e, f \in lock' : e = f
        /\ advert' \subseteq Daemons /\ \A e, f \in advert' : e = f
    BY <1>0, <2>2 DEF TypeOK
  <2>7. /\ starter' \in [Starters ->
             [pc : {"idle", "read", "ping", "clear", "unlock", "spawn", "wait", "try",
                    "got", "ended"},
              found : SUBSET Daemons]]
        /\ \A s \in Starters : (starter'[s].pc \in {"wait", "try"}) => daemon'[s] # "unborn"
    BY <1>0, <1>1, <2>4, <2>5 DEF TypeOK
  <2> QED
    BY <2>1, <2>3, <2>4, <2>6, <2>7 DEF TypeOK
<1>4. Unborn'
  BY <1>0, <1>1 DEF TypeOK, Unborn
<1>5. CASE Acquire(d)
  <2>1. UNCHANGED <<advert, reaped, hidden>> /\ ~Answers(d)'
    BY <1>0, <1>2, <1>5 DEF Acquire, Lives, Answers, TypeOK
  <2>2. Owned'
    BY <1>0, <1>2, <1>5, <2>1 DEF Acquire, Lives, Owned, Live, TypeOK
  <2>3. ~Answers(d)
    BY <1>5 DEF Acquire, Answers
  <2>4. lock' = lock \/ lock' = {d}
    BY <1>5 DEF Acquire
  <2>5. HolderIsFindable'
    BY <1>0, <1>1, <1>2, <2>1, <2>3, <2>4 DEF HolderIsFindable, TypeOK
  <2> QED
    BY <1>3, <1>4, <2>2, <2>5 DEF IInv
<1>6. CASE Advertise(d)
  <2>1. Owned'
    BY <1>0, <1>2, <1>6 DEF Advertise, Owned, Live
  <2>2. HolderIsFindable'
    BY <1>0, <1>1, <1>6 DEF Advertise, Lives, HolderIsFindable, Answers, TypeOK
  <2> QED
    BY <1>3, <1>4, <2>1, <2>2 DEF IInv
<1>7. CASE Drained(d)
  <2>1. ~Answers(d) /\ ~Answers(d)' /\ ~Live(d)' /\ UNCHANGED <<lock, advert, reaped, hidden>>
    BY <1>0, <1>7 DEF Drained, Lives, Answers, Live, TypeOK
  <2> QED
    BY <1>0, <1>1, <1>2, <1>3, <1>4, <2>1 DEF IInv, Owned, HolderIsFindable, TypeOK
<1>8. CASE ListenFails(d) \/ Signal(d)
  <2>1. RemoveLock(d) /\ ~Live(d)'
    BY <1>0, <1>8 DEF ListenFails, Signal, Lives, Live, TypeOK
  <2> QED
    BY <1>0, <1>2, <1>3, <1>4, <2>1 DEF IInv, RemoveLock, Owned, HolderIsFindable
<1>9. CASE Shutdown(d) \/ Close(d)
  <2>1. /\ advert' = {} /\ UNCHANGED <<lock, reaped>>
        /\ ~Live(d)' /\ ~Answers(d)'
        /\ Hides(d, advert)
    BY <1>0, <1>9 DEF Shutdown, Close, Lives, Live, Answers, TypeOK
  <2>2. Owned'
    BY <1>0, <1>2, <2>1 DEF Owned
  <2>3. HolderIsFindable'
    BY <1>0, <1>1, <1>2, <2>1 DEF Hides, HolderIsFindable, TypeOK
  <2> QED
    BY <1>3, <1>4, <2>2, <2>3 DEF IInv
<1>10. CASE Kill(d)
  <2>1. /\ UNCHANGED <<lock, advert, reaped>>
        /\ ~Live(d)' /\ ~Answers(d)'
        /\ Hides(d, advert \cap {d})
    BY <1>0, <1>10 DEF Kill, Lives, Live, Answers, TypeOK
  <2>2. Owned'
    BY <1>0, <1>2, <2>1 DEF Owned
  <2>3. HolderIsFindable'
    BY <1>0, <1>1, <1>2, <2>1 DEF Hides, HolderIsFindable, TypeOK
  <2> QED
    BY <1>3, <1>4, <2>2, <2>3 DEF IInv
<1> QED
  BY <1>5, <1>6, <1>7, <1>8, <1>9, <1>10 DEF Proceed

LEMMA InvStep == IInv /\ [Next]_vars => IInv'
<1> SUFFICES ASSUME IInv, [Next]_vars PROVE IInv'
  OBVIOUS
<1>1. CASE UNCHANGED vars
  BY <1>1 DEF vars, IInv, TypeOK, Unborn, Owned, HolderIsFindable, Live, Answers
<1>2. CASE Next
  BY <1>2, InvLook, InvStarter, InvDaemon DEF Next, Go, StarterIdle
<1> QED
  BY <1>1, <1>2

LEMMA Invariant == Spec => []IInv
  BY InvInit, InvStep, PTL DEF Spec

-----------------------------------------------------------------------------
(* Theorems                                                                *)

\* The variables keep their types: at most one lock and one discovery file, and a
\* starter that waits has had its daemon spawned.
THEOREM TypeCorrect == Spec => []TypeOK
<1>1. IInv => TypeOK
  BY DEF IInv
<1> QED
  BY <1>1, Invariant, PTL

\* However many starters run at the same time and whatever is killed, stopped or
\* slow, two daemons live only where a lock was removed from one of them.
THEOREM OneDaemon == Spec => []OneUnlessReaped
<1>1. IInv => OneUnlessReaped
  BY DEF IInv, TypeOK, Owned, OneUnlessReaped
<1> QED
  BY <1>1, Invariant, PTL

\* The daemon that serves under the lock can be found, or its lock is about to be
\* removed: the order of the two removals in getDaemon is enough.
THEOREM Findable == Spec => []HolderIsFindable
<1>1. IInv => HolderIsFindable
  BY DEF IInv
<1> QED
  BY <1>1, Invariant, PTL
===============================================================================
