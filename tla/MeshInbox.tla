----------------------------- MODULE MeshInbox -----------------------------
(***************************************************************************)
(* The bus and the inboxes of the session mesh (mesh/src/events.ts,        *)
(* inbox.ts, gc.ts): sendMessage appends a line to the bus, which the      *)
(* collector rotates, and writes one file per recipient; drainInbox takes  *)
(* the files of one session one by one.  It is called by the guard hook,   *)
(* which shows a few messages to its agent before a tool call              *)
(* (hooks/guard-run.ts), and by mesh_poll (mcp-bridge/tools/mesh.ts);      *)
(* nothing keeps two drains of one session apart but the rename by which a *)
(* file is taken.                                                          *)
(***************************************************************************)
EXTENDS Mesh, Naturals, FiniteSets

CONSTANTS
  Messages,    \* numbered in the order of their createdAt
  Hooks,       \* guard hooks that may run
  Polls,       \* mesh_poll calls that may run
  Owner,       \* the session of each
  ShownLimit,  \* how many messages a hook shows (5)
  Faults,      \* the faults this instance may suffer
  MaxFaults    \* bound: how many

Readers == Hooks \cup Polls

ASSUME MessagesAssumption == Messages \subseteq Nat
ASSUME OwnerAssumption == Owner \in [Readers -> Sessions]
ASSUME ReadersAssumption == Hooks \cap Polls = {}
ASSUME LimitAssumption == ShownLimit \in Nat
ASSUME FaultsAssumption == Faults \subseteq {"crash", "io"} /\ MaxFaults \in Nat

Deliveries == Messages \X Sessions
Idle == [at |-> "idle", listed |-> {}, held |-> {}, got |-> {}]

VARIABLES
  bus,        \* the lines in the event log and in its rotated files; history:
              \* all that were posted, and those while a collector was rotating
  rotating,   \* the collectors between their rename and the fresh file
  addressed,  \* history: the deliveries that a send set out to make
  todo,       \* those of sends under way, not written yet
  inbox,      \* the files that wait in an inbox
  reader,     \* each drain: the files it listed, the one it holds, those it read
  shown,      \* history: what an agent was given
  gone,       \* history: what will never be given to one
  budget      \* faults left

sends == <<addressed, todo>>
log == <<bus, rotating>>
vars == <<sends, log, inbox, reader, shown, gone, budget>>

Of(s, messages) == messages \X {s}
InHand(r) == Of(Owner[r], reader[r].held \cup reader[r].got)
Waiting == inbox \cup UNION {InHand(r) : r \in Readers}

TypeOK ==
  /\ bus \in [posted : SUBSET Messages, live : SUBSET Messages,
             archived : SUBSET Messages, caught : SUBSET Messages]
  /\ rotating \subseteq Collectors
  /\ addressed \subseteq Deliveries /\ todo \subseteq Deliveries
  /\ inbox \subseteq Deliveries
  /\ shown \subseteq Deliveries /\ gone \subseteq Deliveries
  /\ reader \in [Readers -> [at : {"idle", "drain"}, listed : SUBSET Messages,
                             held : SUBSET Messages, got : SUBSET Messages]]
  /\ \A r \in Readers :
       /\ reader[r].at = "idle" => reader[r] = Idle
       /\ \A m, n \in reader[r].held : m = n
  /\ budget \in Nat

Init ==
  /\ bus = [posted |-> {}, live |-> {}, archived |-> {}, caught |-> {}]
  /\ rotating = {} /\ addressed = {} /\ todo = {} /\ inbox = {}
  /\ reader = [r \in Readers |-> Idle]
  /\ shown = {} /\ gone = {}
  /\ budget = MaxFaults

Fault(kind) == kind \in Faults /\ budget > 0 /\ budget' = budget - 1
Becomes(r, state) == reader' = [reader EXCEPT ![r] = state]

-----------------------------------------------------------------------------
(* sendMessage                                                             *)

\* To one session, or to all peers that are listed but the sender.
Send(m) ==
  /\ m \notin bus.posted
  /\ \E recipients \in SUBSET Sessions :
       addressed' = addressed \cup ({m} \X recipients) /\ todo' = todo \cup ({m} \X recipients)
  /\ bus' = [bus EXCEPT !.posted = @ \cup {m}, !.live = @ \cup {m},
                        !.caught = IF rotating # {} THEN @ \cup {m} ELSE @]
  /\ UNCHANGED <<rotating, inbox, reader, shown, gone, budget>>

Deliver(d) ==
  /\ d \in todo
  /\ todo' = todo \ {d} /\ inbox' = inbox \cup {d}
  /\ UNCHANGED <<log, addressed, reader, shown, gone, budget>>

\* The write throws, which sendMessage ignores, or the process ends first.
NotDelivered(lost) ==
  /\ lost # {} /\ lost \subseteq todo
  /\ todo' = todo \ lost /\ gone' = gone \cup lost
  /\ UNCHANGED <<log, addressed, inbox, reader, shown>>
DeliverFails(d) == Fault("io") /\ NotDelivered({d})
SenderCrash(m) == Fault("crash") /\ NotDelivered({d \in todo : d[1] = m})

-----------------------------------------------------------------------------
(* The rotation of the bus                                                 *)

\* Mutant: the file is emptied where it is.
RotateInPlace(g) ==
  /\ g \notin rotating
  /\ rotating' = rotating \cup {g}
  /\ UNCHANGED <<bus, sends, inbox, reader, shown, gone, budget>>
\* A log that is long or old is renamed.
Rotate(g) ==
  /\ g \notin rotating
  /\ rotating' = rotating \cup {g}
  /\ bus' = [bus EXCEPT !.live = {}, !.archived = @ \cup bus.live]
  /\ UNCHANGED <<sends, inbox, reader, shown, gone, budget>>

\* An empty file is written to its place.
Fresh(g) ==
  /\ g \in rotating
  /\ rotating' = rotating \ {g}
  /\ bus' = [bus EXCEPT !.live = {}]
  /\ UNCHANGED <<sends, inbox, reader, shown, gone, budget>>

-----------------------------------------------------------------------------
(* drainInbox                                                              *)

\* readdir; an empty inbox shows nothing.
Open(r) ==
  /\ reader[r].at = "idle"
  /\ \E files \in SUBSET Messages :
       /\ files = {m \in Messages : <<m, Owner[r]>> \in inbox}
       /\ files # {}
       /\ Becomes(r, [Idle EXCEPT !.at = "drain", !.listed = files])
  /\ UNCHANGED <<sends, log, inbox, shown, gone, budget>>

\* Mutant: the file is copied to the hidden name.
TakeCopy(r, m) ==
  /\ reader[r].at = "drain" /\ reader[r].held = {} /\ m \in reader[r].listed
  /\ IF <<m, Owner[r]>> \in inbox
     THEN Becomes(r, [reader[r] EXCEPT !.listed = @ \ {m}, !.held = {m}])
     ELSE Becomes(r, [reader[r] EXCEPT !.listed = @ \ {m}])
  /\ UNCHANGED <<sends, log, inbox, shown, gone, budget>>
\* The rename: whoever comes second finds nothing, and goes on.
Take(r, m) ==
  /\ reader[r].at = "drain" /\ reader[r].held = {} /\ m \in reader[r].listed
  /\ IF <<m, Owner[r]>> \in inbox
     THEN Becomes(r, [reader[r] EXCEPT !.listed = @ \ {m}, !.held = {m}])
     ELSE Becomes(r, [reader[r] EXCEPT !.listed = @ \ {m}])
  /\ inbox' = inbox \ {<<m, Owner[r]>>}
  /\ UNCHANGED <<sends, log, shown, gone, budget>>

\* It throws for another reason, and the file stays.
TakeFails(r, m) ==
  /\ Fault("io")
  /\ reader[r].at = "drain" /\ reader[r].held = {} /\ m \in reader[r].listed
  /\ Becomes(r, [reader[r] EXCEPT !.listed = @ \ {m}])
  /\ UNCHANGED <<sends, log, inbox, shown, gone>>

\* Mutant: what was read is replaced instead of added to.
ReadLast(r) ==
  /\ reader[r].held # {}
  /\ Becomes(r, [reader[r] EXCEPT !.held = {}, !.got = reader[r].held])
  /\ UNCHANGED <<sends, log, inbox, shown, gone, budget>>
\* The claimed file is read and removed.
Read(r) ==
  /\ reader[r].held # {}
  /\ Becomes(r, [reader[r] EXCEPT !.held = {}, !.got = @ \cup reader[r].held])
  /\ UNCHANGED <<sends, log, inbox, shown, gone, budget>>

\* What cannot be read is removed unread.
ReadFails(r) ==
  /\ Fault("io")
  /\ reader[r].held # {}
  /\ gone' = gone \cup Of(Owner[r], reader[r].held)
  /\ Becomes(r, [reader[r] EXCEPT !.held = {}])
  /\ UNCHANGED <<sends, log, inbox, shown>>

-----------------------------------------------------------------------------
(* What becomes of the drained messages                                    *)

Drained(r) == reader[r].at = "drain" /\ reader[r].listed = {} /\ reader[r].held = {}

\* Shows a part of what r drained; nobody puts the rest back.
Return(r, part) ==
  /\ shown' = shown \cup Of(Owner[r], part)
  /\ gone' = gone \cup Of(Owner[r], reader[r].got \ part)
  /\ Becomes(r, Idle)
  /\ UNCHANGED <<sends, log, inbox, budget>>

Poll(r) == r \in Polls /\ Drained(r) /\ Return(r, reader[r].got)

Oldest(messages, k) ==
  {m \in messages : Cardinality({n \in messages : n < m}) < k}

\* The oldest few, fewer when they are long; the first is cut to fit.
Hook(r) ==
  /\ r \in Hooks /\ Drained(r)
  /\ \E k \in 1 .. ShownLimit : Return(r, Oldest(reader[r].got, k))

\* The fence denies the call, or a later stage throws: the output is without them.
HookAnswersElse(r) == r \in Hooks /\ Drained(r) /\ Return(r, {})

\* The agent kills its hook, or the bridge ends; a claimed file keeps its hidden
\* name, which no drain looks at.
ReaderCrash(r) ==
  /\ Fault("crash")
  /\ reader[r] # Idle
  /\ gone' = gone \cup InHand(r)
  /\ Becomes(r, Idle)
  /\ UNCHANGED <<sends, log, inbox, shown>>

Proceed(r) ==
  \/ \E m \in Messages : Take(r, m)
  \/ Read(r) \/ Poll(r) \/ Hook(r) \/ HookAnswersElse(r)

Next ==
  \/ \E m \in Messages : Send(m) \/ SenderCrash(m)
  \/ \E d \in Deliveries : Deliver(d) \/ DeliverFails(d)
  \/ \E g \in Collectors : Rotate(g) \/ Fresh(g)
  \/ \E r \in Readers : Open(r) \/ Proceed(r) \/ ReadFails(r) \/ ReaderCrash(r)
  \/ \E r \in Readers, m \in Messages : TakeFails(r, m)

Spec == Init /\ [][Next]_vars

-----------------------------------------------------------------------------
(* Properties                                                              *)

\* Wherever two drains, a send and a crash interleave, a message for a session is
\* in one place: still to be written, in the inbox, in the hands of one drain,
\* given to the agent or lost; none is in two, and none disappears.
Accounted ==
  /\ \A r, q \in Readers : r # q => InHand(r) \cap InHand(q) = {}
  /\ todo \cap (Waiting \cup shown \cup gone) = {}
  /\ inbox \cap UNION {InHand(r) : r \in Readers} = {}
  /\ Waiting \cap (shown \cup gone) = {}
  /\ shown \cap gone = {}
  /\ addressed = todo \cup Waiting \cup shown \cup gone

Places == [pending |-> Waiting, shown |-> shown, lost |-> gone]
MB == INSTANCE Mailbox WITH
  mail <- [d \in Deliveries |-> {p \in DOMAIN Places : d \in Places[p]}]

\* The inboxes are mailboxes: what was shown or lost stays so, and is never
\* queued or shown again, by whichever drain.
ImplementsMailbox == MB!Spec

\* Rotating the bus loses no line but those that are appended between a rename and
\* the fresh file.
LinesAreKept == bus.posted \subseteq bus.live \cup bus.archived \cup bus.caught
=============================================================================
