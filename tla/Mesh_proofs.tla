----------------------------- MODULE Mesh_proofs -----------------------------
(***************************************************************************)
(* Proofs about the session mesh, for any sessions, collectors and faults. *)
(*                                                                         *)
(* MeshInbox: its types, that every message is accounted for and every     *)
(* line of the bus kept, and that the inboxes implement Mailbox.           *)
(*                                                                         *)
(* MeshClaims: its types, that an active session is listed, that of two    *)
(* sessions that claim one path one is warned, and that claims last.  The  *)
(* argument for the warning (OneIsAware): of two sessions with unexpired   *)
(* claims, at most one was told, or is in the middle of being told, of no  *)
(* claim by the other.  A check that starts after the other's claim was    *)
(* filed sees it; one that started earlier and has missed it may count for *)
(* the one, but then the other has checked nothing since its claim, and    *)
(* will see that of the first, whose session is listed (Trusted).          *)
(***************************************************************************)
EXTENDS MeshInbox, MeshClaims, TLAPS

Ways == [at : {"idle", "drain"}, listed : SUBSET Messages,
         held : SUBSET Messages, got : SUBSET Messages]

Buses == [posted : SUBSET Messages, live : SUBSET Messages,
          archived : SUBSET Messages, caught : SUBSET Messages]

\* A drain does not hold what it has read already.
HeldApart == \A r \in Readers : reader[r].held \cap reader[r].got = {}

\* What was sent is on the bus, so that nothing is sent twice.
AddressedOnBus == \A d \in addressed : d[1] \in bus.posted

\* While a collector rotates, the file holds only lines that came meanwhile.
CaughtInRotation == rotating # {} => bus.live \subseteq bus.caught

IInv ==
  /\ TypeOK /\ HeldApart /\ AddressedOnBus /\ Accounted
  /\ CaughtInRotation /\ LinesAreKept

Handed == UNION {InHand(r) : r \in Readers}
Rest(r) == UNION {InHand(q) : q \in Readers \ {r}}

-----------------------------------------------------------------------------
(* Files and their readers                                                 *)

\* What is for a session is a set of deliveries.
LEMMA OfDeliveries ==
  ASSUME NEW s \in Sessions, NEW A \in SUBSET Messages
  PROVE  Of(s, A) \subseteq Deliveries
BY DEF Of, Deliveries

\* A drain's own step leaves the others as they are.
LEMMA BecomesFacts ==
  ASSUME TypeOK, NEW r \in Readers, NEW state \in Ways, Becomes(r, state)
  PROVE  /\ reader' \in [Readers -> Ways]
         /\ reader'[r] = state
         /\ \A q \in Readers : q # r => reader'[q] = reader[q]
BY DEF TypeOK, Becomes, Ways

\* The hands are those of one drain and those of the rest.
LEMMA HandsSplit ==
  ASSUME NEW r \in Readers
  PROVE  Handed = Rest(r) \cup InHand(r)
<1>1. \A d : d \in Handed <=> \E q \in Readers : d \in InHand(q)  BY DEF Handed
<1>2. \A d : d \in Rest(r) <=> \E q \in Readers \ {r} : d \in InHand(q)  BY DEF Rest
<1> QED  BY <1>1, <1>2

\* What a step of drain r does to the files: it moves some of them forward.
Forward(r) ==
  /\ todo' = todo /\ addressed' = addressed /\ UNCHANGED log
  /\ inbox' \subseteq inbox /\ shown \subseteq shown' /\ gone \subseteq gone'
  /\ shown' \subseteq shown \cup InHand(r)
  /\ inbox' \cup InHand(r)' \cup shown' \cup gone'
       = inbox \cup InHand(r) \cup shown \cup gone
  /\ inbox' \cap InHand(r)' = {} /\ (inbox' \cup InHand(r)') \cap (shown' \cup gone') = {}
  /\ shown' \cap gone' = {}

\* What any step of the system does to a message, as the mailbox sees it.
Onward ==
  /\ Waiting \subseteq Waiting' \cup shown' \cup gone'
  /\ shown \subseteq shown' /\ gone \subseteq gone'
  /\ shown' \subseteq shown \cup Waiting

LEMMA WaitingIs == Waiting = inbox \cup Handed
BY DEF Waiting, Handed

\* A forward step keeps every message accounted for.
LEMMA ForwardAccounts ==
  ASSUME Accounted, NEW r \in Readers, Forward(r),
         \A q \in Readers : q # r => InHand(q)' = InHand(q)
  PROVE  Accounted' /\ Onward
<1> DEFINE H == InHand(r)
           R == Rest(r)
<1>1. Handed = R \cup H  BY HandsSplit
<1>2. Handed' = R' \cup H'
  <2>1. \A d : d \in Handed' <=> \E q \in Readers : d \in InHand(q)'  BY DEF Handed
  <2>2. \A d : d \in R' <=> \E q \in Readers \ {r} : d \in InHand(q)'  BY DEF Rest
  <2> HIDE DEF R, H
  <2>3. \A d : d \in H' <=> d \in InHand(r)'  BY DEF H
  <2> QED  BY <2>1, <2>2, <2>3
<1>3. R' = R
  <2>1. \A d : d \in R <=> \E q \in Readers \ {r} : d \in InHand(q)  BY DEF Rest
  <2>2. \A d : d \in R' <=> \E q \in Readers \ {r} : d \in InHand(q)'  BY DEF Rest
  <2> QED  BY <2>1, <2>2
<1>4. R \cap H = {}
  <2>1. \A d \in R : \E q \in Readers \ {r} : d \in InHand(q)  BY DEF Rest
  <2>2. \A q \in Readers \ {r} : InHand(q) \cap H = {}  BY DEF Accounted
  <2> QED  BY <2>1, <2>2
<1>5. Waiting = inbox \cup R \cup H /\ Waiting' = inbox' \cup R \cup H'
  BY <1>1, <1>2, <1>3, WaitingIs DEF Waiting, Handed
<1>6. /\ todo \cap (Waiting \cup shown \cup gone) = {}
      /\ inbox \cap (R \cup H) = {}
      /\ Waiting \cap (shown \cup gone) = {}
      /\ shown \cap gone = {}
      /\ addressed = todo \cup Waiting \cup shown \cup gone
  BY <1>1 DEF Accounted, Handed
<1>7. /\ todo' = todo /\ addressed' = addressed
      /\ inbox' \subseteq inbox /\ shown \subseteq shown' /\ gone \subseteq gone'
      /\ shown' \subseteq shown \cup H
      /\ inbox' \cup H' \cup shown' \cup gone' = inbox \cup H \cup shown \cup gone
      /\ inbox' \cap H' = {} /\ (inbox' \cup H') \cap (shown' \cup gone') = {}
      /\ shown' \cap gone' = {}
  BY DEF Forward
<1> HIDE DEF H, R
<1>8. Onward  BY <1>5, <1>7 DEF Onward
<1>9. R \cap (inbox' \cup H' \cup shown' \cup gone') = {}
  BY <1>4, <1>5, <1>6, <1>7
<1>10. \A p, q \in Readers : p # q => InHand(p)' \cap InHand(q)' = {}
  <2>1. \A q \in Readers : q # r => InHand(q)' = InHand(q) /\ InHand(q) \subseteq R
    BY DEF R, Rest
  <2>2. \A p, q \in Readers : p # q => InHand(p) \cap InHand(q) = {}  BY DEF Accounted
  <2>3. H' = InHand(r)'  BY DEF H
  <2> QED  BY <1>9, <2>1, <2>2, <2>3
<1>11. /\ todo' \cap (Waiting' \cup shown' \cup gone') = {}
       /\ inbox' \cap (R \cup H') = {}
       /\ Waiting' \cap (shown' \cup gone') = {}
       /\ shown' \cap gone' = {}
       /\ addressed' = todo' \cup Waiting' \cup shown' \cup gone'
  BY <1>5, <1>6, <1>7, <1>9
<1>12. (inbox \cap UNION {InHand(q) : q \in Readers})' = {}
  BY <1>2, <1>3, <1>11 DEF Handed
<1> QED  BY <1>8, <1>10, <1>11, <1>12 DEF Accounted

-----------------------------------------------------------------------------
(* The steps of a drain, each of which is a forward one                    *)

USE ReadersAssumption, OwnerAssumption, MessagesAssumption

\* What a step of drain r keeps.
Kept(r) ==
  /\ Forward(r) /\ \A q \in Readers : q # r => InHand(q)' = InHand(q)
  /\ HeldApart'
  /\ reader' \in [Readers -> Ways]
  /\ \A q \in Readers :
       /\ reader'[q].at = "idle" => reader'[q] = Idle
       /\ \A m, n \in reader'[q].held : m = n

\* From the sets before and after to those of deliveries.
LEMMA KeptIs ==
  ASSUME IInv, NEW r \in Readers, NEW state \in Ways, Becomes(r, state),
         UNCHANGED <<sends, log>>,
         NEW file \in SUBSET Messages, NEW give \in SUBSET Messages, NEW lose \in SUBSET Messages,
         Of(Owner[r], file) \subseteq inbox,
         inbox' = inbox \ Of(Owner[r], file),
         shown' = shown \cup Of(Owner[r], give),
         gone' = gone \cup Of(Owner[r], lose),
         state.held \cup state.got \cup give \cup lose
           = reader[r].held \cup reader[r].got \cup file,
         give \subseteq reader[r].held \cup reader[r].got,
         lose \subseteq reader[r].held \cup reader[r].got,
         give \cap lose = {}, (state.held \cup state.got) \cap (give \cup lose) = {},
         state.held \cap state.got = {},
         state.at = "idle" => state = Idle,
         \A m, n \in state.held : m = n
  PROVE  Kept(r)
<1> DEFINE s == Owner[r]
           old == reader[r].held \cup reader[r].got
           new == state.held \cup state.got
<1>1. /\ reader' \in [Readers -> Ways] /\ reader'[r] = state
      /\ \A q \in Readers : q # r => reader'[q] = reader[q]
  BY BecomesFacts DEF IInv
<1>2. InHand(r) = Of(s, old) /\ InHand(r)' = Of(s, new)
  BY <1>1 DEF InHand, Of
<1>3. \A q \in Readers : q # r => InHand(q)' = InHand(q)
  BY <1>1 DEF InHand, Of
<1>4. /\ Of(s, new) \cup Of(s, give) \cup Of(s, lose) = Of(s, old) \cup Of(s, file)
      /\ Of(s, give) \subseteq Of(s, old) /\ Of(s, lose) \subseteq Of(s, old)
      /\ Of(s, give) \cap Of(s, lose) = {}
      /\ Of(s, new) \cap (Of(s, give) \cup Of(s, lose)) = {}
  <2>1. new \cup give \cup lose = old \cup file /\ give \subseteq old /\ lose \subseteq old
        /\ give \cap lose = {} /\ new \cap (give \cup lose) = {}
    OBVIOUS
  <2> HIDE DEF new, old, s
  <2> QED  BY <2>1 DEF Of
<1>5. /\ InHand(r) \cap inbox = {} /\ InHand(r) \cap (shown \cup gone) = {}
      /\ inbox \cap (shown \cup gone) = {} /\ shown \cap gone = {}
  <2>1. InHand(r) \subseteq Waiting /\ inbox \subseteq Waiting
    BY DEF Waiting
  <2>2. InHand(r) \cap inbox = {}
    BY DEF IInv, Accounted
  <2> QED  BY <2>1, <2>2 DEF IInv, Accounted
<1>6. Forward(r)
  <2> DEFINE F == Of(s, file)
             G == Of(s, give)
             L == Of(s, lose)
             N == Of(s, new)
             O == Of(s, old)
  <2>1. InHand(r) = O /\ InHand(r)' = N  BY <1>2
  <2>2. N \cup G \cup L = O \cup F /\ G \subseteq O /\ L \subseteq O /\ G \cap L = {} /\ N \cap (G \cup L) = {}
    BY <1>4
  <2>3. F \subseteq inbox /\ inbox' = inbox \ F /\ shown' = shown \cup G /\ gone' = gone \cup L
    OBVIOUS
  <2>4. todo' = todo /\ addressed' = addressed /\ UNCHANGED log  BY DEF sends
  <2> HIDE DEF F, G, L, N, O, s
  <2> QED  BY <1>5, <2>1, <2>2, <2>3, <2>4 DEF Forward
<1>7. HeldApart'
  BY <1>1 DEF IInv, HeldApart
<1>8. \A q \in Readers : /\ reader'[q].at = "idle" => reader'[q] = Idle
                        /\ \A m, n \in reader'[q].held : m = n
  <2> TAKE q \in Readers
  <2>1. CASE q = r  BY <1>1, <2>1
  <2>2. CASE q # r
    <3>1. reader'[q] = reader[q]  BY <1>1, <2>2
    <3> QED  BY <3>1 DEF IInv, TypeOK
  <2> QED  BY <2>1, <2>2
<1> QED  BY <1>1, <1>3, <1>6, <1>7, <1>8 DEF Kept

LEMMA IdleWays == Idle \in Ways
BY DEF Idle, Ways

LEMMA TypedWays == ASSUME IInv, NEW r \in Readers PROVE reader[r] \in Ways
BY DEF IInv, TypeOK, Ways

LEMMA OpenKept == ASSUME IInv, NEW r \in Readers, Open(r) PROVE Kept(r)
<1>1. PICK files \in SUBSET Messages :
        Becomes(r, [Idle EXCEPT !.at = "drain", !.listed = files])
  BY DEF Open
<1> DEFINE state == [Idle EXCEPT !.at = "drain", !.listed = files]
<1>2. state \in Ways /\ state.held = {} /\ state.got = {} /\ state.at = "drain"
  BY DEF Ways, Idle
<1>3. reader[r].held = {} /\ reader[r].got = {}
  BY DEF Open, IInv, TypeOK, Idle
<1>4. inbox' = inbox \ Of(Owner[r], {}) /\ shown' = shown \cup Of(Owner[r], {})
      /\ gone' = gone \cup Of(Owner[r], {}) /\ Of(Owner[r], {}) \subseteq inbox
  BY DEF Open, Of
<1> HIDE DEF state
<1>5. Becomes(r, state) /\ UNCHANGED <<sends, log>>  BY <1>1 DEF state, Open
<1>6. {} \in SUBSET Messages  OBVIOUS
<1> QED  BY <1>2, <1>3, <1>4, <1>5, <1>6, KeptIs

LEMMA TakeKept ==
  ASSUME IInv, NEW r \in Readers, NEW m \in Messages, Take(r, m)
  PROVE  Kept(r)
<1> DEFINE s == Owner[r]
<1>1. CASE <<m, s>> \in inbox
  <2> DEFINE state == [reader[r] EXCEPT !.listed = @ \ {m}, !.held = {m}]
  <2>1. state \in Ways /\ state.held = {m} /\ state.got = reader[r].got /\ state.at = "drain"
    BY TypedWays DEF Ways, Take
  <2>2. reader[r].held = {}  BY DEF Take
  <2>3. m \notin reader[r].got
    <3>1. m \in reader[r].got => <<m, s>> \in InHand(r)  BY DEF InHand, Of
    <3> QED  BY <1>1, <3>1 DEF IInv, Accounted
  <2>4. /\ Of(s, {m}) \subseteq inbox /\ inbox' = inbox \ Of(s, {m})
        /\ shown' = shown \cup Of(s, {}) /\ gone' = gone \cup Of(s, {})
    BY <1>1 DEF Take, Of
  <2>5. Becomes(r, state) /\ UNCHANGED <<sends, log>>  BY <1>1 DEF Take
  <2>6. {m} \in SUBSET Messages /\ {} \in SUBSET Messages  OBVIOUS
  <2> HIDE DEF state
  <2>7. /\ state.held \cup state.got \cup {} \cup {} = reader[r].held \cup reader[r].got \cup {m}
        /\ state.held \cap state.got = {}
        /\ \A x, y \in state.held : x = y
    BY <2>1, <2>2, <2>3
  <2>8. /\ {} \subseteq reader[r].held \cup reader[r].got
        /\ {} \cap {} = {} /\ (state.held \cup state.got) \cap ({} \cup {}) = {}
        /\ state.at = "idle" => state = Idle
    BY <2>1
  <2> QED  BY <2>1, <2>4, <2>5, <2>6, <2>7, <2>8, KeptIs
<1>2. CASE <<m, s>> \notin inbox
  <2> DEFINE state == [reader[r] EXCEPT !.listed = @ \ {m}]
  <2>1. state \in Ways /\ state.held = {} /\ state.got = reader[r].got /\ state.at = "drain"
    BY TypedWays DEF Ways, Take
  <2>2. reader[r].held = {}  BY DEF Take
  <2>3. reader[r].got \in SUBSET Messages  BY TypedWays DEF Ways
  <2>4. /\ Of(s, {}) \subseteq inbox /\ inbox' = inbox \ Of(s, {})
        /\ shown' = shown \cup Of(s, {}) /\ gone' = gone \cup Of(s, {})
    BY <1>2 DEF Take, Of
  <2>5. Becomes(r, state) /\ UNCHANGED <<sends, log>>  BY <1>2 DEF Take
  <2> HIDE DEF state
  <2> QED  BY <2>1, <2>2, <2>3, <2>4, <2>5, KeptIs
<1> QED  BY <1>1, <1>2

LEMMA TakeFailsKept ==
  ASSUME IInv, NEW r \in Readers, NEW m \in Messages, TakeFails(r, m)
  PROVE  Kept(r)
<1> DEFINE s == Owner[r]
           state == [reader[r] EXCEPT !.listed = @ \ {m}]
<1>1. state \in Ways /\ state.held = {} /\ state.got = reader[r].got /\ state.at = "drain"
  BY TypedWays DEF Ways, TakeFails
<1>2. reader[r].held = {}  BY DEF TakeFails
<1>3. /\ Of(s, {}) \subseteq inbox /\ inbox' = inbox \ Of(s, {})
      /\ shown' = shown \cup Of(s, {}) /\ gone' = gone \cup Of(s, {})
  BY DEF TakeFails, Of
<1>4. Becomes(r, state) /\ UNCHANGED <<sends, log>>  BY DEF TakeFails
<1> HIDE DEF state
<1> QED  BY <1>1, <1>2, <1>3, <1>4, KeptIs

LEMMA ReadKept == ASSUME IInv, NEW r \in Readers, Read(r) PROVE Kept(r)
<1> DEFINE s == Owner[r]
           state == [reader[r] EXCEPT !.held = {}, !.got = @ \cup reader[r].held]
<1>1. /\ state \in Ways /\ state.held = {} /\ state.at = reader[r].at
      /\ state.got = reader[r].got \cup reader[r].held
  BY TypedWays DEF Ways
<1>2. reader[r].at # "idle"  BY DEF Read, IInv, TypeOK, Idle
<1>3. /\ Of(s, {}) \subseteq inbox /\ inbox' = inbox \ Of(s, {})
      /\ shown' = shown \cup Of(s, {}) /\ gone' = gone \cup Of(s, {})
  BY DEF Read, Of
<1>4. Becomes(r, state) /\ UNCHANGED <<sends, log>>  BY DEF Read
<1> HIDE DEF state
<1> QED  BY <1>1, <1>2, <1>3, <1>4, KeptIs

LEMMA ReadFailsKept == ASSUME IInv, NEW r \in Readers, ReadFails(r) PROVE Kept(r)
<1> DEFINE s == Owner[r]
           state == [reader[r] EXCEPT !.held = {}]
<1>1. /\ state \in Ways /\ state.held = {} /\ state.at = reader[r].at
      /\ state.got = reader[r].got
  BY TypedWays DEF Ways
<1>2. reader[r].at # "idle"  BY DEF ReadFails, IInv, TypeOK, Idle
<1>3. /\ Of(s, {}) \subseteq inbox /\ inbox' = inbox \ Of(s, {})
      /\ shown' = shown \cup Of(s, {}) /\ gone' = gone \cup Of(s, reader[r].held)
  BY DEF ReadFails, Of
<1>4. Becomes(r, state) /\ UNCHANGED <<sends, log>>  BY DEF ReadFails
<1>5. reader[r].held \in SUBSET Messages /\ reader[r].held \cap reader[r].got = {}
  BY TypedWays DEF Ways, IInv, HeldApart
<1> HIDE DEF state
<1> QED  BY <1>1, <1>2, <1>3, <1>4, <1>5, KeptIs

LEMMA ReturnKept ==
  ASSUME IInv, NEW r \in Readers, Drained(r),
         NEW part \in SUBSET reader[r].got, Return(r, part)
  PROVE  Kept(r)
<1> DEFINE s == Owner[r]
           rest == reader[r].got \ part
<1>1. Idle \in Ways /\ Idle.held = {} /\ Idle.got = {}
  BY IdleWays DEF Idle
<1>2. reader[r].held = {}  BY DEF Drained
<1>3. /\ Of(s, {}) \subseteq inbox /\ inbox' = inbox \ Of(s, {})
      /\ shown' = shown \cup Of(s, part) /\ gone' = gone \cup Of(s, rest)
  BY DEF Return, Of
<1>4. Becomes(r, Idle) /\ UNCHANGED <<sends, log>>  BY DEF Return
<1>5. reader[r].got \in SUBSET Messages  BY TypedWays DEF Ways
<1> QED  BY <1>1, <1>2, <1>3, <1>4, <1>5, KeptIs

LEMMA ReaderCrashKept == ASSUME IInv, NEW r \in Readers, ReaderCrash(r) PROVE Kept(r)
<1> DEFINE s == Owner[r]
           lost == reader[r].held \cup reader[r].got
<1>1. Idle \in Ways /\ Idle.held = {} /\ Idle.got = {}
  BY IdleWays DEF Idle
<1>2. /\ Of(s, {}) \subseteq inbox /\ inbox' = inbox \ Of(s, {})
      /\ shown' = shown \cup Of(s, {}) /\ gone' = gone \cup Of(s, lost)
  BY DEF ReaderCrash, InHand, Of
<1>3. Becomes(r, Idle) /\ UNCHANGED <<sends, log>>  BY DEF ReaderCrash
<1>4. lost \in SUBSET Messages  BY TypedWays DEF Ways
<1> QED  BY <1>1, <1>2, <1>3, <1>4, KeptIs

\* All that a drain does.
Drains(r) ==
  \/ Open(r) \/ Proceed(r) \/ ReadFails(r) \/ ReaderCrash(r)
  \/ \E m \in Messages : TakeFails(r, m)

LEMMA DrainsKeep == ASSUME IInv, NEW r \in Readers, Drains(r) PROVE Kept(r)
<1>1. CASE Poll(r)  BY <1>1, ReturnKept DEF Poll
<1>2. CASE Hook(r)
  <2>1. PICK k \in 1 .. ShownLimit : Return(r, Oldest(reader[r].got, k))  BY <1>2 DEF Hook
  <2>2. Oldest(reader[r].got, k) \in SUBSET reader[r].got  BY DEF Oldest
  <2> QED  BY <1>2, <2>1, <2>2, ReturnKept DEF Hook
<1>3. CASE HookAnswersElse(r)  BY <1>3, ReturnKept DEF HookAnswersElse
<1> QED
  BY <1>1, <1>2, <1>3, OpenKept, TakeKept, TakeFailsKept, ReadKept, ReadFailsKept,
     ReaderCrashKept DEF Drains, Proceed

-----------------------------------------------------------------------------
(* The inductive invariant                                                 *)

\* The steps of a send do not touch a reader.
Sends ==
  \/ \E m \in Messages : Send(m) \/ SenderCrash(m)
  \/ \E d \in Deliveries : Deliver(d) \/ DeliverFails(d)

\* Those of a rotation touch the bus alone.
Rotates == \E g \in Collectors : Rotate(g) \/ Fresh(g)

LEMMA HandsStay ==
  ASSUME UNCHANGED reader
  PROVE  /\ \A r \in Readers : InHand(r)' = InHand(r)
         /\ Handed' = Handed
         /\ HeldApart' <=> HeldApart
BY DEF InHand, Handed, Of, HeldApart

LEMMA AccountedIs ==
  Accounted <=>
    /\ \A r, q \in Readers : r # q => InHand(r) \cap InHand(q) = {}
    /\ todo \cap (Waiting \cup shown \cup gone) = {}
    /\ inbox \cap Handed = {}
    /\ Waiting \cap (shown \cup gone) = {}
    /\ shown \cap gone = {}
    /\ addressed = todo \cup Waiting \cup shown \cup gone
BY DEF Accounted, Handed

LEMMA SendsAccount == ASSUME IInv, Sends PROVE Accounted' /\ Onward
<1>1. reader' = reader  BY DEF Sends, Send, SenderCrash, Deliver, DeliverFails, NotDelivered
<1>2. /\ \A r, q \in Readers : r # q => InHand(r)' \cap InHand(q)' = {}
      /\ Handed' = Handed
  BY <1>1, HandsStay, AccountedIs DEF IInv
<1>3. Waiting = inbox \cup Handed /\ Waiting' = inbox' \cup Handed
  BY <1>2, WaitingIs DEF Waiting, Handed
<1>4. /\ todo \cap (Waiting \cup shown \cup gone) = {}
      /\ inbox \cap Handed = {}
      /\ Waiting \cap (shown \cup gone) = {}
      /\ shown \cap gone = {}
      /\ addressed = todo \cup Waiting \cup shown \cup gone
  BY AccountedIs DEF IInv
<1>5. SUFFICES /\ todo' \cap (Waiting' \cup shown' \cup gone') = {}
               /\ inbox' \cap Handed = {}
               /\ Waiting' \cap (shown' \cup gone') = {}
               /\ shown' \cap gone' = {}
               /\ addressed' = todo' \cup Waiting' \cup shown' \cup gone'
               /\ Onward
  <2>1. (inbox \cap UNION {InHand(q) : q \in Readers})' = inbox' \cap Handed
    BY <1>2 DEF Handed
  <2> QED  BY <1>2, <2>1 DEF Accounted
<1>6. ASSUME NEW m \in Messages, Send(m) PROVE <1>5!1
  <2>1. PICK new \in SUBSET Deliveries :
          /\ addressed' = addressed \cup new /\ todo' = todo \cup new
          /\ \A d \in new : d[1] = m
    <3>1. PICK recipients \in SUBSET Sessions :
            addressed' = addressed \cup ({m} \X recipients) /\ todo' = todo \cup ({m} \X recipients)
      BY <1>6 DEF Send
    <3>2. {m} \X recipients \in SUBSET Deliveries /\ \A d \in {m} \X recipients : d[1] = m
      BY DEF Deliveries
    <3> QED  BY <3>1, <3>2
  <2>2. new \cap addressed = {}
    BY <1>6, <2>1 DEF Send, IInv, AddressedOnBus
  <2>3. inbox' = inbox /\ shown' = shown /\ gone' = gone  BY <1>6 DEF Send
  <2> QED  BY <1>3, <1>4, <2>1, <2>2, <2>3 DEF Onward
<1>7. ASSUME NEW d \in Deliveries, Deliver(d) PROVE <1>5!1
  <2>1. /\ d \in todo /\ todo' = todo \ {d} /\ inbox' = inbox \cup {d}
        /\ addressed' = addressed /\ shown' = shown /\ gone' = gone
    BY <1>7 DEF Deliver
  <2> QED  BY <1>3, <1>4, <2>1 DEF Onward
<1>8. ASSUME NEW lost, NotDelivered(lost) PROVE <1>5!1
  <2>1. /\ lost \subseteq todo /\ todo' = todo \ lost /\ gone' = gone \cup lost
        /\ addressed' = addressed /\ shown' = shown /\ inbox' = inbox
    BY <1>8 DEF NotDelivered
  <2> QED  BY <1>3, <1>4, <2>1 DEF Onward
<1> QED  BY <1>6, <1>7, <1>8 DEF Sends, SenderCrash, DeliverFails

LEMMA NextIs == Next <=> Sends \/ Rotates \/ \E r \in Readers : Drains(r)
BY DEF Next, Sends, Rotates, Drains

LEMMA BudgetTyped == ASSUME TypeOK, Next PROVE budget' \in Nat
<1>1. budget' = budget \/ \E kind \in {"crash", "io"} : Fault(kind)
  BY DEF Next, Send, SenderCrash, Deliver, DeliverFails, Open, Proceed, Take, Read, Poll,
         Hook, HookAnswersElse, Return, ReadFails, ReaderCrash, TakeFails, Rotate, Fresh
<1> QED  BY <1>1 DEF Fault, TypeOK

LEMMA SendsTyped ==
  ASSUME IInv, Sends
  PROVE  /\ bus' \in Buses /\ addressed' \subseteq Deliveries
         /\ todo' \subseteq Deliveries /\ inbox' \subseteq Deliveries
         /\ shown' \subseteq Deliveries /\ gone' \subseteq Deliveries
         /\ reader' = reader /\ rotating' = rotating
         /\ AddressedOnBus' /\ CaughtInRotation' /\ LinesAreKept'
<1>0. bus \in Buses  BY DEF IInv, TypeOK, Buses
<1>1. ASSUME NEW m \in Messages, Send(m)
      PROVE  /\ addressed' \subseteq Deliveries /\ todo' \subseteq Deliveries
             /\ bus' \in Buses /\ AddressedOnBus' /\ CaughtInRotation' /\ LinesAreKept'
  <2>1. PICK recipients \in SUBSET Sessions :
          addressed' = addressed \cup ({m} \X recipients) /\ todo' = todo \cup ({m} \X recipients)
    BY <1>1 DEF Send
  <2>2. /\ bus' \in Buses /\ rotating' = rotating
        /\ bus'.posted = bus.posted \cup {m} /\ bus'.live = bus.live \cup {m}
        /\ bus'.archived = bus.archived
        /\ bus'.caught = IF rotating # {} THEN bus.caught \cup {m} ELSE bus.caught
    BY <1>0, <1>1 DEF Send, Buses
  <2>3. \A d \in {m} \X recipients : d \in Deliveries /\ d[1] = m  BY DEF Deliveries
  <2>4. addressed' \subseteq Deliveries /\ todo' \subseteq Deliveries /\ AddressedOnBus'
    BY <2>1, <2>2, <2>3 DEF IInv, TypeOK, AddressedOnBus
  <2>5. CaughtInRotation' /\ LinesAreKept'
    BY <2>2 DEF IInv, CaughtInRotation, LinesAreKept
  <2> QED  BY <2>2, <2>4, <2>5
<1>2. ASSUME UNCHANGED log PROVE bus' \in Buses /\ CaughtInRotation' /\ LinesAreKept'
  BY <1>0, <1>2 DEF log, IInv, CaughtInRotation, LinesAreKept
<1>3. CASE \E m \in Messages : Send(m)
  BY <1>1, <1>3 DEF Send, IInv, TypeOK
<1>4. CASE \E d \in Deliveries : Deliver(d)
  BY <1>2, <1>4 DEF Deliver, IInv, TypeOK, AddressedOnBus, log
<1>5. ASSUME NEW lost, NotDelivered(lost)
      PROVE  /\ todo' \subseteq todo /\ gone' \subseteq gone \cup todo
             /\ UNCHANGED <<log, addressed, inbox, reader, shown>>
  BY <1>5 DEF NotDelivered, log
<1>6. CASE \E lost : NotDelivered(lost)
  BY <1>2, <1>5, <1>6 DEF IInv, TypeOK, AddressedOnBus, log
<1> QED  BY <1>3, <1>4, <1>6 DEF Sends, SenderCrash, DeliverFails

\* What a rotation does to the bus.
LEMMA RotatesKeep ==
  ASSUME IInv, Rotates
  PROVE  /\ bus' \in Buses /\ bus'.posted = bus.posted /\ rotating' \subseteq Collectors
         /\ CaughtInRotation' /\ LinesAreKept'
         /\ UNCHANGED <<sends, inbox, reader, shown, gone, budget>>
<1>0. bus \in Buses  BY DEF IInv, TypeOK, Buses
<1>1. ASSUME NEW g \in Collectors, Rotate(g)
      PROVE  /\ bus' \in Buses /\ bus'.posted = bus.posted
             /\ CaughtInRotation' /\ LinesAreKept'
  <2>1. /\ bus' \in Buses /\ bus'.posted = bus.posted /\ bus'.live = {}
        /\ bus'.archived = bus.archived \cup bus.live /\ bus'.caught = bus.caught
    BY <1>0, <1>1 DEF Rotate, Buses
  <2> QED  BY <2>1 DEF IInv, CaughtInRotation, LinesAreKept
<1>2. ASSUME NEW g \in Collectors, Fresh(g)
      PROVE  /\ bus' \in Buses /\ bus'.posted = bus.posted
             /\ CaughtInRotation' /\ LinesAreKept'
  <2>1. /\ bus' \in Buses /\ bus'.posted = bus.posted /\ bus'.live = {}
        /\ bus'.archived = bus.archived /\ bus'.caught = bus.caught
    BY <1>0, <1>2 DEF Fresh, Buses
  <2>2. bus.live \subseteq bus.caught  BY <1>2 DEF Fresh, IInv, CaughtInRotation
  <2> QED  BY <2>1, <2>2 DEF IInv, CaughtInRotation, LinesAreKept
<1>3. /\ rotating' \subseteq Collectors
      /\ UNCHANGED <<sends, inbox, reader, shown, gone, budget>>
  BY DEF Rotates, Rotate, Fresh, IInv, TypeOK
<1> QED  BY <1>1, <1>2, <1>3 DEF Rotates

LEMMA KeptTyped ==
  ASSUME IInv, NEW r \in Readers, Kept(r)
  PROVE  /\ bus' \in Buses /\ rotating' \subseteq Collectors /\ addressed' \subseteq Deliveries
         /\ todo' \subseteq Deliveries /\ inbox' \subseteq Deliveries
         /\ shown' \subseteq Deliveries /\ gone' \subseteq Deliveries
         /\ AddressedOnBus' /\ CaughtInRotation' /\ LinesAreKept'
<1>1. reader[r].held \cup reader[r].got \in SUBSET Messages  BY TypedWays DEF Ways
<1>2. InHand(r) \subseteq Deliveries
  <2>1. Owner[r] \in Sessions  OBVIOUS
  <2> QED  BY <1>1, <2>1, OfDeliveries DEF InHand
<1>3. shown' \cup gone' \subseteq inbox \cup InHand(r) \cup shown \cup gone
  BY DEF Kept, Forward
<1>4. UNCHANGED <<log, todo, addressed>> /\ inbox' \subseteq inbox  BY DEF Kept, Forward
<1>5. bus' \in Buses /\ CaughtInRotation' /\ LinesAreKept' /\ AddressedOnBus'
  BY <1>4 DEF log, IInv, TypeOK, Buses, CaughtInRotation, LinesAreKept, AddressedOnBus
<1> QED  BY <1>2, <1>3, <1>4, <1>5 DEF IInv, TypeOK, log

LEMMA FilesStay ==
  ASSUME IInv, UNCHANGED <<sends, inbox, reader, shown, gone>>
  PROVE  Accounted' /\ HeldApart' /\ Onward
<1>1. \A r \in Readers : InHand(r)' = InHand(r)  BY HandsStay
<1>2. Handed' = Handed  BY HandsStay
<1>3. Waiting' = Waiting  BY <1>2, WaitingIs DEF Waiting, Handed
<1>4. (inbox \cap UNION {InHand(q) : q \in Readers})' = inbox \cap Handed
  BY <1>2 DEF Handed
<1>5. Accounted'
  BY <1>1, <1>3, <1>4, AccountedIs DEF sends, IInv, Accounted
<1> QED  BY <1>3, <1>5, HandsStay DEF IInv, Onward

LEMMA InvStep == ASSUME IInv, Next PROVE IInv' /\ Onward
<1>1. budget' \in Nat  BY BudgetTyped DEF IInv
<1>2. CASE Sends
  <2>1. Accounted' /\ Onward  BY <1>2, SendsAccount
  <2>2. /\ bus' \in Buses /\ addressed' \subseteq Deliveries
        /\ todo' \subseteq Deliveries /\ inbox' \subseteq Deliveries
        /\ shown' \subseteq Deliveries /\ gone' \subseteq Deliveries
        /\ reader' = reader /\ rotating' = rotating
        /\ AddressedOnBus' /\ CaughtInRotation' /\ LinesAreKept'
    BY <1>2, SendsTyped
  <2>3. HeldApart'  BY <2>2, HandsStay DEF IInv
  <2>4. TypeOK'  BY <1>1, <2>2 DEF IInv, TypeOK, Buses
  <2> QED  BY <2>1, <2>2, <2>3, <2>4 DEF IInv
<1>3. ASSUME NEW r \in Readers, Drains(r) PROVE IInv' /\ Onward
  <2>1. Kept(r)  BY <1>3, DrainsKeep
  <2>2. Accounted' /\ Onward  BY <2>1, ForwardAccounts DEF Kept, IInv
  <2>3. /\ bus' \in Buses /\ rotating' \subseteq Collectors /\ addressed' \subseteq Deliveries
        /\ todo' \subseteq Deliveries /\ inbox' \subseteq Deliveries
        /\ shown' \subseteq Deliveries /\ gone' \subseteq Deliveries
        /\ AddressedOnBus' /\ CaughtInRotation' /\ LinesAreKept'
    BY <2>1, KeptTyped
  <2>4. TypeOK'  BY <1>1, <2>1, <2>3 DEF Kept, TypeOK, Ways, Buses
  <2> QED  BY <2>1, <2>2, <2>3, <2>4 DEF IInv, Kept
<1>4. CASE Rotates
  <2>1. /\ bus' \in Buses /\ bus'.posted = bus.posted /\ rotating' \subseteq Collectors
        /\ CaughtInRotation' /\ LinesAreKept'
        /\ UNCHANGED <<sends, inbox, reader, shown, gone, budget>>
    BY <1>4, RotatesKeep
  <2>2. Accounted' /\ HeldApart' /\ Onward
    BY <2>1, FilesStay
  <2>3. AddressedOnBus'  BY <2>1 DEF IInv, AddressedOnBus, sends
  <2>4. TypeOK'  BY <2>1 DEF IInv, TypeOK, Buses, sends
  <2> QED  BY <2>1, <2>2, <2>3, <2>4 DEF IInv
<1> QED  BY <1>2, <1>3, <1>4, NextIs

LEMMA InvInit == Init => IInv
<1> SUFFICES ASSUME Init PROVE IInv  OBVIOUS
<1>1. \A r \in Readers : reader[r] = Idle  BY DEF Init
<1>2. TypeOK
  <2>1. reader \in [Readers -> Ways]  BY IdleWays DEF Init
  <2> QED  BY <1>1, <2>1, FaultsAssumption DEF Init, TypeOK, Ways, Idle
<1>3. \A r \in Readers : InHand(r) = {}  BY <1>1 DEF InHand, Idle, Of
<1>4. Handed = {}  BY <1>3 DEF Handed
<1>5. Accounted
  <2>1. Waiting = {}  BY <1>4, WaitingIs DEF Init
  <2> QED  BY <1>3, <1>4, <2>1, AccountedIs DEF Init
<1>6. HeldApart /\ AddressedOnBus /\ CaughtInRotation /\ LinesAreKept
  BY <1>1 DEF HeldApart, AddressedOnBus, CaughtInRotation, LinesAreKept, Init, Idle
<1> QED  BY <1>2, <1>5, <1>6 DEF IInv

LEMMA InvStutter == ASSUME IInv, UNCHANGED vars PROVE IInv'
<1>1. Accounted' /\ HeldApart'  BY FilesStay DEF vars
<1>2. TypeOK' /\ AddressedOnBus'  BY DEF IInv, TypeOK, AddressedOnBus, vars, sends, log
<1>3. CaughtInRotation' /\ LinesAreKept'
  BY DEF IInv, CaughtInRotation, LinesAreKept, vars, log
<1> QED  BY <1>1, <1>2, <1>3 DEF IInv

LEMMA InvAlways == Spec => []IInv
<1>1. IInv /\ [Next]_vars => IInv'  BY InvStep, InvStutter
<1> QED  BY <1>1, InvInit, PTL DEF Spec

-----------------------------------------------------------------------------
(* Theorems                                                                *)

\* Every drain holds one claimed file at most, and an idle one nothing.
THEOREM TypeCorrect == Spec => []TypeOK
<1>1. IInv => TypeOK  BY DEF IInv
<1> QED  BY <1>1, InvAlways, PTL

\* However sends, drains and crashes interleave, every message for a session is in
\* one place and none disappears.
THEOREM AllAccounted == Spec => []Accounted
<1>1. IInv => Accounted  BY DEF IInv
<1> QED  BY <1>1, InvAlways, PTL

\* With any number of collectors, a line that is posted is in the log or in a rotated
\* file, unless it was appended inside a rotation.
THEOREM AllLinesKept == Spec => []LinesAreKept
<1>1. IInv => LinesAreKept  BY DEF IInv
<1> QED  BY <1>1, InvAlways, PTL

\* Where a message is, given that it is accounted for.
LEMMA PlaceIs ==
  ASSUME Accounted, NEW d
  PROVE  {p \in DOMAIN Places : d \in Places[p]} =
           IF d \in Waiting THEN {"pending"} ELSE IF d \in shown THEN {"shown"}
           ELSE IF d \in gone THEN {"lost"} ELSE {}
<1>1. /\ DOMAIN Places = {"pending", "shown", "lost"}
      /\ Places["pending"] = Waiting /\ Places["shown"] = shown /\ Places["lost"] = gone
  BY DEF Places
<1> HIDE DEF Places
<1> QED  BY <1>1 DEF Accounted

\* The inboxes, with any number of concurrent drains, are mailboxes: what was shown
\* or lost never comes back.
THEOREM Implements == Spec => ImplementsMailbox
<1> DEFINE mail == [d \in Deliveries |-> {p \in DOMAIN Places : d \in Places[p]}]
<1>1. Init => MB!Init
  <2> SUFFICES ASSUME Init PROVE mail = [d \in Deliveries |-> {}]  BY DEF MB!Init
  <2>1. Accounted  BY InvInit DEF IInv
  <2>2. Waiting = {} /\ shown = {} /\ gone = {}
    BY <2>1, AccountedIs DEF Init
  <2> QED  BY <2>1, <2>2, PlaceIs
<1>2. ASSUME IInv, IInv', Next PROVE MB!Next
  <2>1. Onward  BY <1>2, InvStep
  <2>2. Accounted /\ Accounted'  BY <1>2 DEF IInv
  <2> DEFINE At(W, S, G, d) == IF d \in W THEN {"pending"} ELSE IF d \in S THEN {"shown"}
                               ELSE IF d \in G THEN {"lost"} ELSE {}
  <2>3. \A d \in Deliveries : mail[d] = At(Waiting, shown, gone, d)  BY <2>2, PlaceIs
  <2>4. \A d \in Deliveries : mail'[d] = At(Waiting', shown', gone', d)
    <3>1. /\ DOMAIN Places' = {"pending", "shown", "lost"}
          /\ Places'["pending"] = Waiting' /\ Places'["shown"] = shown'
          /\ Places'["lost"] = gone'
      BY DEF Places
    <3>2. /\ Waiting' \cap (shown' \cup gone') = {} /\ shown' \cap gone' = {}
      BY <2>2 DEF Accounted
    <3>3. mail' = [d \in Deliveries |-> {p \in DOMAIN Places' : d \in Places'[p]}]
      OBVIOUS
    <3> HIDE DEF Places
    <3> QED  BY <3>1, <3>2, <3>3
  <2>5. mail' \in [Deliveries -> MB!States]
    BY <2>4 DEF MB!States
  <2>6. \A d \in Deliveries : mail'[d] = mail[d] \/ <<mail[d], mail'[d]>> \in MB!Moves
    BY <2>1, <2>2, <2>3, <2>4 DEF Onward, Accounted, MB!Moves
  <2> QED  BY <2>5, <2>6 DEF MB!Next
<1>3. UNCHANGED vars => UNCHANGED mail
  <2> SUFFICES ASSUME UNCHANGED vars PROVE mail' = mail  OBVIOUS
  <2>1. Waiting' = Waiting /\ shown' = shown /\ gone' = gone
    BY HandsStay, WaitingIs DEF vars, Waiting, Handed
  <2> QED  BY <2>1 DEF Places
<1>4. IInv /\ IInv' /\ [Next]_vars => [MB!Next]_mail  BY <1>2, <1>3
<1> QED  BY <1>1, <1>4, InvAlways, PTL DEF Spec, ImplementsMailbox, MB!Spec

-----------------------------------------------------------------------------
(* Presence, claims and the collector                                      *)

\* A heartbeat that is about to be written was stamped less than a death ago.
BeatsAlive == \A s \in Sessions : beat[s] = None \/ Live(beat[s])

\* A collector holds the file of no session that was alive ever since.
HeldIsIdle ==
  \A s \in Sessions : Held(s) =>
    ~ session[s].up \/ session[s].lapsed \/ session[s].swept

\* What a session was told counts only while it is listed.
Trusted ==
  \A s \in Sessions :
    (check[s].counts \/ \E q \in Sessions : <<s, q>> \in clear) => Live(presence[s])

\* s was told of no claim by d's session, or is about to be.
Unaware(s, d) ==
  \/ <<s, Claimant[d]>> \in clear
  \/ check[s].counts /\ d \notin check[s].claims

\* Of two sessions with a claim, one at least knows, or is about to.
OneIsAware ==
  \A c, d \in Claims :
    (Unexpired(c) /\ Unexpired(d) /\ Claimant[c] # Claimant[d]) =>
      ~ (Unaware(Claimant[c], d) /\ Unaware(Claimant[d], c))

\* What a collector saw expired stays so: nobody files it again.
ExpiredStay == \A g \in Collectors : \A c \in gc[g].expired : ~ Unexpired(c)

ClaimsInv ==
  /\ ClaimsTypeOK /\ BeatsAlive /\ ActiveIsListed /\ HeldIsIdle
  /\ Trusted /\ OneIsAware /\ ExpiredStay

\* Ages: what is alive and not at its limit stays alive.
LEMMA AgeFacts ==
  ASSUME NEW age \in Ages \cup {None}
  PROVE  /\ Older(age) \in Ages \cup {None}
         /\ Live(age) /\ age # Dead => Live(Older(age))
         /\ 0 \in Ages /\ Live(0) /\ ~ Live(None) /\ Older(None) = None
         /\ Live(age) => age \in 0 .. Dead
BY TimesAssumption, NoneAssumption DEF Ages, Older, Live

\* A claim's time runs down, and never up.
LEMMA LeftFacts ==
  ASSUME ClaimsTypeOK, NEW c \in Claims
  PROVE  /\ claim[c] # None => claim[c] \in 0 .. Ttl
         /\ Unexpired(c) => claim[c] - 1 \in 0 .. Ttl
         /\ claim[c] = 0 => ~ Unexpired(c) /\ claim[c] # None
BY TimesAssumption, NoneAssumption DEF ClaimsTypeOK, Unexpired

\* Forgetting what some sessions were told only takes away.
LEMMA RecheckFacts ==
  ASSUME ClaimsTypeOK, NEW those, Recheck(those)
  PROVE  /\ clear' \subseteq clear
         /\ check' \in [Sessions -> [at : {"idle", "listed"}, claims : SUBSET Claims,
                                     counts : BOOLEAN]]
         /\ \A s \in Sessions : check'[s].claims = check[s].claims
         /\ \A s \in Sessions : check'[s].counts => check[s].counts /\ s \notin those
         /\ \A s, q \in Sessions : <<s, q>> \in clear' => s \notin those
<1> DEFINE next(s) == IF s \in those THEN [check[s] EXCEPT !.counts = FALSE] ELSE check[s]
<1>1. ASSUME NEW s \in Sessions
      PROVE  /\ next(s) \in [at : {"idle", "listed"}, claims : SUBSET Claims, counts : BOOLEAN]
             /\ next(s).claims = check[s].claims
             /\ next(s).counts => check[s].counts /\ s \notin those
  <2>1. check[s] \in [at : {"idle", "listed"}, claims : SUBSET Claims, counts : BOOLEAN]
    BY DEF ClaimsTypeOK
  <2> QED
    BY <2>1
<1>2. check' = [s \in Sessions |-> next(s)]
  BY DEF Recheck
<1>3. /\ clear' \subseteq clear
      /\ \A s, q \in Sessions : <<s, q>> \in clear' => s \notin those
  BY DEF Recheck
<1> HIDE DEF next
<1> QED
  BY <1>1, <1>2, <1>3

\* Nobody is told less by a step that files no claim and ends no check.
LEMMA AwareStays ==
  ASSUME OneIsAware,
         \A c \in Claims : Unexpired(c)' => Unexpired(c),
         \A s \in Sessions : check'[s].claims = check[s].claims,
         \A s \in Sessions : check'[s].counts => check[s].counts,
         clear' \subseteq clear
  PROVE  OneIsAware'
<1>1. \A c, d \in Claims : Unaware(Claimant[c], d)' => Unaware(Claimant[c], d)
  BY ClaimantAssumption DEF Unaware
<1> QED
  BY <1>1 DEF OneIsAware

\* A session is trusted as long as its stamp is.
LEMMA TrustStays ==
  ASSUME Trusted, clear' \subseteq clear,
         \A s \in Sessions : check'[s].counts => check[s].counts,
         \A s \in Sessions : check'[s].counts \/ (\E q \in Sessions : <<s, q>> \in clear')
            => (Live(presence[s]) => Live(presence'[s]))
  PROVE  Trusted'
BY DEF Trusted

\* In the initial state nobody is there and nothing is claimed.
LEMMA ClaimsStart == ClaimsInit => ClaimsInv
<1> SUFFICES ASSUME ClaimsInit PROVE ClaimsInv
  OBVIOUS
<1>1. ClaimsTypeOK
  BY DEF ClaimsInit, ClaimsTypeOK, Newcomer, NoCheck, NoSweep
<1>2. BeatsAlive /\ ActiveIsListed /\ HeldIsIdle /\ Trusted
  BY DEF ClaimsInit, BeatsAlive, ActiveIsListed, HeldIsIdle, Trusted, Newcomer, NoCheck
<1>3. OneIsAware /\ ExpiredStay
  <2>1. \A c \in Claims : ~ Unexpired(c)
    BY DEF ClaimsInit, Unexpired
  <2>2. \A g \in Collectors : gc[g].expired = {}
    BY DEF ClaimsInit, NoSweep
  <2> QED
    BY <2>1, <2>2 DEF OneIsAware, ExpiredStay
<1> QED
  BY <1>1, <1>2, <1>3 DEF ClaimsInv

-----------------------------------------------------------------------------
(* One lemma per kind of step                                              *)

\* A registration stamps the file now; a collector that had it in hand is noted.
LEMMA RegisterKeeps ==
  ASSUME ClaimsInv, NEW s \in Sessions, Register(s)
  PROVE  ClaimsInv'
<1>0. ClaimsTypeOK
  BY DEF ClaimsInv
<1>1. /\ presence' = [presence EXCEPT ![s] = 0]
      /\ session' = [session EXCEPT ![s] = [up |-> TRUE, lapsed |-> FALSE, swept |-> Held(s)]]
      /\ UNCHANGED <<beat, claim, check, clear, gc>>
  BY DEF Register
<1>2. Held(s) \in BOOLEAN /\ \A q \in Sessions : Held(q)' = Held(q)
  BY <1>1 DEF Held
<1>3. 0 \in Ages /\ Live(0) /\ \A q \in Sessions : Live(presence[q]) => Live(presence'[q])
  BY <1>0, <1>1, AgeFacts DEF ClaimsTypeOK
<1>4. ClaimsTypeOK'
  BY <1>0, <1>1, <1>2, <1>3 DEF ClaimsTypeOK
<1>5. BeatsAlive' /\ ExpiredStay'
  BY <1>1 DEF ClaimsInv, BeatsAlive, ExpiredStay, Unexpired
<1>6. ActiveIsListed' /\ HeldIsIdle'
  BY <1>0, <1>1, <1>2, <1>3 DEF ClaimsInv, ClaimsTypeOK, ActiveIsListed, HeldIsIdle
<1>7. Trusted'
  BY <1>1, <1>3 DEF ClaimsInv, Trusted
<1>8. OneIsAware'
  BY <1>1 DEF ClaimsInv, OneIsAware, Unaware, Unexpired
<1> QED
  BY <1>4, <1>5, <1>6, <1>7, <1>8 DEF ClaimsInv

\* A heartbeat reads, and writes a stamp that is still good.
LEMMA BeatKeeps ==
  ASSUME ClaimsInv, NEW s \in Sessions, BeatRead(s) \/ BeatWrite(s)
  PROVE  ClaimsInv'
<1>0. ClaimsTypeOK
  BY DEF ClaimsInv
<1>1. UNCHANGED <<session, claim, check, clear, gc>>
  BY DEF BeatRead, BeatWrite
<1>2. /\ presence' \in [Sessions -> Ages \cup {None}] /\ beat' \in [Sessions -> Ages \cup {None}]
      /\ BeatsAlive'
      /\ \A q \in Sessions : Live(presence[q]) => Live(presence'[q])
  <2>1. CASE BeatRead(s)
    BY <1>0, <2>1, AgeFacts DEF BeatRead, ClaimsTypeOK, ClaimsInv, BeatsAlive
  <2>2. CASE BeatWrite(s)
    BY <1>0, <2>2, AgeFacts DEF BeatWrite, ClaimsTypeOK, ClaimsInv, BeatsAlive
  <2> QED
    BY <2>1, <2>2
<1>3. ClaimsTypeOK'
  BY <1>0, <1>1, <1>2 DEF ClaimsTypeOK
<1>4. ActiveIsListed' /\ Trusted'
  BY <1>1, <1>2 DEF ClaimsInv, ActiveIsListed, Trusted
<1>5. HeldIsIdle' /\ ExpiredStay'
  BY <1>1 DEF ClaimsInv, HeldIsIdle, Held, ExpiredStay, Unexpired
<1>6. OneIsAware'
  BY <1>1 DEF ClaimsInv, OneIsAware, Unaware, Unexpired
<1> QED
  BY <1>2, <1>3, <1>4, <1>5, <1>6 DEF ClaimsInv

\* A new claim is seen by every check that starts from now on; what its session was
\* told before does not count.
LEMMA ClaimKeeps ==
  ASSUME ClaimsInv, NEW c \in Claims, Claim(c)
  PROVE  ClaimsInv'
<1> DEFINE s == Claimant[c]
<1>0. ClaimsTypeOK /\ s \in Sessions
  BY ClaimantAssumption DEF ClaimsInv
<1>1. /\ UNCHANGED <<presence, session, beat, gc>>
      /\ claim' = [claim EXCEPT ![c] = Ttl]
      /\ c \notin Known /\ Recheck({s})
  BY DEF Claim
<1>2. ClaimsTypeOK'
  BY <1>0, <1>1, RecheckFacts, TimesAssumption DEF ClaimsTypeOK
<1>3. BeatsAlive' /\ ActiveIsListed' /\ HeldIsIdle'
  BY <1>1 DEF ClaimsInv, BeatsAlive, ActiveIsListed, HeldIsIdle, Held
<1>4. Trusted'
  BY <1>0, <1>1, RecheckFacts, TrustStays DEF ClaimsInv
<1>5. ExpiredStay'
  <2>1. ASSUME NEW g \in Collectors PROVE c \notin gc[g].expired
    <3>1. c \notin UNION {gc[h].expired : h \in Collectors}
      BY <1>1 DEF Known
    <3> QED
      BY <3>1
  <2> QED
    BY <1>0, <1>1, <2>1 DEF ClaimsInv, ClaimsTypeOK, ExpiredStay, Unexpired
<1>6. OneIsAware'
  <2> SUFFICES ASSUME NEW e \in Claims, NEW d \in Claims, Unexpired(e)', Unexpired(d)',
                      Claimant[e] # Claimant[d],
                      Unaware(Claimant[e], d)', Unaware(Claimant[d], e)'
               PROVE  FALSE
    BY DEF OneIsAware
  <2>1. Claimant[e] # s /\ Claimant[d] # s
    BY <1>0, <1>1, RecheckFacts, ClaimantAssumption DEF Unaware
  <2>2. Unexpired(e) /\ Unexpired(d)
    BY <1>0, <1>1, <2>1 DEF Unexpired, ClaimsTypeOK
  <2>3. Unaware(Claimant[e], d) /\ Unaware(Claimant[d], e)
    BY <1>0, <1>1, RecheckFacts, ClaimantAssumption DEF Unaware
  <2> QED
    BY <2>2, <2>3 DEF ClaimsInv, OneIsAware
<1> QED
  BY <1>2, <1>3, <1>4, <1>5, <1>6 DEF ClaimsInv

\* Whoever removes a claim, by releasing or collecting it, warns nobody less.
LEMMA UnclaimKeeps ==
  ASSUME ClaimsInv, (\E c \in Claims : Release(c)) \/ (\E g \in Collectors : GcClaims(g))
  PROVE  ClaimsInv'
<1>0. ClaimsTypeOK
  BY DEF ClaimsInv
<1>1. UNCHANGED <<presence, session, beat, check, clear>>
  BY DEF Release, GcClaims
<1>2. /\ claim' \in [Claims -> (0 .. Ttl) \cup {None}]
      /\ \A d \in Claims : claim'[d] \in {None, claim[d]}
  BY <1>0 DEF Release, GcClaims, ClaimsTypeOK
<1>3. \/ gc' = gc
      \/ \E g \in Collectors : gc' = [gc EXCEPT ![g] = NoSweep]
  BY DEF Release, GcClaims, Sweep
<1>4. /\ \A g \in Collectors : gc'[g] \in {gc[g], NoSweep}
      /\ DOMAIN gc' = Collectors /\ gc' = [g \in Collectors |-> gc'[g]]
  BY <1>0, <1>3 DEF ClaimsTypeOK
<1>5. ClaimsTypeOK'
  <2>1. gc' \in [Collectors -> [at : {"idle", "sweep"}, dead : SUBSET Sessions,
                                held : SUBSET Sessions, expired : SUBSET Claims]]
    BY <1>0, <1>4 DEF ClaimsTypeOK, NoSweep
  <2>2. \A g \in Collectors : \A s, q \in gc'[g].held : s = q
    BY <1>0, <1>4 DEF ClaimsTypeOK, NoSweep
  <2> QED
    BY <1>0, <1>1, <1>2, <2>1, <2>2 DEF ClaimsTypeOK
<1>6. BeatsAlive' /\ ActiveIsListed' /\ Trusted'
  BY <1>1 DEF ClaimsInv, BeatsAlive, ActiveIsListed, Trusted
<1>7. HeldIsIdle'
  <2>1. \A s \in Sessions : Held(s)' => Held(s)
    BY <1>4 DEF Held, NoSweep
  <2> QED
    BY <1>1, <2>1 DEF ClaimsInv, HeldIsIdle
<1>8. \A d \in Claims : Unexpired(d)' => Unexpired(d)
  BY <1>2 DEF Unexpired
<1>9. ExpiredStay'
  BY <1>4, <1>8 DEF ClaimsInv, ExpiredStay, NoSweep, ClaimsTypeOK
<1>10. OneIsAware'
  BY <1>1, <1>8, AwareStays DEF ClaimsInv
<1> QED
  BY <1>5, <1>6, <1>7, <1>9, <1>10 DEF ClaimsInv

\* A check that starts sees every claim that counts; one that ends warns of those it
\* saw, if their sessions are listed, as they are when they were told anything.
LEMMA CheckKeeps ==
  ASSUME ClaimsInv, NEW s \in Sessions, CheckList(s) \/ CheckCompare(s)
  PROVE  ClaimsInv'
<1>0. ClaimsTypeOK
  BY DEF ClaimsInv
<1>1. UNCHANGED <<presence, session, beat, claim, gc>>
  BY DEF CheckList, CheckCompare
<1>2. BeatsAlive' /\ ActiveIsListed' /\ HeldIsIdle' /\ ExpiredStay'
  BY <1>1 DEF ClaimsInv, BeatsAlive, ActiveIsListed, HeldIsIdle, Held, ExpiredStay, Unexpired
<1>3. \A d \in Claims : Unexpired(d)' = Unexpired(d)
  BY <1>1 DEF Unexpired
<1>4. CASE CheckList(s)
  <2> DEFINE new == [at |-> "listed", counts |-> ClaimsOf(s) # {} /\ Live(presence[s]),
                     claims |-> {c \in Claims : Unexpired(c) /\ Claimant[c] # s}]
  <2>0. new.counts => Live(presence[s])
    OBVIOUS
  <2>1. check' = [check EXCEPT ![s] = new] /\ clear' = clear
    BY <1>4 DEF CheckList
  <2>2. /\ check'[s] = new
        /\ \A q \in Sessions : q # s => check'[q] = check[q]
    BY <1>0, <2>1 DEF ClaimsTypeOK
  <2>3. ClaimsTypeOK'
    <3>1. new \in [at : {"idle", "listed"}, claims : SUBSET Claims, counts : BOOLEAN]
      OBVIOUS
    <3> HIDE DEF new
    <3> QED
      BY <1>0, <1>1, <2>1, <3>1 DEF ClaimsTypeOK
  <2>4. Trusted'
    BY <1>1, <2>0, <2>1, <2>2 DEF ClaimsInv, Trusted
  <2>5. OneIsAware'
    <3> SUFFICES ASSUME NEW c \in Claims, NEW d \in Claims, Unexpired(c), Unexpired(d),
                        Claimant[c] # Claimant[d],
                        Unaware(Claimant[c], d)', Unaware(Claimant[d], c)'
                 PROVE  FALSE
      BY <1>3 DEF OneIsAware
    <3>1. ASSUME NEW e \in Claims, NEW f \in Claims, Unexpired(f), Claimant[e] # Claimant[f],
                 Unaware(Claimant[e], f)'
          PROVE  Unaware(Claimant[e], f)
      <4>1. CASE Claimant[e] = s
        <5>1. f \in new.claims
          BY <3>1, <4>1
        <5> QED
          BY <2>1, <2>2, <3>1, <4>1, <5>1 DEF Unaware
      <4>2. CASE Claimant[e] # s
        BY <2>1, <2>2, <3>1, <4>2, ClaimantAssumption DEF Unaware
      <4> QED
        BY <4>1, <4>2
    <3>2. Unaware(Claimant[c], d) /\ Unaware(Claimant[d], c)
      BY <3>1
    <3> QED
      BY <3>2 DEF ClaimsInv, OneIsAware
  <2> QED
    BY <1>2, <2>3, <2>4, <2>5 DEF ClaimsInv
<1>5. CASE CheckCompare(s)
  <2> DEFINE found == {c \in check[s].claims \cap Filed : Live(presence[Claimant[c]])}
             told == {<<s, q>> : q \in {Claimant[c] : c \in found}}
  <2>1. /\ check' = [check EXCEPT ![s] = NoCheck]
        /\ clear' = IF check[s].counts
                    THEN (clear \ told) \cup (({s} \X (Sessions \ {s})) \ told)
                    ELSE clear \ told
    BY <1>5 DEF CheckCompare
  <2>2. /\ check'[s] = NoCheck
        /\ \A q \in Sessions : q # s => check'[q] = check[q]
    BY <1>0, <2>1 DEF ClaimsTypeOK
  <2>3. ClaimsTypeOK'
    <3>1. clear' \subseteq Sessions \X Sessions
      BY <1>0, <2>1 DEF ClaimsTypeOK
    <3> HIDE DEF told
    <3> QED
      BY <1>0, <1>1, <2>1, <3>1 DEF ClaimsTypeOK, NoCheck
  <2>4. \A r, q \in Sessions : <<r, q>> \in clear' =>
           <<r, q>> \notin told /\ (<<r, q>> \in clear \/ (r = s /\ check[s].counts))
    BY <2>1
  <2>5. Trusted'
    <3> SUFFICES ASSUME NEW r \in Sessions,
                        check'[r].counts \/ \E q \in Sessions : <<r, q>> \in clear'
                 PROVE  Live(presence[r])
      BY <1>1 DEF Trusted
    <3>1. check'[r].counts => check[r].counts
      BY <2>2 DEF NoCheck
    <3>2. (\E q \in Sessions : <<r, q>> \in clear') =>
             check[r].counts \/ \E q \in Sessions : <<r, q>> \in clear
      BY <2>4
    <3> QED
      BY <3>1, <3>2 DEF ClaimsInv, Trusted
  <2>6. OneIsAware'
    <3> SUFFICES ASSUME NEW c \in Claims, NEW d \in Claims, Unexpired(c), Unexpired(d),
                        Claimant[c] # Claimant[d],
                        Unaware(Claimant[c], d)', Unaware(Claimant[d], c)'
                 PROVE  FALSE
      BY <1>3 DEF OneIsAware
    <3>0. Claimant[c] \in Sessions /\ Claimant[d] \in Sessions
      BY ClaimantAssumption
    <3>1. ASSUME NEW e \in Claims, NEW f \in Claims, Unexpired(f), Live(presence[Claimant[f]]),
                 Unaware(Claimant[e], f)'
          PROVE  Unaware(Claimant[e], f)
      <4>0. Claimant[e] \in Sessions /\ Claimant[f] \in Sessions
        BY ClaimantAssumption
      <4>1. CASE Claimant[e] = s
        <5>1. <<s, Claimant[f]>> \in clear'
          BY <2>2, <3>1, <4>1 DEF Unaware, NoCheck
        <5>2. <<s, Claimant[f]>> \notin told /\ (<<s, Claimant[f]>> \in clear \/ check[s].counts)
          BY <2>4, <4>0, <5>1
        <5>3. f \in Filed
          BY <3>1 DEF Filed, Unexpired
        <5>4. f \notin check[s].claims
          BY <3>1, <5>2, <5>3
        <5> QED
          BY <4>1, <5>2, <5>4 DEF Unaware
      <4>2. CASE Claimant[e] # s
        BY <2>2, <2>4, <3>1, <4>0, <4>2 DEF Unaware
      <4> QED
        BY <4>1, <4>2
    <3>2. Live(presence[Claimant[c]]) /\ Live(presence[Claimant[d]])
      BY <1>1, <2>5, <3>0 DEF Trusted, Unaware
    <3>3. Unaware(Claimant[c], d) /\ Unaware(Claimant[d], c)
      BY <3>1, <3>2
    <3> QED
      BY <3>3 DEF ClaimsInv, OneIsAware
  <2> QED
    BY <1>2, <2>3, <2>5, <2>6 DEF ClaimsInv
<1> QED
  BY <1>4, <1>5

\* A collector starts with what is dead or expired by now, and takes into its hands
\* only what is dead.
LEMMA GcLooks ==
  ASSUME ClaimsInv, NEW g \in Collectors,
         GcStart(g) \/ \E s \in Sessions : GcRead(g, s)
  PROVE  ClaimsInv'
<1>0. ClaimsTypeOK
  BY DEF ClaimsInv
<1>1. UNCHANGED <<presence, session, beat, claim, check, clear>>
  BY DEF GcStart, GcRead
<1>2. PICK new \in [at : {"idle", "sweep"}, dead : SUBSET Sessions,
                    held : SUBSET Sessions, expired : SUBSET Claims] :
        /\ gc' = [gc EXCEPT ![g] = new]
        /\ \A s, q \in new.held : s = q
        /\ \A s \in new.held : ~ Live(presence[s])
        /\ \A c \in new.expired : ~ Unexpired(c)
  <2>1. CASE GcStart(g)
    <3> DEFINE new == [at |-> "sweep", held |-> {},
                       dead |-> {s \in Sessions : presence[s] # None /\ ~ Live(presence[s])},
                       expired |-> {c \in Claims : claim[c] = 0}]
    <3>1. gc' = [gc EXCEPT ![g] = new]
      BY <2>1 DEF GcStart, Sweep
    <3>2. /\ new \in [at : {"idle", "sweep"}, dead : SUBSET Sessions,
                      held : SUBSET Sessions, expired : SUBSET Claims]
          /\ new.held = {}
      OBVIOUS
    <3>3. \A c \in new.expired : ~ Unexpired(c)
      BY <1>0, LeftFacts
    <3> HIDE DEF new
    <3> QED
      BY <3>1, <3>2, <3>3
  <2>2. ASSUME NEW s \in Sessions, GcRead(g, s)
        PROVE  \E new \in [at : {"idle", "sweep"}, dead : SUBSET Sessions,
                           held : SUBSET Sessions, expired : SUBSET Claims] :
                 /\ gc' = [gc EXCEPT ![g] = new]
                 /\ \A r, q \in new.held : r = q
                 /\ \A r \in new.held : ~ Live(presence[r])
                 /\ \A c \in new.expired : ~ Unexpired(c)
    <3> DEFINE new == [gc[g] EXCEPT !.dead = @ \ {s},
                         !.held = IF presence[s] # None /\ ~ Live(presence[s]) THEN {s} ELSE {}]
    <3>1. gc' = [gc EXCEPT ![g] = new]
      BY <2>2 DEF GcRead, Sweep
    <3>0. gc[g] \in [at : {"idle", "sweep"}, dead : SUBSET Sessions,
                     held : SUBSET Sessions, expired : SUBSET Claims]
      BY <1>0 DEF ClaimsTypeOK
    <3>2. new \in [at : {"idle", "sweep"}, dead : SUBSET Sessions,
                   held : SUBSET Sessions, expired : SUBSET Claims]
      BY <3>0
    <3>3. new.held \in {{s}, {}} /\ (new.held # {} => ~ Live(presence[s]))
      BY <3>0
    <3>4. new.expired = gc[g].expired
      BY <3>0
    <3>5. \A c \in new.expired : ~ Unexpired(c)
      BY <3>4 DEF ClaimsInv, ExpiredStay
    <3> HIDE DEF new
    <3> QED
      BY <3>1, <3>2, <3>3, <3>5
  <2> QED
    BY <2>1, <2>2
<1>3. gc'[g] = new /\ \A h \in Collectors : h # g => gc'[h] = gc[h]
  BY <1>0, <1>2 DEF ClaimsTypeOK
<1>4. ClaimsTypeOK'
  BY <1>0, <1>1, <1>2, <1>3 DEF ClaimsTypeOK
<1>5. BeatsAlive' /\ ActiveIsListed' /\ Trusted' /\ OneIsAware'
  BY <1>1 DEF ClaimsInv, BeatsAlive, ActiveIsListed, Trusted, OneIsAware, Unaware, Unexpired
<1>6. HeldIsIdle'
  <2>1. \A s \in Sessions : Held(s)' => Held(s) \/ ~ Live(presence[s])
    BY <1>2, <1>3 DEF Held
  <2> QED
    BY <1>1, <2>1 DEF ClaimsInv, HeldIsIdle, ActiveIsListed
<1>7. ExpiredStay'
  BY <1>1, <1>2, <1>3 DEF ClaimsInv, ExpiredStay, Unexpired
<1> QED
  BY <1>4, <1>5, <1>6, <1>7 DEF ClaimsInv

\* It removes the file of a session that is not active; what that session was told
\* does not count any more.
LEMMA GcRemoveKeeps ==
  ASSUME ClaimsInv, NEW g \in Collectors, NEW s \in Sessions, GcRemove(g, s)
  PROVE  ClaimsInv'
<1>0. ClaimsTypeOK /\ Held(s)
  BY DEF ClaimsInv, GcRemove, Held
<1>1. /\ presence' = [presence EXCEPT ![s] = None]
      /\ gc' = [gc EXCEPT ![g] = [gc[g] EXCEPT !.held = {}]]
      /\ Recheck({s})
      /\ UNCHANGED <<session, beat, claim>>
  BY DEF GcRemove, Sweep
<1>2. \A q \in Sessions : q # s => presence'[q] = presence[q]
  BY <1>0, <1>1 DEF ClaimsTypeOK
<1>3. /\ \A h \in Collectors : gc'[h].held \subseteq gc[h].held /\ gc'[h].expired = gc[h].expired
      /\ gc' \in [Collectors -> [at : {"idle", "sweep"}, dead : SUBSET Sessions,
                                 held : SUBSET Sessions, expired : SUBSET Claims]]
  <2> DEFINE new == [gc[g] EXCEPT !.held = {}]
  <2>1. gc[g] \in [at : {"idle", "sweep"}, dead : SUBSET Sessions,
                   held : SUBSET Sessions, expired : SUBSET Claims]
    BY <1>0 DEF ClaimsTypeOK
  <2>2. /\ new \in [at : {"idle", "sweep"}, dead : SUBSET Sessions,
                    held : SUBSET Sessions, expired : SUBSET Claims]
        /\ new.held = {} /\ new.expired = gc[g].expired
    BY <2>1
  <2>3. gc' = [gc EXCEPT ![g] = new]
    BY <1>1
  <2> HIDE DEF new
  <2>4. gc'[g] = new /\ \A h \in Collectors : h # g => gc'[h] = gc[h]
    BY <1>0, <2>3 DEF ClaimsTypeOK
  <2>5. gc' \in [Collectors -> [at : {"idle", "sweep"}, dead : SUBSET Sessions,
                               held : SUBSET Sessions, expired : SUBSET Claims]]
    BY <1>0, <2>2, <2>3 DEF ClaimsTypeOK
  <2> QED
    BY <2>2, <2>4, <2>5
<1>4. ClaimsTypeOK'
  <2>1. presence' \in [Sessions -> Ages \cup {None}]
    BY <1>0, <1>1 DEF ClaimsTypeOK
  <2>2. clear' \subseteq Sessions \X Sessions
    BY <1>0, <1>1, RecheckFacts DEF ClaimsTypeOK
  <2>3. \A h \in Collectors : \A r, q \in gc'[h].held : r = q
    BY <1>0, <1>3 DEF ClaimsTypeOK
  <2>4. check' \in [Sessions -> [at : {"idle", "listed"}, claims : SUBSET Claims,
                                counts : BOOLEAN]]
    BY <1>0, <1>1, RecheckFacts
  <2> QED
    BY <1>0, <1>1, <1>3, <2>1, <2>2, <2>3, <2>4 DEF ClaimsTypeOK
<1>5. BeatsAlive' /\ ExpiredStay'
  BY <1>1, <1>3 DEF ClaimsInv, BeatsAlive, ExpiredStay, Unexpired
<1>6. ActiveIsListed' /\ HeldIsIdle'
  <2>1. \A q \in Sessions : Held(q)' => Held(q)
    BY <1>3 DEF Held
  <2> QED
    BY <1>0, <1>1, <1>2, <2>1 DEF ClaimsInv, ActiveIsListed, HeldIsIdle
<1>7. Trusted'
  BY <1>0, <1>1, <1>2, RecheckFacts, TrustStays DEF ClaimsInv
<1>8. OneIsAware'
  BY <1>0, <1>1, RecheckFacts, AwareStays DEF ClaimsInv, Unexpired
<1> QED
  BY <1>4, <1>5, <1>6, <1>7, <1>8 DEF ClaimsInv

\* Time: who dies is not active any more and is trusted no longer, a heartbeat that
\* took too long is dropped, and claims run down.
LEMMA TickKeeps ==
  ASSUME ClaimsInv, Tick
  PROVE  ClaimsInv'
<1> DEFINE dying == {s \in Sessions : presence[s] = Dead}
<1>0. ClaimsTypeOK
  BY DEF ClaimsInv
<1>1. /\ presence' = [s \in Sessions |-> Older(presence[s])]
      /\ beat' = [s \in Sessions |-> IF beat[s] = Dead THEN None ELSE Older(beat[s])]
      /\ session' = [s \in Sessions |->
           IF s \in dying THEN [session[s] EXCEPT !.lapsed = TRUE, !.swept = FALSE]
           ELSE session[s]]
      /\ claim' = [c \in Claims |-> IF Unexpired(c) THEN claim[c] - 1 ELSE claim[c]]
      /\ Recheck(dying)
      /\ gc' = gc
  BY DEF Tick
<1>2. /\ \A s \in Sessions : s \notin dying /\ Live(presence[s]) => Live(presence'[s])
      /\ presence' \in [Sessions -> Ages \cup {None}] /\ beat' \in [Sessions -> Ages \cup {None}]
      /\ BeatsAlive'
  <2>1. \A s \in Sessions : beat[s] \in Ages \cup {None} /\ presence[s] \in Ages \cup {None}
    BY <1>0 DEF ClaimsTypeOK
  <2>2. \A s \in Sessions : s \notin dying /\ Live(presence[s]) => Live(presence'[s])
    BY <1>1, <2>1, AgeFacts
  <2>3. ASSUME NEW s \in Sessions, beat'[s] # None PROVE Live(beat'[s])
    <3>1. beat[s] # Dead /\ beat'[s] = Older(beat[s])
      BY <1>1, <2>3
    <3>2. beat[s] # None
      BY <2>3, <3>1, AgeFacts
    <3> QED
      BY <2>1, <3>1, <3>2, AgeFacts DEF ClaimsInv, BeatsAlive
  <2>4. BeatsAlive'
    BY <2>3 DEF BeatsAlive
  <2> QED
    BY <1>1, <2>1, <2>2, <2>4, <2>3, AgeFacts
<1>3. /\ claim' \in [Claims -> (0 .. Ttl) \cup {None}]
      /\ \A c \in Claims : Unexpired(c)' => Unexpired(c)
  <2>1. \A c \in Claims : claim[c] \in (0 .. Ttl) \cup {None}
    BY <1>0 DEF ClaimsTypeOK
  <2>2. \A c \in Claims : Unexpired(c) => claim[c] - 1 \in 0 .. Ttl
    BY <1>0, LeftFacts
  <2> QED
    BY <1>1, <2>1, <2>2 DEF Unexpired
<1>4. session' \in [Sessions -> [up : BOOLEAN, lapsed : BOOLEAN, swept : BOOLEAN]]
  <2> DEFINE later(s) == IF s \in dying THEN [session[s] EXCEPT !.lapsed = TRUE, !.swept = FALSE]
                         ELSE session[s]
  <2>1. ASSUME NEW s \in Sessions
        PROVE  later(s) \in [up : BOOLEAN, lapsed : BOOLEAN, swept : BOOLEAN]
    <3>1. session[s] \in [up : BOOLEAN, lapsed : BOOLEAN, swept : BOOLEAN]
      BY <1>0 DEF ClaimsTypeOK
    <3> QED
      BY <3>1
  <2>2. session' = [s \in Sessions |-> later(s)]
    BY <1>1
  <2> HIDE DEF later
  <2> QED
    BY <2>1, <2>2
<1>5. ClaimsTypeOK'
  <2>1. clear' \subseteq Sessions \X Sessions
    BY <1>0, <1>1, RecheckFacts DEF ClaimsTypeOK
  <2> QED
    BY <1>0, <1>1, <1>2, <1>3, <1>4, <2>1, RecheckFacts DEF ClaimsTypeOK
<1>6. ActiveIsListed' /\ HeldIsIdle'
  <2>1. ASSUME NEW s \in Sessions
        PROVE  IF s \in dying THEN session'[s].lapsed ELSE session'[s] = session[s]
    <3>1. session[s] \in [up : BOOLEAN, lapsed : BOOLEAN, swept : BOOLEAN]
      BY <1>0 DEF ClaimsTypeOK
    <3> QED
      BY <1>1, <3>1
  <2>2. \A s \in Sessions : Held(s)' = Held(s)
    BY <1>1 DEF Held
  <2> QED
    BY <1>2, <2>1, <2>2 DEF ClaimsInv, ActiveIsListed, HeldIsIdle
<1>7. Trusted'
  BY <1>0, <1>1, <1>2, RecheckFacts, TrustStays DEF ClaimsInv
<1>8. OneIsAware'
  BY <1>0, <1>1, <1>3, RecheckFacts, AwareStays DEF ClaimsInv
<1>9. ExpiredStay'
  BY <1>0, <1>1, <1>3 DEF ClaimsInv, ExpiredStay, ClaimsTypeOK
<1> QED
  BY <1>2, <1>5, <1>6, <1>7, <1>8, <1>9 DEF ClaimsInv

\* Every step keeps the invariant.
LEMMA ClaimsStep == ClaimsInv /\ [ClaimsNext]_claimsVars => ClaimsInv'
<1>1. ASSUME ClaimsInv, UNCHANGED claimsVars PROVE ClaimsInv'
  BY <1>1 DEF claimsVars, ClaimsInv, ClaimsTypeOK, BeatsAlive, ActiveIsListed, HeldIsIdle,
     Held, Trusted, OneIsAware, Unaware, Unexpired, ExpiredStay
<1>2. ASSUME ClaimsInv, ClaimsNext PROVE ClaimsInv'
  BY <1>2, RegisterKeeps, BeatKeeps, CheckKeeps, ClaimKeeps, UnclaimKeeps, GcLooks,
     GcRemoveKeeps, TickKeeps DEF ClaimsNext
<1> QED
  BY <1>1, <1>2

-----------------------------------------------------------------------------
(* What is promised of presence and claims                                 *)

\* In every reachable state the invariant holds.
LEMMA ClaimsAlways == ClaimsSpec => []ClaimsInv
BY ClaimsStart, ClaimsStep, PTL DEF ClaimsSpec

\* Presence, claims, checks and collectors keep their types, and a collector has one
\* presence file in hand at a time.
THEOREM ClaimsTyped == ClaimsSpec => []ClaimsTypeOK
<1>1. ClaimsInv => ClaimsTypeOK
  BY DEF ClaimsInv
<1> QED
  BY <1>1, ClaimsAlways, PTL

\* For any sessions and collectors: a session whose stamps kept it alive since it
\* registered is listed, unless a collector had read its old file by then.
THEOREM ActiveListed == ClaimsSpec => []ActiveIsListed
<1>1. ClaimsInv => ActiveIsListed
  BY DEF ClaimsInv
<1> QED
  BY <1>1, ClaimsAlways, PTL

\* For any sessions and claims: of two sessions that claimed the path and checked
\* since, one at least was warned of the other.
THEOREM OneWarned == ClaimsSpec => []OneOfTwoIsWarned
<1>1. ClaimsInv => OneOfTwoIsWarned
  BY DEF ClaimsInv, OneIsAware, Unaware, OneOfTwoIsWarned
<1> QED
  BY <1>1, ClaimsAlways, PTL

\* No collector, whenever it looked, removes a claim that has not expired.
THEOREM ClaimsLast == ClaimsSpec => ClaimsLastTheirTime
<1>1. ASSUME ClaimsInv, [ClaimsNext]_claimsVars
      PROVE  [\A c \in Claims : Unexpired(c) => c \in Filed' \/ Release(c)]_claimsVars
  <2> SUFFICES ASSUME ClaimsNext, NEW c \in Claims, Unexpired(c), c \notin Filed'
               PROVE  Release(c)
    BY <1>1
  <2>0. ClaimsTypeOK /\ claim[c] # None /\ claim'[c] = None
    BY <1>1 DEF ClaimsInv, Filed, Unexpired
  <2>1. CASE claim' = claim
    BY <2>0, <2>1
  <2>2. ASSUME NEW d \in Claims, Claim(d) PROVE FALSE
    BY <2>0, <2>2, TimesAssumption, NoneAssumption DEF Claim, ClaimsTypeOK
  <2>3. ASSUME NEW d \in Claims, Release(d) PROVE Release(c)
    BY <2>0, <2>3 DEF Release, ClaimsTypeOK
  <2>4. ASSUME NEW g \in Collectors, GcClaims(g) PROVE FALSE
    BY <1>1, <2>0, <2>4 DEF GcClaims, ClaimsInv, ExpiredStay
  <2>5. ASSUME Tick PROVE FALSE
    <3>1. claim'[c] \in 0 .. Ttl
      BY <1>1, <2>0, <2>5, LeftFacts DEF Tick
    <3> QED
      BY <2>0, <3>1, NoneAssumption
  <2> QED
    BY <2>1, <2>2, <2>3, <2>4, <2>5 DEF ClaimsNext, Register, BeatRead, BeatWrite, CheckList,
       CheckCompare, GcStart, GcRead, GcRemove
<1> QED
  BY <1>1, ClaimsAlways, PTL DEF ClaimsSpec, ClaimsLastTheirTime
=============================================================================
