----------------------------- MODULE MeshClaims -----------------------------
(***************************************************************************)
(* Presence, advisory claims and the collector of the session mesh         *)
(* (mesh/src/presence.ts, claims.ts, gc.ts).  Every session has one        *)
(* presence file, stamped when it starts and by the hook that follows each *)
(* tool call; a claim is a file of its own, and all claims here are on one *)
(* path of one repository.  Before an edit the guard hook warns of the     *)
(* peers' claims.  No lock: each step below is one read or one write.      *)
(***************************************************************************)
EXTENDS Mesh, Integers, FiniteSets

CONSTANTS
  Claims,     \* bound: the claims that exist, or are remembered, at one time
  Claimant,   \* by whom
  None,       \* no file
  Dead,       \* a presence older than this is dead (DEAD_AFTER_MS, in ticks)
  Ttl         \* how long a claim lasts (CLAIM_TTL_MS)

ASSUME TimesAssumption == Dead \in Nat /\ Ttl \in Nat
ASSUME NoneAssumption == None \notin Int
ASSUME ClaimantAssumption == Claimant \in [Claims -> Sessions]

VARIABLES
  presence,   \* the age of the stamp in each presence file, None without one
  session,    \* whether it has registered, and the history below
  beat,       \* a heartbeat between its stamp and its write: how old the stamp is
  claim,      \* how long each claim file lasts still, None without one
  check,      \* a guard hook's check under way
  clear,      \* history: who was told of no claim by whom, having a claim itself
  gc          \* the collectors

claimsVars == <<presence, session, beat, claim, check, clear, gc>>

Ages == 0 .. Dead + 1
Older(age) == IF age = None \/ age = Dead + 1 THEN age ELSE age + 1
Live(age) == age # None /\ age <= Dead

\* lapsed: dead by its stamp at some time since it registered; swept: a collector
\* was about to remove its file when it registered.
Newcomer == [up |-> FALSE, lapsed |-> FALSE, swept |-> FALSE]
NoCheck == [at |-> "idle", claims |-> {}, counts |-> FALSE]
NoSweep == [at |-> "idle", dead |-> {}, held |-> {}, expired |-> {}]

ClaimsTypeOK ==
  /\ presence \in [Sessions -> Ages \cup {None}]
  /\ beat \in [Sessions -> Ages \cup {None}]
  /\ session \in [Sessions -> [up : BOOLEAN, lapsed : BOOLEAN, swept : BOOLEAN]]
  /\ claim \in [Claims -> (0 .. Ttl) \cup {None}]
  /\ check \in [Sessions -> [at : {"idle", "listed"}, claims : SUBSET Claims,
                             counts : BOOLEAN]]
  /\ clear \subseteq Sessions \X Sessions
  /\ gc \in [Collectors -> [at : {"idle", "sweep"}, dead : SUBSET Sessions,
                            held : SUBSET Sessions, expired : SUBSET Claims]]
  /\ \A g \in Collectors : \A s, q \in gc[g].held : s = q

ClaimsInit ==
  /\ presence = [s \in Sessions |-> None]
  /\ beat = [s \in Sessions |-> None]
  /\ session = [s \in Sessions |-> Newcomer]
  /\ claim = [c \in Claims |-> None]
  /\ check = [s \in Sessions |-> NoCheck]
  /\ clear = {}
  /\ gc = [g \in Collectors |-> NoSweep]

Held(s) == \E g \in Collectors : s \in gc[g].held
Filed == {c \in Claims : claim[c] # None}
Unexpired(c) == claim[c] # None /\ claim[c] > 0
\* The claims by whose identity some check or collector knows them, too.
Known == Filed \cup (UNION {check[s].claims : s \in Sessions})
               \cup (UNION {gc[g].expired : g \in Collectors})
\* What a session has been told does not count once it was dead, or off the list,
\* or claimed again.
Recheck(those) ==
  /\ clear' = clear \ (those \X Sessions)
  /\ check' = [s \in Sessions |->
       IF s \in those THEN [check[s] EXCEPT !.counts = FALSE] ELSE check[s]]
ClaimsOf(s) == {c \in Filed : Claimant[c] = s}

-----------------------------------------------------------------------------
(* Presence                                                                *)

\* A session starts, resumes or is compacted.
Register(s) ==
  /\ presence' = [presence EXCEPT ![s] = 0]
  /\ session' = [session EXCEPT ![s] = [up |-> TRUE, lapsed |-> FALSE, swept |-> Held(s)]]
  /\ UNCHANGED <<beat, claim, check, clear, gc>>

\* A heartbeat reads the file and takes the time; without a file it does nothing.
BeatRead(s) ==
  /\ session[s].up /\ beat[s] = None /\ presence[s] # None
  /\ beat' = [beat EXCEPT ![s] = 0]
  /\ UNCHANGED <<presence, session, claim, check, clear, gc>>

\* Mutant: the claims are refreshed where they are.
BeatRefreshes(s) ==
  /\ beat[s] # None
  /\ presence' = [presence EXCEPT ![s] = beat[s]]
  /\ beat' = [beat EXCEPT ![s] = None]
  /\ claim' = [c \in Claims |-> IF c \in ClaimsOf(s) THEN Ttl ELSE claim[c]]
  /\ UNCHANGED <<session, check, clear, gc>>
\* It writes the file, also one that was removed in between.
BeatWrite(s) ==
  /\ beat[s] # None
  /\ presence' = [presence EXCEPT ![s] = beat[s]]
  /\ beat' = [beat EXCEPT ![s] = None]
  /\ UNCHANGED <<session, claim, check, clear, gc>>

-----------------------------------------------------------------------------
(* Claims                                                                  *)

\* A session with a presence file claims the path, under a new identity; nothing is
\* compared.
Claim(c) ==
  /\ session[Claimant[c]].up /\ presence[Claimant[c]] # None
  /\ c \notin Known
  /\ claim' = [claim EXCEPT ![c] = Ttl]
  /\ Recheck({Claimant[c]})
  /\ UNCHANGED <<presence, session, beat, gc>>

\* By its identity, by whoever knows it.
Release(c) ==
  /\ c \in Filed
  /\ claim' = [claim EXCEPT ![c] = None]
  /\ UNCHANGED <<presence, session, beat, check, clear, gc>>

\* Mutant: only claims that are fresh count.
CheckFresh(s) ==
  /\ session[s].up /\ check[s].at = "idle"
  /\ check' = [check EXCEPT ![s] =
       [at |-> "listed", counts |-> ClaimsOf(s) # {} /\ Live(presence[s]),
        claims |-> {c \in Filed : claim[c] = Ttl /\ Claimant[c] # s}]]
  /\ UNCHANGED <<presence, session, beat, claim, clear, gc>>
\* checkConflicts takes the time and lists the claims; a file does not change, so
\* that which of them count is decided here.
CheckList(s) ==
  /\ session[s].up /\ check[s].at = "idle"
  /\ check' = [check EXCEPT ![s] =
       [at |-> "listed", counts |-> ClaimsOf(s) # {} /\ Live(presence[s]),
        claims |-> {c \in Claims : Unexpired(c) /\ Claimant[c] # s}]]
  /\ UNCHANGED <<presence, session, beat, claim, clear, gc>>

\* listPeers, and the listed files that are still there; one that goes in between
\* is as good as gone before.
CheckCompare(s) ==
  /\ check[s].at = "listed"
  /\ LET found == {c \in check[s].claims \cap Filed : Live(presence[Claimant[c]])}
         told == {<<s, q>> : q \in {Claimant[c] : c \in found}}
     IN clear' = IF check[s].counts
                 THEN (clear \ told) \cup (({s} \X (Sessions \ {s})) \ told)
                 ELSE clear \ told
  /\ check' = [check EXCEPT ![s] = NoCheck]
  /\ UNCHANGED <<presence, session, beat, claim, gc>>

-----------------------------------------------------------------------------
(* The collector                                                           *)

Sweep(g, state) == gc' = [gc EXCEPT ![g] = state]

\* It takes the time once; what it removes was dead, or expired, by then.
GcStart(g) ==
  /\ gc[g].at = "idle"
  /\ Sweep(g, [at |-> "sweep", held |-> {},
               dead |-> {s \in Sessions : presence[s] # None /\ ~ Live(presence[s])},
               expired |-> {c \in Claims : claim[c] = 0}])
  /\ UNCHANGED <<presence, session, beat, claim, check, clear>>

\* Mutant: the files are read first, and removed afterwards.
GcReadAll(g, s) ==
  /\ gc[g].at = "sweep" /\ s \in gc[g].dead
  /\ Sweep(g, [gc[g] EXCEPT !.dead = @ \ {s},
                            !.held = IF presence[s] # None /\ ~ Live(presence[s])
                                     THEN @ \cup {s} ELSE @])
  /\ UNCHANGED <<presence, session, beat, claim, check, clear>>
\* Mutant: whatever it finds there is removed.
GcReadNot(g, s) ==
  /\ gc[g].at = "sweep" /\ gc[g].held = {} /\ s \in gc[g].dead
  /\ Sweep(g, [gc[g] EXCEPT !.dead = @ \ {s}, !.held = {s}])
  /\ UNCHANGED <<presence, session, beat, claim, check, clear>>
GcRead(g, s) ==
  /\ gc[g].at = "sweep" /\ gc[g].held = {} /\ s \in gc[g].dead
  /\ Sweep(g, [gc[g] EXCEPT !.dead = @ \ {s},
                            !.held = IF presence[s] # None /\ ~ Live(presence[s])
                                     THEN {s} ELSE {}])
  /\ UNCHANGED <<presence, session, beat, claim, check, clear>>

GcRemove(g, s) ==
  /\ s \in gc[g].held
  /\ presence' = [presence EXCEPT ![s] = None]
  /\ Sweep(g, [gc[g] EXCEPT !.held = {}])
  /\ Recheck({s})
  /\ UNCHANGED <<session, beat, claim>>

GcClaims(g) ==
  /\ gc[g].at = "sweep" /\ gc[g].dead = {} /\ gc[g].held = {}
  /\ claim' = [c \in Claims |-> IF c \in gc[g].expired THEN None ELSE claim[c]]
  /\ Sweep(g, NoSweep)
  /\ UNCHANGED <<presence, session, beat, check, clear>>

-----------------------------------------------------------------------------
(* Time; a hook that takes too long is killed by its agent                 *)

Tick ==
  LET dying == {s \in Sessions : presence[s] = Dead} IN
  /\ presence' = [s \in Sessions |-> Older(presence[s])]
  /\ beat' = [s \in Sessions |-> IF beat[s] = Dead THEN None ELSE Older(beat[s])]
  /\ session' = [s \in Sessions |->
       IF s \in dying THEN [session[s] EXCEPT !.lapsed = TRUE, !.swept = FALSE]
       ELSE session[s]]
  /\ claim' = [c \in Claims |-> IF Unexpired(c) THEN claim[c] - 1 ELSE claim[c]]
  /\ Recheck(dying)
  /\ UNCHANGED gc

ClaimsNext ==
  \/ \E s \in Sessions : Register(s) \/ BeatRead(s) \/ BeatWrite(s)
  \/ \E s \in Sessions : CheckList(s) \/ CheckCompare(s)
  \/ \E c \in Claims : Claim(c) \/ Release(c)
  \/ \E g \in Collectors : GcStart(g) \/ GcClaims(g)
  \/ \E g \in Collectors, s \in Sessions : GcRead(g, s) \/ GcRemove(g, s)
  \/ Tick

ClaimsSpec == ClaimsInit /\ [][ClaimsNext]_claimsVars

-----------------------------------------------------------------------------
(* Properties                                                              *)

\* A session whose stamps kept it alive since it registered is listed: the one way
\* out is a collector that had read its old file when it registered anew, and
\* removes the new one.
ActiveIsListed ==
  \A s \in Sessions :
    session[s].up /\ ~ session[s].lapsed /\ ~ session[s].swept => Live(presence[s])

\* Claiming and checking are separate calls and nothing is compared when a claim
\* is written; but of two sessions that both claimed the path, and checked since
\* they did and were last dead, one at least was warned of the other.
OneOfTwoIsWarned ==
  \A c, d \in Claims :
    (Unexpired(c) /\ Unexpired(d) /\ Claimant[c] # Claimant[d]) =>
      <<Claimant[c], Claimant[d]>> \notin clear \/ <<Claimant[d], Claimant[c]>> \notin clear

\* The collector removes a claim it saw expired some time ago; it has to be
\* expired still.
ClaimsLastTheirTime ==
  [][\A c \in Claims : Unexpired(c) => c \in Filed' \/ Release(c)]_claimsVars
=============================================================================
