----------------------- MODULE WorkflowEvaluation_proofs -----------------------
(***************************************************************************)
(* Proofs about the workflow service, the guard before it and the          *)
(* evaluator behind it, for any number of agents, keys, calls, restarts    *)
(* and any fault profile.                                                  *)
(***************************************************************************)
EXTENDS WorkflowEvaluation, FiniteSums, SequenceTheorems

JournalEntry == [seq : Nat, key : Keys, effect : Effects, outcome : Outcomes]
Answers == Outcomes \cup {"absent", "error"}
Guard(holder, claims) == /\ holder \in [Agents -> [Keys -> CallIds \cup {None}]]
                         /\ claims \in [Agents -> [CallIds -> Keys \cup {None}]]

-------------------------------------------------------------------------------
(* Facts about numbers and about the journal.                              *)

(* The latest entry of a key is the one after which no other has the key.  *)
LEMMA LatestOf ==
  ASSUME NEW s \in Seq(JournalEntry), NEW k,
         {i \in DOMAIN s : s[i].key = k} # {}
  PROVE  \E n \in DOMAIN s :
           /\ s[n].key = k
           /\ \A j \in DOMAIN s : s[j].key = k => j <= n
           /\ s[CHOOSE i \in {m \in DOMAIN s : s[m].key = k} :
                  \A j \in {m \in DOMAIN s : s[m].key = k} : j <= i] = s[n]
<1> DEFINE E == {i \in DOMAIN s : s[i].key = k}
<1>1. E \in SUBSET (0..Len(s)) /\ E # {} /\ Len(s) \in Nat
  OBVIOUS
<1>2. \E n \in E : \A m \in E : m <= n
  <2> HIDE DEF E
  <2> QED BY <1>1, GreatestNumber
<1>3. PICK n \in E : \A m \in E : m <= n
  BY <1>2
<1> DEFINE c == CHOOSE i \in E : \A j \in E : j <= i
<1>4. c \in E /\ \A j \in E : j <= c
  BY <1>2
<1>5. c = n
  BY <1>1, <1>3, <1>4
<1> QED BY <1>3, <1>5

-------------------------------------------------------------------------------
(* The inductive invariant.                                                *)

ServiceTypes ==
  /\ profile \in Profiles
  /\ journal \in Seq(JournalEntry)
  /\ torn \in BOOLEAN
  /\ running \in Calls \cup {None}
  /\ request \in [Calls -> Asked \cup {None}]
  /\ stage \in [Calls -> {"idle", "gated", "waiting", "denied", "done"}]
  /\ service \in [Calls -> {"none", "queued", "inside", "over"}]
  /\ work \in [Calls -> [entry : JournalEntry \cup {None}, answer : Answers] \cup {None}]
  /\ reply \in [Calls -> Answers \cup {None}]
  /\ callId \in [Calls -> CallIds \cup {None}]
  /\ told \in [Calls -> Answers \cup {None}]
  /\ Guard(locks, calls)

(* Entries are numbered, a success is one the seed allows, and only an     *)
(* entry without an end is followed by another of its key, for the same    *)
(* effect.                                                                 *)
JournalFits ==
  /\ \A i \in DOMAIN journal : /\ journal[i].seq = i
                               /\ journal[i].outcome = "success" => ~Rejected(journal[i].effect)
  /\ \A i, j \in DOMAIN journal :
       i < j /\ journal[i].key = journal[j].key =>
         journal[i].outcome = "unknown" /\ journal[i].effect = journal[j].effect

(* A call inside the service is the only one, and what it has decided is   *)
(* what it would decide now.                                               *)
WorkIsCurrent ==
  \A c \in Calls : service[c] = "inside" => running = c /\ work[c] = Decide(c)

CallFits(c) ==
  /\ request[c] = None <=> stage[c] = "idle"
  /\ stage[c] \in {"idle", "gated", "denied"} => service[c] = "none"
  /\ service[c] # "over" => reply[c] = None
  /\ stage[c] = "gated" => request[c].tool = "effect"
  /\ request[c] # None /\ request[c].tool = "effect" => callId[c] \in CallIds
  /\ told[c] \in Outcomes => told[c] = reply[c]
  /\ told[c] # None => stage[c] = "done"

(* An answer with an outcome is what the journal says of the key.          *)
AnswerStands(c) ==
  reply[c] \in Outcomes =>
    /\ request[c] # None
    /\ EntriesOf(request[c].key) # {}
    /\ reply[c] \in Terminal => reply[c] = Latest(request[c].key).outcome
    /\ request[c].tool = "effect" => request[c].effect = Latest(request[c].key).effect

ServiceInv == /\ ServiceTypes /\ JournalFits /\ WorkIsCurrent
              /\ \A c \in Calls : CallFits(c) /\ AnswerStands(c)

(* An agent was told an end of an effect under the key.                    *)
Told(a, k) == \E c \in Calls : /\ request[c] # None
                               /\ request[c].agent = a /\ request[c].key = k
                               /\ told[c] \in Terminal

(* An effect call that passed its guard holds its key, until the agent is  *)
(* told an end or a call ID comes twice.                                   *)
GuardHolds(a, k) ==
  ~Told(a, k) /\ ~IdRepeated(a, k) => \A c \in Past(a, k) : locks[a][k] = callId[c]

WorkflowInv == ServiceInv /\ \A a \in Agents, k \in Keys : GuardHolds(a, k)

-------------------------------------------------------------------------------
(* What the service decides, and what an append does to the journal.       *)

(* LatestOf, for the journal. *)
LEMMA LatestIs ==
  ASSUME journal \in Seq(JournalEntry), NEW k, EntriesOf(k) # {}
  PROVE  \E n \in EntriesOf(k) : Latest(k) = journal[n] /\ \A j \in EntriesOf(k) : j <= n
  BY LatestOf DEF EntriesOf, Latest

(* A call appends at most one entry, under its own key, that may follow    *)
(* those the key has; and an outcome it answers is the latest of its key.  *)
FitsJournal(c, d) ==
  /\ d \in [entry : JournalEntry \cup {None}, answer : Answers]
  /\ d.entry # None =>
       /\ Loads
       /\ d.entry.seq = Len(journal) + 1
       /\ d.entry.key = request[c].key
       /\ d.entry.outcome = "success" => ~Rejected(d.entry.effect)
       /\ d.answer = d.entry.outcome
       /\ request[c].tool = "effect" => d.entry.effect = request[c].effect
       /\ \A i \in EntriesOf(request[c].key) :
            journal[i].outcome = "unknown" /\ journal[i].effect = d.entry.effect
  /\ d.entry = None /\ d.answer \in Outcomes =>
       /\ EntriesOf(request[c].key) # {}
       /\ Latest(request[c].key).outcome = d.answer
       /\ request[c].tool = "effect" => request[c].effect = Latest(request[c].key).effect

(* Every decision is of that kind. *)
LEMMA DecisionFits ==
  ASSUME ServiceTypes, JournalFits, NEW c \in Calls, request[c] # None
  PROVE  FitsJournal(c, Decide(c))
<1> DEFINE k == request[c].key
           e == request[c].effect
<1>1. /\ request[c] \in Asked /\ k \in Keys /\ request[c].tool \in {"effect", "status"}
      /\ request[c].tool = "effect" => e \in Effects /\ e.kind \in Kinds
      /\ Len(journal) + 1 \in Nat
      /\ profile.faults \in [Kinds -> Outcomes]
      /\ profile.resolutions \in [Kinds -> Terminal \cup {None}]
  BY RequestAssumption, ProfileAssumption DEF ServiceTypes, Effects
<1>2. ASSUME NEW o \in Answers
      PROVE  Answer(o).entry = None /\ Answer(o).answer = o
             /\ Answer(o) \in [entry : JournalEntry \cup {None}, answer : Answers]
  BY DEF Answer
<1>3. ASSUME NEW f \in Effects, NEW o \in Outcomes
      PROVE  /\ Record(Entry(k, f, o)).answer = o
             /\ Record(Entry(k, f, o)).entry = Entry(k, f, o)
             /\ Record(Entry(k, f, o)) \in [entry : JournalEntry \cup {None}, answer : Answers]
             /\ Entry(k, f, o) # None
             /\ Entry(k, f, o).seq = Len(journal) + 1 /\ Entry(k, f, o).key = k
             /\ Entry(k, f, o).effect = f /\ Entry(k, f, o).outcome = o
  <2>1. Entry(k, f, o) \in JournalEntry
    BY <1>1 DEF Entry, JournalEntry
  <2>2. Entry(k, f, o) # None
    BY <2>1, NoneAssumption DEF JournalEntry
  <2> QED BY <2>1, <2>2 DEF Record, Entry, Answers
<1>4. ASSUME NEW f \in Effects, NEW o \in Outcomes
      PROVE  Trial(o, f) \in Outcomes /\ (Trial(o, f) = "success" => ~Rejected(f))
  BY DEF Trial, Outcomes, Terminal
<1>5. ASSUME EntriesOf(k) # {}
      PROVE  /\ Latest(k) \in JournalEntry
             /\ \A i \in EntriesOf(k) : /\ journal[i].effect = Latest(k).effect
                                        /\ Latest(k).outcome = "unknown" => journal[i].outcome = "unknown"
  <2>1. PICK n \in EntriesOf(k) : Latest(k) = journal[n] /\ \A j \in EntriesOf(k) : j <= n
    BY <1>5, LatestIs DEF ServiceTypes
  <2>2. ASSUME NEW i \in EntriesOf(k), i # n
        PROVE  journal[i].outcome = "unknown" /\ journal[i].effect = journal[n].effect
    <3>1. i \in DOMAIN journal /\ n \in DOMAIN journal /\ i < n
      BY <2>1, <2>2 DEF EntriesOf, ServiceTypes
    <3> QED BY <3>1 DEF JournalFits, EntriesOf
  <2> QED BY <2>1, <2>2 DEF EntriesOf, ServiceTypes
<1>6. "error" \in Answers /\ "absent" \in Answers /\ "error" \notin Outcomes /\ "absent" \notin Outcomes
      /\ Outcomes \subseteq Answers
  BY DEF Answers, Outcomes, Terminal
<1>10. ASSUME NEW f \in Effects, NEW o \in Outcomes, o = "success" => ~Rejected(f),
              Loads, request[c].tool = "effect" => f = e,
              \A i \in EntriesOf(k) : journal[i].outcome = "unknown" /\ journal[i].effect = f
       PROVE  FitsJournal(c, Record(Entry(k, f, o)))
  <2> DEFINE d == Record(Entry(k, f, o))
  <2>1. /\ d.answer = o /\ d.entry = Entry(k, f, o) /\ d.entry # None
        /\ d \in [entry : JournalEntry \cup {None}, answer : Answers]
        /\ d.entry.seq = Len(journal) + 1 /\ d.entry.key = k
        /\ d.entry.effect = f /\ d.entry.outcome = o
    BY <1>3
  <2> HIDE DEF d
  <2>2. FitsJournal(c, d)
    BY <2>1, <1>10 DEF FitsJournal
  <2> QED BY <2>2 DEF d
<1>11. ASSUME NEW o \in Answers, o \in Outcomes => /\ EntriesOf(k) # {} /\ Latest(k).outcome = o
                                                   /\ request[c].tool = "effect" => e = Latest(k).effect
       PROVE  FitsJournal(c, Answer(o))
  BY <1>2, <1>11 DEF FitsJournal
<1>7. CASE ~Loads
  BY <1>7, <1>11, <1>6 DEF Decide
<1>8. CASE Loads /\ request[c].tool = "status"
  <2>1. Decide(c) = GetEffectStatus(k)
    BY <1>8 DEF Decide
  <2>2. CASE EntriesOf(k) = {}
    BY <2>1, <2>2, <1>11, <1>6 DEF GetEffectStatus
  <2>3. CASE EntriesOf(k) # {}
    <3> DEFINE old == Latest(k)
               resolution == profile.resolutions[old.effect.kind]
    <3>1. old \in JournalEntry /\ old.effect \in Effects /\ old.outcome \in Outcomes
      BY <1>5, <2>3 DEF JournalEntry
    <3>2. resolution \in Terminal \cup {None}
      BY <3>1, <1>1, RequestAssumption
    <3>3. CASE old.outcome # "unknown" \/ resolution = None
      <4>1. Decide(c) = Answer(old.outcome)
        BY <2>1, <2>3, <3>3 DEF GetEffectStatus
      <4> QED BY <4>1, <3>1, <1>11, <1>6, <2>3, <1>8
    <3>4. CASE ~(old.outcome # "unknown" \/ resolution = None)
      <4>1. Decide(c) = Record(Entry(k, old.effect, Trial(resolution, old.effect)))
        BY <2>1, <2>3, <3>4 DEF GetEffectStatus
      <4> DEFINE o == Trial(resolution, old.effect)
      <4>2. o \in Outcomes /\ (o = "success" => ~Rejected(old.effect))
        BY <3>1, <3>2, <3>4, <1>4 DEF Outcomes
      <4>3. \A i \in EntriesOf(k) : journal[i].outcome = "unknown" /\ journal[i].effect = old.effect
        BY <1>5, <2>3, <3>4
      <4> HIDE DEF o
      <4> QED BY <4>1, <4>2, <4>3, <3>1, <1>8, <1>10 DEF o
    <3> QED BY <3>3, <3>4
  <2> QED BY <2>2, <2>3
<1>9. CASE Loads /\ request[c].tool = "effect"
  <2>1. Decide(c) = PerformEffect(k, e)
    BY <1>9 DEF Decide
  <2>2. CASE EntriesOf(k) = {}
    <3>1. profile.faults[e.kind] \in Outcomes
      BY <1>1, <1>9
    <3>2. Decide(c) = Record(Entry(k, e, Trial(profile.faults[e.kind], e)))
      BY <2>1, <2>2 DEF PerformEffect
    <3> DEFINE o == Trial(profile.faults[e.kind], e)
    <3>3. o \in Outcomes /\ (o = "success" => ~Rejected(e)) /\ e \in Effects
      BY <3>1, <1>1, <1>4, <1>9
    <3> HIDE DEF o
    <3> QED BY <3>2, <3>3, <2>2, <1>9, <1>10 DEF o
  <2>3. CASE EntriesOf(k) # {}
    <3>1. Decide(c) = Answer(IF Latest(k).effect = e THEN Latest(k).outcome ELSE "error")
      BY <2>1, <2>3 DEF PerformEffect
    <3>2. Latest(k).outcome \in Outcomes
      BY <1>5, <2>3 DEF JournalEntry
    <3> QED BY <3>1, <3>2, <2>3, <1>11, <1>6
  <2> QED BY <2>2, <2>3
<1> QED BY <1>1, <1>7, <1>8, <1>9

(* After an append the new entry is the latest of its key, and the other   *)
(* keys are as they were.                                                  *)
LEMMA AppendFits ==
  ASSUME ServiceTypes, JournalFits, NEW x \in JournalEntry,
         x.seq = Len(journal) + 1, x.outcome = "success" => ~Rejected(x.effect),
         \A i \in EntriesOf(x.key) : journal[i].outcome = "unknown" /\ journal[i].effect = x.effect,
         journal' = Append(journal, x)
  PROVE  /\ journal' \in Seq(JournalEntry) /\ JournalFits'
         /\ EntriesOf(x.key)' # {} /\ Latest(x.key)' = x
         /\ \A k : k # x.key => EntriesOf(k)' = EntriesOf(k)
         /\ \A k : k # x.key /\ EntriesOf(k) # {} => Latest(k)' = Latest(k)
<1> DEFINE n == Len(journal) + 1
<1>1. /\ journal' \in Seq(JournalEntry) /\ Len(journal') = n /\ n \in Nat
      /\ DOMAIN journal = 1..Len(journal) /\ DOMAIN journal' = 1..n
      /\ journal'[n] = x /\ \A i \in DOMAIN journal : journal'[i] = journal[i]
  BY AppendProperties DEF ServiceTypes
<1>2. EntriesOf(x.key)' = EntriesOf(x.key) \cup {n}
  BY <1>1 DEF EntriesOf
<1>3. ASSUME NEW k, k # x.key
      PROVE  EntriesOf(k)' = EntriesOf(k) /\ (EntriesOf(k) # {} => Latest(k)' = Latest(k))
  <2>1. EntriesOf(k)' = EntriesOf(k)
    BY <1>1, <1>3 DEF EntriesOf
  <2>2. ASSUME EntriesOf(k) # {}
        PROVE  Latest(k)' = Latest(k)
    <3> DEFINE m == CHOOSE i \in EntriesOf(k) : \A j \in EntriesOf(k) : j <= i
    <3>1. \E i \in EntriesOf(k) : \A j \in EntriesOf(k) : j <= i
      BY <2>2, LatestIs DEF ServiceTypes
    <3>2. m \in EntriesOf(k)
      BY <3>1
    <3>3. m \in DOMAIN journal
      BY <3>2 DEF EntriesOf
    <3>4. Latest(k)' = journal'[m] /\ Latest(k) = journal[m]
      BY <2>1 DEF Latest
    <3> QED BY <3>3, <3>4, <1>1
  <2> QED BY <2>1, <2>2
<1>4. Latest(x.key)' = x
  <2>1. {i \in DOMAIN journal' : journal'[i].key = x.key} # {}
    BY <1>1
  <2> DEFINE s == journal'
  <2>3. Latest(x.key)' = s[CHOOSE i \in {m \in DOMAIN s : s[m].key = x.key} :
                             \A j \in {m \in DOMAIN s : s[m].key = x.key} : j <= i]
    BY DEF Latest, EntriesOf
  <2> HIDE DEF s
  <2>2. PICK m \in DOMAIN s :
           /\ s[m].key = x.key
           /\ \A j \in DOMAIN s : s[j].key = x.key => j <= m
           /\ Latest(x.key)' = s[m]
    <3>1. s \in Seq(JournalEntry) /\ {i \in DOMAIN s : s[i].key = x.key} # {}
      BY <1>1, <2>1 DEF s
    <3> QED BY <3>1, <2>3, LatestOf
  <2>4. m = n
    BY <1>1, <2>2 DEF s
  <2> QED BY <1>1, <2>2, <2>4 DEF s
<1>5. JournalFits'
  <2>1. ASSUME NEW i \in DOMAIN journal'
        PROVE  /\ journal'[i].seq = i
               /\ journal'[i].outcome = "success" => ~Rejected(journal'[i].effect)
    BY <1>1 DEF JournalFits
  <2>2. ASSUME NEW i \in DOMAIN journal', NEW j \in DOMAIN journal', i < j, journal'[i].key = journal'[j].key
        PROVE  journal'[i].outcome = "unknown" /\ journal'[i].effect = journal'[j].effect
    <3>1. i \in DOMAIN journal
      BY <1>1, <2>2
    <3>2. CASE j = n
      BY <1>1, <2>2, <3>1, <3>2 DEF EntriesOf
    <3>3. CASE j # n
      BY <1>1, <2>2, <3>1, <3>3 DEF JournalFits
    <3> QED BY <3>2, <3>3
  <2> QED BY <2>1, <2>2 DEF JournalFits, Rejected
<1> QED BY <1>1, <1>2, <1>3, <1>4, <1>5

-------------------------------------------------------------------------------
(* ServiceInv is inductive.                                                *)

(* What is said of the journal stays said while the journal stays. *)
LEMMA JournalStays ==
  ASSUME UNCHANGED <<profile, journal, torn>>
  PROVE  /\ JournalFits' = JournalFits /\ Loads' = Loads
         /\ \A k : EntriesOf(k)' = EntriesOf(k) /\ Latest(k)' = Latest(k)
         /\ \A c \in Calls : request'[c] = request[c] => Decide(c)' = Decide(c)
<1>1. JournalFits' = JournalFits /\ Loads' = Loads
  BY DEF JournalFits, Loads, Rejected
<1>2. ASSUME NEW k
      PROVE  EntriesOf(k)' = EntriesOf(k) /\ Latest(k)' = Latest(k)
  BY DEF EntriesOf, Latest
<1>3. ASSUME NEW c \in Calls, request'[c] = request[c]
      PROVE  Decide(c)' = Decide(c)
  BY <1>1, <1>2, <1>3
  DEF Decide, PerformEffect, GetEffectStatus, Entry, Trial, Answer, Record, Rejected
<1> QED BY <1>1, <1>2, <1>3

(* A step of an agent touches no more than its own call: whether the       *)
(* service has it is all that changes at the service.                      *)
CallMoves(c, r, i, s, t) ==
  /\ UNCHANGED <<profile, journal, torn, running, work, reply>>
  /\ request' = [request EXCEPT ![c] = r] /\ callId' = [callId EXCEPT ![c] = i]
  /\ stage' = [stage EXCEPT ![c] = s] /\ told' = [told EXCEPT ![c] = t]
  /\ \/ service' = service /\ (s \in {"gated", "denied"} => service[c] = "none")
     \/ service[c] = "none" /\ s = "waiting" /\ service' = [service EXCEPT ![c] = "queued"]

MayMove(c, r, i, s, t) ==
  /\ r \in Asked /\ (r = request[c] \/ stage[c] = "idle")
  /\ i \in CallIds \cup {None} /\ (r.tool = "effect" => i \in CallIds)
  /\ s \in {"gated", "waiting", "denied", "done"} /\ (s = "gated" => r.tool = "effect")
  /\ t \in Answers \cup {None} /\ (t \in Outcomes => t = reply[c])
  /\ t # None => s = "done"

(* Such a step keeps ServiceInv. *)
LEMMA AgentKeepsService ==
  ASSUME ServiceInv, NEW c \in Calls, NEW r, NEW i, NEW s, NEW t,
         MayMove(c, r, i, s, t), CallMoves(c, r, i, s, t), Guard(locks', calls')
  PROVE  ServiceInv'
<1>0. ServiceTypes /\ UNCHANGED <<profile, journal, torn>> /\ r # None
  BY NoneAssumption DEF ServiceInv, CallMoves, MayMove
<1>1. ServiceTypes'
  BY <1>0 DEF ServiceTypes, CallMoves, MayMove
<1>2. JournalFits'
  BY <1>0, JournalStays DEF ServiceInv
<1>3. \A d \in Calls : service[d] = "inside" \/ reply[d] \in Outcomes => request'[d] = request[d]
  BY <1>0, NoneAssumption DEF ServiceInv, ServiceTypes, CallFits, CallMoves, MayMove
<1>4. WorkIsCurrent'
  BY <1>0, <1>3, JournalStays DEF ServiceInv, ServiceTypes, WorkIsCurrent, CallMoves
<1>5. ASSUME NEW d \in Calls
      PROVE  CallFits(d)' /\ AnswerStands(d)'
  <2>1. CallFits(d) /\ AnswerStands(d)
    BY DEF ServiceInv
  <2>2. CallFits(d)'
    <3>1. CASE d = c
      BY <1>0, <2>1, <3>1 DEF ServiceTypes, CallFits, CallMoves, MayMove
    <3>2. CASE d # c
      BY <1>0, <2>1, <3>2 DEF ServiceTypes, CallFits, CallMoves
    <3> QED BY <3>1, <3>2
  <2>3. AnswerStands(d)'
    BY <1>0, <1>3, <2>1, JournalStays DEF AnswerStands, CallMoves
  <2> QED BY <2>2, <2>3
<1> QED BY <1>1, <1>2, <1>4, <1>5 DEF ServiceInv

(* The guard writes call IDs where it holds keys, and keys where it counts *)
(* claims.                                                                 *)
LEMMA GuardTyped ==
  ASSUME Guard(locks, calls), NEW a \in Agents, NEW k \in Keys, NEW i \in CallIds,
         NEW holder \in CallIds \cup {None}, NEW claim \in Keys \cup {None},
         UNCHANGED locks \/ SetLock(a, k, holder),
         UNCHANGED calls \/ calls' = [calls EXCEPT ![a][i] = claim]
  PROVE  Guard(locks', calls')
<1>1. /\ locks \in [Agents -> [Keys -> CallIds \cup {None}]]
      /\ calls \in [Agents -> [CallIds -> Keys \cup {None}]]
  BY DEF Guard
<1>2. locks' \in [Agents -> [Keys -> CallIds \cup {None}]]
  <2>1. CASE UNCHANGED locks
    BY <1>1, <2>1
  <2>2. CASE SetLock(a, k, holder)
    BY <1>1, <2>2 DEF SetLock
  <2> QED BY <2>1, <2>2
<1>3. calls' \in [Agents -> [CallIds -> Keys \cup {None}]]
  <2>1. CASE UNCHANGED calls
    BY <1>1, <2>1
  <2>2. CASE calls' = [calls EXCEPT ![a][i] = claim]
    BY <1>1, <2>2
  <2> QED BY <2>1, <2>2
<1> QED BY <1>2, <1>3 DEF Guard

(* The key an effect call was claimed for. *)
LEMMA ClaimedKey ==
  ASSUME ServiceTypes, NEW c \in Calls, request[c] # None, request[c].tool = "effect",
         callId[c] \in CallIds
  PROVE  /\ request[c].agent \in Agents /\ request[c].key \in Keys
         /\ calls[request[c].agent][callId[c]] \in Keys \cup {None}
         /\ KeyOf(c) \in Keys
<1>1. request[c].agent \in Agents /\ request[c].key \in Keys
  BY RequestAssumption DEF ServiceTypes
<1> QED BY <1>1 DEF ServiceTypes, Guard, KeyOf

(* What the guard makes of an answer or a denial is typed. *)
LEMMA ObservationTyped ==
  ASSUME ServiceTypes, NEW c \in Calls, CallFits(c), request[c] # None, NEW seen,
         ObserveResult(c, seen) \/ (stage[c] = "gated" /\ ReleaseCall(c))
  PROVE  Guard(locks', calls')
<1>1. request[c].agent \in Agents /\ request[c].key \in Keys
      /\ request[c].tool \in {"effect", "status"} /\ Guard(locks, calls)
  BY RequestAssumption DEF ServiceTypes
<1>2. CASE request[c].tool = "status" /\ ObserveResult(c, seen)
  <2>1. (UNCHANGED locks \/ SetLock(request[c].agent, request[c].key, None)) /\ UNCHANGED calls
    BY <1>2 DEF ObserveResult, ObserveStatus
  <2>2. locks' \in [Agents -> [Keys -> CallIds \cup {None}]]
    <3>1. locks \in [Agents -> [Keys -> CallIds \cup {None}]]
      BY <1>1 DEF Guard
    <3>2. CASE UNCHANGED locks
      BY <3>1, <3>2
    <3>3. CASE SetLock(request[c].agent, request[c].key, None)
      BY <1>1, <3>1, <3>3 DEF SetLock
    <3> QED BY <2>1, <3>2, <3>3
  <2> QED BY <1>1, <2>1, <2>2 DEF Guard
<1>3. CASE request[c].tool = "effect"
  <2>1. callId[c] \in CallIds /\ KeyOf(c) \in Keys
        /\ calls[request[c].agent][callId[c]] \in Keys \cup {None}
    BY <1>3, ClaimedKey DEF CallFits
  <2>2. CASE ObserveResult(c, seen)
    <3>1. /\ Forget(request[c].agent, callId[c])
          /\ \/ UNCHANGED locks
             \/ \E holder \in CallIds \cup {None} : SetLock(request[c].agent, KeyOf(c), holder)
      BY <1>3, <2>1, <2>2 DEF ObserveResult, ObserveEffect
    <3> QED BY <1>1, <2>1, <3>1, GuardTyped DEF Forget
  <2>3. CASE ReleaseCall(c)
    <3>1. /\ Forget(request[c].agent, callId[c])
          /\ \/ UNCHANGED locks
             \/ \E k \in Keys : SetLock(request[c].agent, k, None)
      BY <2>1, <2>3 DEF ReleaseCall
    <3> QED BY <1>1, <2>1, <3>1, GuardTyped DEF Forget
  <2> QED BY <2>2, <2>3
<1> QED BY <1>1, <1>2, <1>3 DEF CallFits

(* Each step of an agent keeps ServiceInv. *)
LEMMA AgentSteps ==
  ASSUME ServiceInv, AgentStep
  PROVE  ServiceInv'
<1>0. ServiceTypes /\ Guard(locks, calls)
  BY DEF ServiceInv, ServiceTypes
<1>1. ASSUME NEW c \in Calls, NEW r \in profile.requests, Asks(c, r)
      PROVE  /\ r \in Asked /\ r.agent \in Agents /\ r.key \in Keys
             /\ stage[c] = "idle" /\ service[c] = "none" /\ reply[c] = None
             /\ request' = [request EXCEPT ![c] = r]
             /\ told[c] = None /\ told[c] \notin Outcomes
             /\ callId[c] \in CallIds \cup {None}
             /\ told = [told EXCEPT ![c] = told[c]] /\ callId = [callId EXCEPT ![c] = callId[c]]
  BY <1>1, RequestAssumption, NoneAssumption DEF Asks, ServiceInv, ServiceTypes, CallFits, Asked
<1>2. ASSUME NEW c \in Calls, NEW r \in profile.requests, AskStatus(c, r)
      PROVE  ServiceInv'
  <2>1. Asks(c, r) /\ r.tool = "status"
    BY <1>2 DEF AskStatus
  <2>2. CallMoves(c, r, callId[c], "waiting", told[c]) /\ Guard(locks', calls')
    BY <1>0, <1>1, <1>2, <2>1 DEF AskStatus, Dispatch, CallMoves, guardVars
  <2>3. MayMove(c, r, callId[c], "waiting", told[c])
    BY <1>1, <2>1 DEF MayMove
  <2> QED BY <2>2, <2>3, AgentKeepsService
<1>3. ASSUME NEW c \in Calls, NEW r \in profile.requests, NEW i \in CallIds, PreExecute(c, r, i)
      PROVE  ServiceInv'
  <2>1. Asks(c, r) /\ r.tool = "effect"
    BY <1>3 DEF PreExecute
  <2>2. PICK s \in {"gated", "denied"} :
          /\ stage' = [stage EXCEPT ![c] = s]
          /\ UNCHANGED locks \/ SetLock(r.agent, r.key, i)
          /\ UNCHANGED calls \/ calls' = [calls EXCEPT ![r.agent][i] = r.key]
    BY <1>3 DEF PreExecute, guardVars
  <2>3. CallMoves(c, r, i, s, told[c])
    BY <1>1, <1>3, <2>1, <2>2 DEF PreExecute, serviceVars, CallMoves
  <2>4. MayMove(c, r, i, s, told[c])
    BY <1>1, <2>1 DEF MayMove
  <2>5. Guard(locks', calls')
    BY <1>0, <1>1, <2>1, <2>2, GuardTyped
  <2> QED BY <2>3, <2>4, <2>5, AgentKeepsService
<1>4. ASSUME NEW c \in Calls, stage[c] \in {"gated", "waiting", "denied"}
      PROVE  /\ CallFits(c) /\ request[c] \in Asked /\ request[c] # None
             /\ request = [request EXCEPT ![c] = request[c]]
             /\ callId = [callId EXCEPT ![c] = callId[c]] /\ told = [told EXCEPT ![c] = told[c]]
             /\ \A s \in {"gated", "waiting", "denied", "done"} :
                  \A t \in {told[c], "error", reply[c]} :
                    s # "gated" /\ (t # None => s = "done") => MayMove(c, request[c], callId[c], s, t)
             /\ told[c] = None
  <2>1. CallFits(c) /\ request[c] \in Asked /\ request[c] # None
    BY <1>4 DEF ServiceInv, ServiceTypes, CallFits
  <2>2. /\ told[c] \in Answers \cup {None} /\ reply[c] \in Answers \cup {None}
        /\ "error" \in Answers \ Outcomes /\ callId[c] \in CallIds \cup {None}
    BY <1>0 DEF ServiceTypes, Answers, Outcomes, Terminal
  <2>3. /\ request = [request EXCEPT ![c] = request[c]]
        /\ callId = [callId EXCEPT ![c] = callId[c]] /\ told = [told EXCEPT ![c] = told[c]]
    BY <1>0 DEF ServiceTypes
  <2>4. ASSUME NEW s \in {"gated", "waiting", "denied", "done"},
               NEW t \in {told[c], "error", reply[c]}, s # "gated", t # None => s = "done"
        PROVE  MayMove(c, request[c], callId[c], s, t)
    BY <2>1, <2>2, <2>4 DEF MayMove, CallFits
  <2>5. told[c] = None
    BY <1>4, <2>1 DEF CallFits
  <2> QED BY <2>1, <2>3, <2>4, <2>5
<1>5. ASSUME NEW c \in Calls, ChainAllows(c)
      PROVE  ServiceInv'
  <2>1. stage[c] = "gated" /\ service[c] = "none"
    BY <1>5 DEF ChainAllows, ServiceInv, CallFits
  <2>2. CallMoves(c, request[c], callId[c], "waiting", told[c]) /\ Guard(locks', calls')
    BY <1>0, <1>4, <1>5, <2>1 DEF ChainAllows, Dispatch, CallMoves, guardVars, agentVars
  <2> QED BY <1>4, <2>1, <2>2, AgentKeepsService
<1>6. ASSUME NEW c \in Calls, ChainDenies(c)
      PROVE  ServiceInv'
  <2>1. stage[c] = "gated" /\ service[c] = "none"
    BY <1>6 DEF ChainDenies, ServiceInv, CallFits
  <2>2. CallMoves(c, request[c], callId[c], "denied", told[c])
    BY <1>4, <1>6, <2>1 DEF ChainDenies, CallMoves, serviceVars, agentVars
  <2>3. Guard(locks', calls')
    BY <1>0, <1>4, <1>6, <2>1, ObservationTyped DEF ChainDenies
  <2> QED BY <1>4, <2>1, <2>2, <2>3, AgentKeepsService
<1>7. ASSUME NEW c \in Calls, SeeResult(c) \/ SeeDenial(c)
      PROVE  ServiceInv'
  <2>1. PICK seen \in {"error", reply[c]} : See(c, seen) /\ stage[c] \in {"waiting", "denied"}
    BY <1>7 DEF SeeResult, SeeDenial
  <2>2. CallMoves(c, request[c], callId[c], "done", seen)
    BY <1>4, <2>1 DEF See, CallMoves, serviceVars
  <2>3. Guard(locks', calls')
    BY <1>0, <1>4, <2>1, ObservationTyped DEF See
  <2>4. MayMove(c, request[c], callId[c], "done", seen)
    BY <1>4, <2>1
  <2> QED BY <2>2, <2>3, <2>4, AgentKeepsService
<1> QED BY <1>2, <1>3, <1>5, <1>6, <1>7 DEF AgentStep

(* The service takes a call in and decides. *)
LEMMA EnterKeeps == ASSUME ServiceInv, NEW c \in Calls, Enter(c) PROVE ServiceInv'
<1>1. service[c] = "queued" /\ request[c] \in Asked /\ request[c] # None /\ stage[c] \in {"waiting", "done"}
  BY DEF Enter, ServiceInv, ServiceTypes, CallFits
<1>2. Decide(c) \in [entry : JournalEntry \cup {None}, answer : Answers]
  BY <1>1, DecisionFits DEF ServiceInv, FitsJournal
<1>3. ServiceTypes'
  BY <1>2 DEF Enter, ServiceInv, ServiceTypes, Guard, agentVars, guardVars
<1>4. /\ JournalFits' /\ \A d \in Calls : Decide(d)' = Decide(d)
      /\ \A k : EntriesOf(k)' = EntriesOf(k) /\ Latest(k)' = Latest(k)
  BY JournalStays DEF Enter, ServiceInv, agentVars
<1>5. WorkIsCurrent'
  BY <1>4, NoneAssumption DEF Enter, ServiceInv, ServiceTypes, WorkIsCurrent
<1>6. ASSUME NEW d \in Calls
      PROVE  CallFits(d)' /\ AnswerStands(d)'
  <2>1. CallFits(d) /\ AnswerStands(d)
    BY DEF ServiceInv
  <2> QED BY <1>1, <1>4, <2>1 DEF Enter, ServiceInv, ServiceTypes, CallFits, AnswerStands,
                                  agentVars
<1> QED BY <1>3, <1>4, <1>5, <1>6 DEF ServiceInv

(* A call leaves with an outcome only when the journal says so of its key, *)
(* and the journal goes on saying of the other calls what it did.          *)
LEMMA LeaveKeeps ==
  ASSUME ServiceInv, NEW c \in Calls, service[c] = "inside", UNCHANGED <<profile, request, stage>>,
         NEW answer \in Answers, Leave(c, answer), journal' \in Seq(JournalEntry), torn' \in BOOLEAN,
         JournalFits', UNCHANGED <<agentVars, guardVars>>,
         \A k : EntriesOf(k) # {} => EntriesOf(k)' # {} /\ Latest(k)'.effect = Latest(k).effect
                                     /\ (Latest(k).outcome \in Terminal => Latest(k)' = Latest(k)),
         answer \in Outcomes =>
           /\ EntriesOf(request[c].key)' # {}
           /\ answer \in Terminal => answer = Latest(request[c].key)'.outcome
           /\ request[c].tool = "effect" => request[c].effect = Latest(request[c].key)'.effect
  PROVE  ServiceInv'
<1>1. ServiceTypes'
  BY DEF Leave, ServiceInv, ServiceTypes, Guard, agentVars, guardVars
<1>2. running = c /\ \A d \in Calls : service[d] = "inside" => d = c
  BY DEF ServiceInv, WorkIsCurrent
<1>3. \A d \in Calls : service'[d] # "inside"
  BY <1>2 DEF Leave, ServiceInv, ServiceTypes
<1>4. WorkIsCurrent'
  BY <1>3 DEF WorkIsCurrent
<1>5. ASSUME NEW d \in Calls
      PROVE  CallFits(d)' /\ AnswerStands(d)'
  <2>1. CallFits(d) /\ AnswerStands(d)
    BY DEF ServiceInv
  <2>2. CASE d = c
    <3>1. service'[d] = "over" /\ reply'[d] = answer /\ request'[d] = request[d] /\ request[c] # None
      BY <2>1, <2>2 DEF Leave, ServiceInv, ServiceTypes, CallFits
    <3>2. told'[d] = told[d] /\ callId'[d] = callId[d] /\ told[d] \notin Outcomes
      BY <2>1, <2>2, NoneAssumption DEF agentVars, CallFits
    <3> QED BY <2>1, <2>2, <3>1, <3>2 DEF CallFits, AnswerStands
  <2>3. CASE d # c
    <3>1. /\ service'[d] = service[d] /\ reply'[d] = reply[d] /\ request'[d] = request[d]
          /\ stage'[d] = stage[d] /\ told'[d] = told[d] /\ callId'[d] = callId[d]
      BY <2>3 DEF Leave, ServiceInv, ServiceTypes, agentVars
    <3> QED BY <2>1, <3>1 DEF CallFits, AnswerStands
  <2> QED BY <2>2, <2>3
<1> QED BY <1>1, <1>4, <1>5 DEF ServiceInv

(* The call inside answers without an append. *)
LEMMA RespondKeeps == ASSUME ServiceInv, NEW c \in Calls, Respond(c) PROVE ServiceInv'
<1>1. service[c] = "inside" /\ work[c] = Decide(c) /\ request[c] # None
  BY DEF Respond, ServiceInv, WorkIsCurrent, CallFits
<1>2. FitsJournal(c, work[c]) /\ work[c].entry = None
  BY <1>1, DecisionFits DEF ServiceInv, Respond
<1>3. JournalFits' /\ \A k : EntriesOf(k)' = EntriesOf(k) /\ Latest(k)' = Latest(k)
  BY JournalStays DEF Respond, Leave, ServiceInv
<1>4. /\ Leave(c, work[c].answer) /\ work[c].answer \in Answers
      /\ UNCHANGED <<profile, request, stage, journal, torn, agentVars, guardVars>>
      /\ journal \in Seq(JournalEntry) /\ torn \in BOOLEAN
  BY <1>2 DEF Respond, Leave, FitsJournal, ServiceInv, ServiceTypes, agentVars
<1> QED BY <1>1, <1>2, <1>3, <1>4, LeaveKeeps DEF FitsJournal

(* How a key's part of the journal changes: not at all once it has an end. *)
Stands(k) ==
  EntriesOf(k) # {} =>
    /\ EntriesOf(k)' # {} /\ Latest(k)'.effect = Latest(k).effect
    /\ Latest(k).outcome \in Terminal => Latest(k)' = Latest(k) /\ EntriesOf(k)' = EntriesOf(k)

(* The call inside appends its entry, or tears the file. *)
LEMMA AppendStands ==
  ASSUME ServiceInv, NEW c \in Calls, AppendEffect(c)
  PROVE  ServiceInv' /\ ~torn /\ \A k : Stands(k)
<1>1. service[c] = "inside" /\ work[c] = Decide(c) /\ request[c] # None
  BY DEF AppendEffect, ServiceInv, WorkIsCurrent, CallFits
<1>2. FitsJournal(c, work[c]) /\ work[c].entry # None
  BY <1>1, DecisionFits DEF ServiceInv, AppendEffect
<1>3. PICK x \in JournalEntry :
      /\ x = work[c].entry /\ x.seq = Len(journal) + 1 /\ x.key = request[c].key
      /\ x.outcome = "success" => ~Rejected(x.effect)
      /\ \A i \in EntriesOf(x.key) : journal[i].outcome = "unknown" /\ journal[i].effect = x.effect
      /\ work[c].answer = x.outcome /\ x.outcome \in Outcomes
      /\ request[c].tool = "effect" => x.effect = request[c].effect
  BY <1>2 DEF FitsJournal, JournalEntry
<1>4. \E answer \in {"error", x.outcome} : Leave(c, answer)
  BY <1>3 DEF AppendEffect
<1>5. /\ UNCHANGED <<profile, request, stage, agentVars, guardVars>>
      /\ ServiceTypes /\ JournalFits /\ ~torn
  BY <1>2, <1>4 DEF Leave, ServiceInv, FitsJournal, Loads, agentVars
<1>6. "error" \in Answers /\ "error" \notin Outcomes /\ Outcomes \subseteq Answers
  BY DEF Answers, Outcomes, Terminal
<1>7. CASE journal' = Append(journal, x) /\ UNCHANGED torn
  <2>1. /\ journal' \in Seq(JournalEntry) /\ JournalFits'
        /\ EntriesOf(x.key)' # {} /\ Latest(x.key)' = x
        /\ \A k : k # x.key => EntriesOf(k)' = EntriesOf(k)
        /\ \A k : k # x.key /\ EntriesOf(k) # {} => Latest(k)' = Latest(k)
    BY <1>3, <1>5, <1>7, AppendFits
  <2>2. ASSUME NEW k
        PROVE  Stands(k)
    <3>1. CASE k # x.key
      BY <2>1, <3>1 DEF Stands
    <3>2. CASE k = x.key /\ EntriesOf(k) # {}
      <4>1. PICK n \in EntriesOf(k) : Latest(k) = journal[n]
        BY <3>2, <1>5, LatestIs DEF ServiceTypes
      <4>2. Latest(k).outcome = "unknown" /\ Latest(k).effect = x.effect
        BY <4>1, <3>2, <1>3
      <4> QED BY <4>2, <3>2, <2>1 DEF Terminal, Stands
    <3> QED BY <3>1, <3>2 DEF Stands
  <2>3. torn' \in BOOLEAN
    BY <1>5, <1>7 DEF ServiceTypes
  <2>4. ServiceInv'
    BY <1>1, <1>3, <1>4, <1>5, <1>6, <2>1, <2>2, <2>3, LeaveKeeps DEF Stands
  <2> QED BY <1>5, <2>2, <2>4
<1>8. CASE UNCHANGED journal /\ torn' = TRUE /\ Leave(c, "error")
  <2>1. JournalFits' /\ \A k : EntriesOf(k)' = EntriesOf(k) /\ Latest(k)' = Latest(k)
    BY <1>5, <1>8 DEF JournalFits, Rejected, EntriesOf, Latest
  <2>2. journal' \in Seq(JournalEntry)
    BY <1>5, <1>8 DEF ServiceTypes
  <2>3. ServiceInv'
    BY <1>1, <1>5, <1>6, <1>8, <2>1, <2>2, LeaveKeeps
  <2> QED BY <1>5, <2>1, <2>3 DEF Stands
<1> QED BY <1>3, <1>7, <1>8 DEF AppendEffect

(* The service dies and comes back. *)
LEMMA RestartKeeps == ASSUME ServiceInv, Restart PROVE ServiceInv'
<1>1. ServiceTypes'
  BY DEF Restart, ServiceInv, ServiceTypes, Guard, Answers, agentVars, guardVars
<1>2. JournalFits' /\ \A k : EntriesOf(k)' = EntriesOf(k) /\ Latest(k)' = Latest(k)
  BY JournalStays DEF Restart, ServiceInv
<1>3. WorkIsCurrent'
  BY DEF Restart, WorkIsCurrent, ServiceInv, ServiceTypes
<1>4. ASSUME NEW d \in Calls
      PROVE  CallFits(d)' /\ AnswerStands(d)'
  <2>1. CallFits(d) /\ AnswerStands(d)
    BY DEF ServiceInv
  <2>2. "error" \notin Outcomes
    BY DEF Outcomes, Terminal
  <2>3. CASE service[d] \in {"queued", "inside"}
    <3>1. /\ service'[d] = "over" /\ reply'[d] = "error" /\ request'[d] = request[d]
          /\ stage'[d] = stage[d] /\ told'[d] = told[d] /\ callId'[d] = callId[d]
      BY <2>3 DEF Restart, agentVars
    <3>2. told[d] \notin Outcomes
      BY <2>1, <2>3, NoneAssumption DEF CallFits
    <3> QED BY <2>1, <2>2, <2>3, <3>1, <3>2 DEF CallFits, AnswerStands
  <2>4. CASE service[d] \notin {"queued", "inside"}
    <3>1. /\ service'[d] = service[d] /\ reply'[d] = reply[d] /\ request'[d] = request[d]
          /\ stage'[d] = stage[d] /\ told'[d] = told[d] /\ callId'[d] = callId[d]
      BY <2>4 DEF Restart, agentVars
    <3> QED BY <1>2, <2>1, <3>1 DEF CallFits, AnswerStands
  <2> QED BY <2>3, <2>4
<1> QED BY <1>1, <1>2, <1>3, <1>4 DEF ServiceInv

(* Every step keeps ServiceInv, and every key's end. *)
LEMMA ServiceInductive ==
  ASSUME ServiceInv, [Next]_vars
  PROVE  ServiceInv' /\ (torn => UNCHANGED <<torn, journal>>) /\ \A k : Stands(k)
<1>1. ASSUME UNCHANGED <<journal, torn>>
      PROVE  (torn => UNCHANGED <<torn, journal>>) /\ \A k : Stands(k)
  BY <1>1 DEF Stands, EntriesOf, Latest
<1>2. CASE AgentStep
  <2>1. UNCHANGED <<journal, torn>>
    BY <1>2 DEF AgentStep, AskStatus, PreExecute, ChainAllows, ChainDenies, SeeResult, SeeDenial,
                See, serviceVars
  <2> QED BY <1>1, <1>2, <2>1, AgentSteps
<1>3. ASSUME NEW c \in Calls, Serve(c)
      PROVE  ServiceInv' /\ (torn => UNCHANGED <<torn, journal>>) /\ \A k : Stands(k)
  <2>1. CASE Enter(c)
    <3>1. UNCHANGED <<journal, torn>>
      BY <2>1 DEF Enter
    <3> QED BY <1>1, <2>1, <3>1, EnterKeeps
  <2>2. CASE Respond(c)
    <3>1. UNCHANGED <<journal, torn>>
      BY <2>2 DEF Respond
    <3> QED BY <1>1, <2>2, <3>1, RespondKeeps
  <2>3. CASE AppendEffect(c)
    BY <2>3, AppendStands
  <2> QED BY <1>3, <2>1, <2>2, <2>3 DEF Serve
<1>4. CASE Restart
  <2>1. UNCHANGED <<journal, torn>>
    BY <1>4 DEF Restart
  <2> QED BY <1>1, <1>4, <2>1, RestartKeeps
<1>5. CASE UNCHANGED vars
  <2>1. ServiceInv'
    <3>1. /\ JournalFits' = JournalFits
          /\ \A k : EntriesOf(k)' = EntriesOf(k) /\ Latest(k)' = Latest(k)
          /\ \A c \in Calls : Decide(c)' = Decide(c)
      BY <1>5, JournalStays DEF vars, serviceVars, agentVars
    <3>2. ServiceTypes' = ServiceTypes /\ WorkIsCurrent' = WorkIsCurrent
      BY <1>5, <3>1 DEF vars, serviceVars, agentVars, guardVars, ServiceTypes, Guard, WorkIsCurrent
    <3>3. \A c \in Calls : CallFits(c)' = CallFits(c) /\ AnswerStands(c)' = AnswerStands(c)
      BY <1>5, <3>1 DEF vars, serviceVars, agentVars, CallFits, AnswerStands
    <3> QED BY <3>1, <3>2, <3>3 DEF ServiceInv
  <2>2. UNCHANGED <<journal, torn>>
    BY <1>5 DEF vars, serviceVars
  <2> QED BY <1>1, <2>1, <2>2
<1> QED BY <1>2, <1>3, <1>4, <1>5 DEF Next

(* It holds at the start. *)
LEMMA ServiceStarts == Init => WorkflowInv
<1> SUFFICES ASSUME Init
             PROVE  WorkflowInv
  OBVIOUS
<1>1. <<>> \in Seq(JournalEntry) /\ DOMAIN <<>> = {}
  BY EmptySeq
<1>2. ServiceTypes
  BY <1>1 DEF Init, ServiceTypes, Guard
<1>3. JournalFits /\ WorkIsCurrent
  BY <1>1 DEF Init, JournalFits, WorkIsCurrent
<1>4. \A c \in Calls : CallFits(c) /\ AnswerStands(c)
  BY NoneAssumption DEF Init, CallFits, AnswerStands
<1>5. \A a \in Agents, k \in Keys : GuardHolds(a, k)
  BY DEF Init, GuardHolds, Past, CallsUnder, EffectCalls
<1> QED BY <1>2, <1>3, <1>4, <1>5 DEF ServiceInv, WorkflowInv

(* What was answered is what the journal says, whichever calls, retries,   *)
(* status queries and restarts came between: AnswersAreTrue, of every run  *)
(* of the service (service.ts, performEffect and getEffectStatus).         *)
THEOREM AnswersStayTrue == Spec => []AnswersAreTrue
<1>1. ServiceInv => AnswersAreTrue
  <2> SUFFICES ASSUME ServiceInv
               PROVE  AnswersAreTrue
    OBVIOUS
  <2>1. ~torn => Loads
    BY DEF ServiceInv, JournalFits, Loads
  <2> QED BY <2>1 DEF ServiceInv, AnswerStands, AnswersAreTrue
<1>2. Init => ServiceInv
  BY ServiceStarts DEF WorkflowInv
<1>3. ServiceInv /\ [Next]_vars => ServiceInv'
  BY ServiceInductive
<1> QED BY <1>1, <1>2, <1>3, PTL DEF Spec

(* A key stands for one effect whose end is final, and a damaged journal   *)
(* is not written to again: OutcomesStand.                                 *)
THEOREM EndsAreFinal == Spec => OutcomesStand
<1>1. ServiceInv /\ [Next]_vars =>
        [ /\ \A k \in Keys : EntriesOf(k) # {} =>
               /\ Latest(k)'.effect = Latest(k).effect
               /\ Latest(k).outcome \in Terminal => EntriesOf(k)' = EntriesOf(k)
          /\ torn => UNCHANGED <<torn, journal>> ]_vars
  BY ServiceInductive DEF Stands
<1>2. Init => ServiceInv
  BY ServiceStarts DEF WorkflowInv
<1>3. ServiceInv /\ [Next]_vars => ServiceInv'
  BY ServiceInductive
<1> QED BY <1>1, <1>2, <1>3, PTL DEF Spec, OutcomesStand

-------------------------------------------------------------------------------
(* The guard.                                                              *)

(* An end an agent was told is the one the service has on record. *)
LEMMA ToldIsKnown == ASSUME ServiceInv, NEW a, NEW k, Told(a, k)
                     PROVE  Knows(a, k)
<1>1. PICK c \in Calls : request[c] # None /\ request[c].agent = a /\ request[c].key = k
                         /\ told[c] \in Terminal
  BY DEF Told
<1>2. told[c] \in Outcomes
  BY <1>1 DEF Outcomes
<1>3. told[c] = reply[c] /\ AnswerStands(c)
  BY <1>2 DEF ServiceInv, CallFits
<1> QED BY <1>1, <1>2, <1>3 DEF AnswerStands, Knows

(* What is under way stays under way: calls and their IDs do not change,   *)
(* and what an agent was told it goes on having been told.                 *)
CallStays(c) == /\ request'[c] = request[c] /\ callId'[c] = callId[c]
                /\ told[c] # None => told'[c] = told[c]
LEMMA CallsStay ==
  ASSUME ServiceInv, [Next]_vars, NEW c \in Calls, request[c] # None
  PROVE  CallStays(c)
<1>0. ServiceTypes /\ stage[c] # "idle"
  BY DEF ServiceInv, CallFits
<1>1. ASSUME NEW d \in Calls, NEW r, NEW i \in CallIds, AskStatus(d, r) \/ PreExecute(d, r, i)
      PROVE  CallStays(c)
  <2>1. stage[d] = "idle" /\ d # c
    BY <1>0, <1>1 DEF AskStatus, PreExecute, Asks
  <2> QED BY <1>0, <1>1, <2>1
      DEF AskStatus, PreExecute, Asks, ServiceTypes, CallStays
<1>2. ASSUME NEW d \in Calls, NEW r, AskStatus(d, r)
      PROVE  CallStays(c)
  <2>1. stage[d] = "idle" /\ d # c
    BY <1>0, <1>2 DEF AskStatus, Asks
  <2> QED BY <1>0, <1>2, <2>1 DEF AskStatus, Asks, ServiceTypes, CallStays
<1>3. ASSUME NEW d \in Calls, ChainAllows(d) \/ ChainDenies(d)
      PROVE  CallStays(c)
  BY <1>3 DEF ChainAllows, ChainDenies, agentVars, CallStays
<1>4. ASSUME NEW d \in Calls, SeeResult(d) \/ SeeDenial(d)
      PROVE  CallStays(c)
  <2>1. PICK seen : See(d, seen) /\ stage[d] \in {"waiting", "denied"}
    BY <1>4 DEF SeeResult, SeeDenial
  <2>2. CASE d # c
    BY <1>0, <2>1, <2>2 DEF See, ServiceTypes, CallStays
  <2>3. CASE d = c
    BY <1>0, <2>1, <2>3 DEF See, ServiceInv, CallFits, CallStays
  <2> QED BY <2>2, <2>3
<1>5. CASE (\E d \in Calls : Serve(d)) \/ Restart \/ UNCHANGED vars
  BY <1>5 DEF Serve, Enter, Respond, AppendEffect, Leave, Restart, vars, agentVars, CallStays
<1> QED BY <1>1, <1>2, <1>3, <1>4, <1>5 DEF Next, AgentStep

(* A call comes to be past the guard only when the guard lets it pass. *)
Passes(a, k, c, i) == /\ stage[c] = "idle" /\ request'[c] # None /\ request'[c].tool = "effect"
                      /\ request'[c].agent = a /\ request'[c].key = k
                      /\ callId'[c] = i /\ i \in CallIds /\ locks[a][k] \in {None, i}
LEMMA PastGrows ==
  ASSUME ServiceInv, [Next]_vars, NEW a, NEW k, NEW c \in Past(a, k)', c \notin Past(a, k)
  PROVE  \E i : Passes(a, k, c, i) /\ SetLock(a, k, i)
<1>0. ServiceTypes /\ c \in Calls /\ CallFits(c)
  BY DEF ServiceInv, Past, CallsUnder, EffectCalls
<1>1. request'[c] = request[c] => stage[c] # "gated" /\ service[c] = "none"
                                  /\ (stage'[c] = "gated" \/ service'[c] # "none")
  BY DEF Past, CallsUnder, EffectCalls
<1>2. request'[c] # None /\ request'[c].tool = "effect" /\ request'[c].agent = a
      /\ request'[c].key = k
  BY DEF Past, CallsUnder, EffectCalls
<1>3. ASSUME NEW d \in Calls, NEW r, AskStatus(d, r)
      PROVE  FALSE
  <2>1. d # c
    BY <1>0, <1>2, <1>3 DEF AskStatus, Asks, ServiceTypes
  <2> QED BY <1>0, <1>1, <1>3, <2>1 DEF AskStatus, Asks, Dispatch, ServiceTypes
<1>4. ASSUME NEW d \in Calls, NEW r, NEW i \in CallIds, PreExecute(d, r, i)
      PROVE  Passes(a, k, c, i) /\ SetLock(a, k, i)
  <2>1. d = c
    BY <1>0, <1>1, <1>4 DEF PreExecute, Asks, ServiceTypes, serviceVars
  <2>2. stage[c] = "idle" /\ service'[c] = "none" /\ request'[c] = r /\ callId'[c] = i
    BY <1>0, <1>4, <2>1 DEF PreExecute, Asks, ServiceTypes, CallFits, serviceVars
  <2>3. stage'[c] = "gated"
    BY <2>2 DEF Past
  <2>4. locks[a][k] \in {None, i} /\ SetLock(a, k, i)
    BY <1>0, <1>2, <1>4, <2>1, <2>2, <2>3 DEF PreExecute, ServiceTypes
  <2> QED BY <1>2, <2>2, <2>4 DEF Passes
<1>5. ASSUME NEW d \in Calls,
             ChainAllows(d) \/ ChainDenies(d) \/ SeeResult(d) \/ SeeDenial(d)
      PROVE  FALSE
  BY <1>0, <1>1, <1>5
  DEF ChainAllows, ChainDenies, SeeResult, SeeDenial, See, Dispatch, ServiceTypes, serviceVars,
      agentVars
<1>6. ASSUME NEW d \in Calls, Serve(d)
      PROVE  FALSE
  BY <1>0, <1>1, <1>6
  DEF Serve, Enter, Respond, AppendEffect, Leave, ServiceTypes, agentVars
<1>7. CASE Restart \/ UNCHANGED vars
  BY <1>0, <1>1, <1>7 DEF Restart, ServiceTypes, vars, serviceVars, agentVars
<1> QED BY <1>3, <1>4, <1>5, <1>6, <1>7 DEF Next, AgentStep

(* What an agent was told, and which IDs came twice, is not taken back. *)
LEMMA KnowledgeStays ==
  ASSUME ServiceInv, [Next]_vars, NEW a, NEW k
  PROVE  /\ Told(a, k) => Told(a, k)'
         /\ IdRepeated(a, k) => IdRepeated(a, k)'
<1>1. ASSUME NEW c \in Calls, request[c] # None
      PROVE  CallStays(c)
  BY <1>1, CallsStay
<1>2. ASSUME Told(a, k)
      PROVE  Told(a, k)'
  <2>1. PICK c \in Calls : request[c] # None /\ request[c].agent = a /\ request[c].key = k
                           /\ told[c] \in Terminal
    BY <1>2 DEF Told
  <2>2. told[c] # None
    BY <2>1, NoneAssumption DEF Outcomes
  <2> QED BY <1>1, <2>1, <2>2 DEF Told, CallStays
<1>3. EffectCalls(a) \subseteq EffectCalls(a)' /\ CallsUnder(a, k) \subseteq CallsUnder(a, k)'
      /\ \A c \in EffectCalls(a) : callId'[c] = callId[c]
  BY <1>1 DEF EffectCalls, CallsUnder, CallStays
<1>4. ASSUME IdRepeated(a, k)
      PROVE  IdRepeated(a, k)'
  <2>1. PICK c \in CallsUnder(a, k), d \in EffectCalls(a) : c # d /\ callId[c] = callId[d]
    BY <1>4 DEF IdRepeated
  <2>2. c \in EffectCalls(a)
    BY <2>1 DEF CallsUnder
  <2>3. c \in CallsUnder(a, k)' /\ d \in EffectCalls(a)' /\ callId'[c] = callId'[d]
    BY <1>3, <2>1, <2>2
  <2> QED BY <2>1, <2>3 DEF IdRepeated
<1> QED BY <1>2, <1>4

(* The guard takes a key from the call that holds it only when the agent   *)
(* is told an end, or for a call of the same ID.                           *)
LEMMA AgentKeepsLocks ==
  ASSUME ServiceInv, AgentStep, NEW a \in Agents, NEW k \in Keys,
         ~Told(a, k)', ~IdRepeated(a, k)',
         NEW d \in Past(a, k), d \in Past(a, k)', locks[a][k] = callId[d]
  PROVE  locks'[a][k] = callId[d]
<1>0. /\ ServiceTypes /\ d \in Calls /\ CallFits(d) /\ d \in CallsUnder(a, k)
      /\ request[d] # None /\ request[d].agent = a /\ request[d].key = k
      /\ callId[d] \in CallIds /\ callId[d] # None
      /\ locks \in [Agents -> [Keys -> CallIds \cup {None}]]
  BY NoneAssumption
  DEF ServiceInv, ServiceTypes, Guard, CallFits, Past, CallsUnder, EffectCalls
<1>1. [Next]_vars
  BY DEF Next
<1>2. CallStays(d) /\ d \in CallsUnder(a, k)'
  BY <1>0, <1>1, CallsStay DEF Past
<1>3. ASSUME NEW c \in EffectCalls(a)', callId'[c] = callId[d]
      PROVE  c = d
  BY <1>2, <1>3 DEF IdRepeated, CallStays
<1>4. ASSUME NEW c \in EffectCalls(a), callId[c] = callId[d]
      PROVE  c = d
  <2>1. c \in Calls /\ request[c] # None
    BY DEF EffectCalls
  <2>2. c \in EffectCalls(a)' /\ callId'[c] = callId[c]
    BY <1>1, <2>1, CallsStay DEF EffectCalls, CallStays
  <2> QED BY <1>3, <1>4, <2>2
<1>5. ASSUME UNCHANGED locks PROVE locks'[a][k] = callId[d]
  BY <1>5
<1>6. ASSUME NEW b \in Agents, NEW l \in Keys, NEW i, SetLock(b, l, i), b = a /\ l = k => i = callId[d]
      PROVE  locks'[a][k] = callId[d]
  BY <1>0, <1>6 DEF SetLock
<1>7. ASSUME NEW c \in Calls, NEW r \in profile.requests, AskStatus(c, r)
      PROVE  locks'[a][k] = callId[d]
  BY <1>5, <1>7 DEF AskStatus, guardVars
<1>8. ASSUME NEW c \in Calls, NEW r \in profile.requests, NEW i \in CallIds, PreExecute(c, r, i)
      PROVE  locks'[a][k] = callId[d]
  <2>1. CASE UNCHANGED locks
    BY <1>5, <2>1
  <2>2. CASE locks[r.agent][r.key] \in {None, i} /\ SetLock(r.agent, r.key, i)
    <3>1. r.agent \in Agents /\ r.key \in Keys
      BY <1>0, RequestAssumption DEF ServiceTypes, Asked
    <3>2. r.agent = a /\ r.key = k => i = callId[d]
      BY <1>0, <2>2
    <3> QED BY <1>6, <2>2, <3>1, <3>2
  <2> QED BY <1>8, <2>1, <2>2 DEF PreExecute, guardVars
<1>9. ASSUME NEW c \in Calls, ChainAllows(c)
      PROVE  locks'[a][k] = callId[d]
  BY <1>5, <1>9 DEF ChainAllows, guardVars
<1>10. ASSUME NEW c \in Calls, ChainDenies(c)
       PROVE  locks'[a][k] = callId[d]
  <2>1. /\ stage[c] = "gated" /\ service[c] = "none" /\ stage'[c] = "denied" /\ service'[c] = "none"
        /\ request[c] # None /\ request[c].tool = "effect" /\ callId[c] \in CallIds
    BY <1>0, <1>10 DEF ChainDenies, serviceVars, ServiceInv, ServiceTypes, CallFits
  <2>2. c # d
    BY <2>1 DEF Past
  <2>3. /\ request[c].agent \in Agents
        /\ calls[request[c].agent][callId[c]] \in Keys \cup {None}
    BY <1>0, <2>1, ClaimedKey
  <2>4. CASE UNCHANGED locks
    BY <1>5, <2>4
  <2>5. CASE \E l \in Keys : /\ locks[request[c].agent][l] = callId[c]
                             /\ SetLock(request[c].agent, l, None)
    <3>1. PICK l \in Keys : /\ locks[request[c].agent][l] = callId[c]
                            /\ SetLock(request[c].agent, l, None)
      BY <2>5
    <3>2. ~(request[c].agent = a /\ l = k)
      BY <1>0, <1>4, <2>1, <2>2, <3>1 DEF EffectCalls
    <3> QED BY <1>6, <2>3, <3>1, <3>2
  <2> QED BY <1>10, <2>3, <2>4, <2>5 DEF ChainDenies, ReleaseCall
<1>11. ASSUME NEW c \in Calls, SeeResult(c) \/ SeeDenial(c)
       PROVE  locks'[a][k] = callId[d]
  <2>1. PICK seen : See(c, seen) /\ stage[c] \in {"waiting", "denied"}
    BY <1>11 DEF SeeResult, SeeDenial
  <2>2. /\ request[c] # None /\ told'[c] = seen /\ request' = request
        /\ request[c].tool \in {"effect", "status"}
        /\ request[c].agent \in Agents /\ request[c].key \in Keys
    BY <1>0, <2>1, RequestAssumption DEF See, ServiceInv, ServiceTypes, CallFits
  <2>3. request[c].agent = a /\ request[c].key = k => seen \notin Terminal
    BY <2>2 DEF Told
  <2>4. CASE request[c].tool = "status"
    <3>1. \/ UNCHANGED locks
          \/ seen \in Terminal /\ SetLock(request[c].agent, request[c].key, None)
      BY <2>1, <2>4 DEF See, ObserveResult, ObserveStatus
    <3> QED BY <1>5, <1>6, <2>2, <2>3, <3>1
  <2>5. CASE request[c].tool = "effect"
    <3> DEFINE b == request[c].agent
               l == KeyOf(c)
               i == callId[c]
    <3>1. i \in CallIds /\ l \in Keys
      BY <1>0, <2>2, <2>5, ClaimedKey DEF ServiceInv, CallFits
    <3>2. \/ UNCHANGED locks
          \/ locks[b][l] \in {None, i} /\ SetLock(b, l, IF seen \in Terminal THEN None ELSE i)
      BY <2>1, <2>5 DEF See, ObserveResult, ObserveEffect
    <3> HIDE DEF l
    <3>3. CASE UNCHANGED locks
      BY <1>5, <3>3
    <3>4. CASE locks[b][l] \in {None, i} /\ SetLock(b, l, IF seen \in Terminal THEN None ELSE i)
      <4>1. CASE b = a /\ l = k
        <5>1. i = callId[d]
          BY <1>0, <3>4, <4>1
        <5>2. c = d
          BY <1>4, <2>2, <2>5, <4>1, <5>1 DEF EffectCalls
        <5>3. seen \notin Terminal
          BY <1>0, <2>3, <5>2
        <5> QED BY <1>6, <2>2, <3>1, <3>4, <5>1, <5>3
      <4>2. CASE ~(b = a /\ l = k)
        BY <1>6, <2>2, <3>1, <3>4, <4>2
      <4> QED BY <4>1, <4>2
    <3> QED BY <3>2, <3>3, <3>4
  <2> QED BY <2>2, <2>4, <2>5
<1> QED BY <1>7, <1>8, <1>9, <1>10, <1>11 DEF AgentStep

(* WorkflowInv is inductive. *)
LEMMA GuardInductive == ASSUME WorkflowInv, [Next]_vars PROVE WorkflowInv'
<1>1. ServiceInv /\ ServiceInv'
  BY ServiceInductive DEF WorkflowInv
<1>2. ASSUME NEW a \in Agents, NEW k \in Keys, ~Told(a, k)', ~IdRepeated(a, k)',
             NEW d \in Past(a, k)'
      PROVE  locks'[a][k] = callId'[d]
  <2>1. ~Told(a, k) /\ ~IdRepeated(a, k)
    BY <1>1, <1>2, KnowledgeStays
  <2>2. CASE d \in Past(a, k)
    <3>1. locks[a][k] = callId[d] /\ request[d] # None /\ d \in Calls
      BY <2>1, <2>2 DEF WorkflowInv, GuardHolds, Past, CallsUnder, EffectCalls
    <3>2. callId'[d] = callId[d]
      BY <1>1, <3>1, CallsStay DEF CallStays
    <3>3. CASE AgentStep
      BY <1>1, <1>2, <2>2, <3>1, <3>2, <3>3, AgentKeepsLocks
    <3>4. CASE (\E c \in Calls : Serve(c)) \/ Restart \/ UNCHANGED vars
      <4>1. UNCHANGED locks
        BY <3>4 DEF Serve, Enter, Respond, AppendEffect, Leave, Restart, vars, guardVars
      <4> QED BY <3>1, <3>2, <4>1
    <3> QED BY <3>3, <3>4 DEF Next
  <2>3. CASE d \notin Past(a, k)
    <3>1. PICK i : Passes(a, k, d, i) /\ SetLock(a, k, i)
      BY <1>1, <2>3, PastGrows
    <3>2. locks \in [Agents -> [Keys -> CallIds \cup {None}]]
      BY <1>1 DEF ServiceInv, ServiceTypes, Guard
    <3> QED BY <3>1, <3>2 DEF Passes, SetLock
  <2> QED BY <2>2, <2>3
<1>3. \A a \in Agents, k \in Keys : GuardHolds(a, k)'
  BY <1>2 DEF GuardHolds
<1> QED BY <1>1, <1>3 DEF WorkflowInv

(* An agent gets past its guard a second time under a key only once it     *)
(* knows the end the service has on record, or under a call ID that came   *)
(* twice: NoBlindRetry, the promise of the plugin dal-unknown-effect-guard *)
(* with the exception its code makes, for any IDs the host gives.          *)
THEOREM RetriesAreInformed == Spec => NoBlindRetry
<1>1. ASSUME WorkflowInv, [Next]_vars, NEW a \in Agents, NEW k \in Keys,
             Past(a, k) # {}, ~(Past(a, k)' \subseteq Past(a, k))
      PROVE  Knows(a, k) \/ IdRepeated(a, k)'
  <2>1. ServiceInv
    BY <1>1 DEF WorkflowInv
  <2>2. CASE Told(a, k)
    BY <2>1, <2>2, ToldIsKnown
  <2>3. CASE IdRepeated(a, k)
    BY <1>1, <2>1, <2>3, KnowledgeStays
  <2>4. CASE ~Told(a, k) /\ ~IdRepeated(a, k)
    <3>1. PICK c \in Past(a, k)' : c \notin Past(a, k)
      BY <1>1
    <3>2. PICK i : Passes(a, k, c, i)
      BY <1>1, <2>1, <3>1, PastGrows
    <3>3. PICK d \in Past(a, k) : locks[a][k] = callId[d]
      BY <1>1, <2>4 DEF WorkflowInv, GuardHolds
    <3>4. /\ d \in Calls /\ request[d] # None /\ CallFits(d) /\ request[d].tool = "effect"
          /\ d \in EffectCalls(a) /\ stage[d] # "idle"
      BY <2>1 DEF Past, CallsUnder, EffectCalls, ServiceInv, CallFits
    <3>5. callId[d] # None /\ callId'[d] = callId[d] /\ request'[d] = request[d]
      BY <1>1, <2>1, <3>4, CallsStay, NoneAssumption DEF CallFits, CallStays
    <3>6. callId'[c] = callId'[d] /\ c # d
      BY <3>2, <3>3, <3>4, <3>5 DEF Passes
    <3>7. c \in CallsUnder(a, k)' /\ d \in EffectCalls(a)'
      BY <3>1, <3>4, <3>5 DEF Past, EffectCalls
    <3> QED BY <3>6, <3>7 DEF IdRepeated
  <2> QED BY <2>2, <2>3, <2>4
<1>2. WorkflowInv /\ [Next]_vars =>
        [ \A a \in Agents, k \in Keys :
            Past(a, k) # {} /\ ~(Past(a, k)' \subseteq Past(a, k))
               => Knows(a, k) \/ IdRepeated(a, k)' ]_vars
  BY <1>1
<1>3. Init => WorkflowInv
  BY ServiceStarts
<1>4. WorkflowInv /\ [Next]_vars => WorkflowInv'
  BY GuardInductive
<1> QED BY <1>2, <1>3, <1>4, PTL DEF Spec, NoBlindRetry

-------------------------------------------------------------------------------
(* The evaluator.                                                          *)

(* What f must satisfy to be the function EffectsOf defines, up to m. *)
Replay(s, kind, f, m) ==
  [n \in 0..m |-> IF n = 0 THEN <<>>
                  ELSE IF s[n].outcome = "success" /\ s[n].effect.kind = kind
                       THEN Append(f[n - 1], s[n].effect) ELSE f[n - 1]]

(* There is such a function, up to any length. *)
LEMMA ReplayExists ==
  ASSUME NEW s \in Seq(JournalEntry), NEW kind
  PROVE  \E f : f = Replay(s, kind, f, Len(s))
<1> USE DEF Replay
<1> DEFINE Good(f, m) == f = Replay(s, kind, f, m)
           S == {m \in Nat : \E f : Good(f, m)}
<1>1. 0 \in S
  <2> DEFINE f == [n \in 0..0 |-> <<>>]
  <2>1. Good(f, 0)
    OBVIOUS
  <2> QED BY <2>1
<1>2. ASSUME NEW m \in S
      PROVE  m + 1 \in S
  <2>1. PICK f : Good(f, m)
    OBVIOUS
  <2> DEFINE g == [n \in 0..m + 1 |->
                     IF n # m + 1 THEN f[n]
                     ELSE IF s[n].outcome = "success" /\ s[n].effect.kind = kind
                          THEN Append(f[n - 1], s[n].effect) ELSE f[n - 1]]
  <2>2. m \in Nat /\ \A n \in 0..m : g[n] = f[n]
    OBVIOUS
  <2>3. ASSUME NEW n \in 0..m + 1
        PROVE  g[n] = IF n = 0 THEN <<>>
                      ELSE IF s[n].outcome = "success" /\ s[n].effect.kind = kind
                           THEN Append(g[n - 1], s[n].effect) ELSE g[n - 1]
    <3>1. n # 0 => n - 1 \in 0..m
      BY <2>2
    <3>2. CASE n = m + 1
      BY <2>2, <3>1, <3>2
    <3>3. CASE n # m + 1
      <4>1. n \in 0..m
        BY <2>2, <3>3
      <4>2. f[n] = IF n = 0 THEN <<>>
                   ELSE IF s[n].outcome = "success" /\ s[n].effect.kind = kind
                        THEN Append(f[n - 1], s[n].effect) ELSE f[n - 1]
        BY <2>1, <4>1
      <4> HIDE DEF g
      <4> QED BY <2>2, <3>1, <4>1, <4>2
    <3> QED BY <3>2, <3>3
  <2>4. Good(g, m + 1)
    <3> HIDE DEF g
    <3>1. g = [n \in 0..m + 1 |-> g[n]]
      BY DEF g
    <3> QED BY <2>3, <3>1
  <2> HIDE DEF g, Good
  <2>5. m + 1 \in Nat /\ \E h : Good(h, m + 1)
    BY <2>2, <2>4
  <2> QED BY <2>5
<1>3. S = Nat
  <2> HIDE DEF S
  <2>1. S \in SUBSET Nat
    BY DEF S
  <2> QED BY <1>1, <1>2, <2>1, NumbersInduct
<1>4. Len(s) \in S
  <2> HIDE DEF S
  <2> QED BY <1>3
<1> QED BY <1>4


(* What is replayed are effects of the kind asked for, each allowed by the *)
(* seed.                                                                   *)
LEMMA ReplayedEffects ==
  ASSUME ServiceTypes, JournalFits, NEW kind, NEW i \in DOMAIN EffectsOf(kind)
  PROVE  EffectsOf(kind)[i].kind = kind /\ ~Rejected(EffectsOf(kind)[i])
<1> DEFINE applied == CHOOSE f : f = Replay(journal, kind, f, Len(journal))
           Allowed == {e \in Effects : e.kind = kind /\ ~Rejected(e)}
<1>1. EffectsOf(kind) = applied[Len(journal)]
  BY DEF EffectsOf, Replay
<1>2. applied = Replay(journal, kind, applied, Len(journal))
  BY ReplayExists DEF ServiceTypes
<1>10. PICK f : f = applied
  OBVIOUS
<1>11. f = Replay(journal, kind, f, Len(journal)) /\ EffectsOf(kind) = f[Len(journal)]
  BY <1>1, <1>2, <1>10
<1> HIDE DEF applied
<1> DEFINE S == {n \in Nat : n <= Len(journal) => f[n] \in Seq(Allowed)}
<1>3. Len(journal) \in Nat /\ DOMAIN journal = 1..Len(journal)
  BY DEF ServiceTypes
<1>4. \A n \in 1..Len(journal) : journal[n] \in JournalEntry
  BY DEF ServiceTypes
<1>5. \A n \in 0..Len(journal) :
        f[n] = IF n = 0 THEN <<>>
                     ELSE IF journal[n].outcome = "success" /\ journal[n].effect.kind = kind
                          THEN Append(f[n - 1], journal[n].effect) ELSE f[n - 1]
  BY <1>11 DEF Replay
<1>6. \A n \in 1..Len(journal) :
        journal[n].outcome = "success" /\ journal[n].effect.kind = kind => journal[n].effect \in Allowed
  BY <1>3, <1>4 DEF JournalFits, JournalEntry
<1> HIDE DEF Allowed
<1>7. S = Nat
  <2>1. S \in SUBSET Nat
    OBVIOUS
  <2>2. 0 \in S
    <3>1. f[0] = <<>>
      BY <1>3, <1>5
    <3> QED BY <3>1, EmptySeq
  <2>3. ASSUME NEW n \in S
        PROVE  n + 1 \in S
    <3>1. CASE n + 1 <= Len(journal)
      <4>1. n + 1 \in 0..Len(journal) /\ n + 1 \in 1..Len(journal) /\ n + 1 # 0 /\ (n + 1) - 1 = n
        BY <1>3, <3>1
      <4>2. f[n] \in Seq(Allowed)
        BY <3>1, <1>3
      <4>3. f[n + 1] \in Seq(Allowed)
        <5>1. CASE journal[n + 1].outcome = "success" /\ journal[n + 1].effect.kind = kind
          <6>1. journal[n + 1].effect \in Allowed /\ f[n + 1] = Append(f[n], journal[n + 1].effect)
            BY <1>5, <1>6, <4>1, <5>1
          <6> QED BY <4>2, <6>1, AppendProperties
        <5>2. CASE ~(journal[n + 1].outcome = "success" /\ journal[n + 1].effect.kind = kind)
          BY <1>5, <4>1, <4>2, <5>2
        <5> QED BY <5>1, <5>2
      <4> QED BY <4>3
    <3>2. CASE ~(n + 1 <= Len(journal))
      BY <3>2
    <3> QED BY <3>1, <3>2
  <2> HIDE DEF S
  <2> QED BY <2>1, <2>2, <2>3, NumbersInduct
<1>8. EffectsOf(kind) \in Seq(Allowed)
  <2>1. Len(journal) \in S
    <3> HIDE DEF S
    <3> QED BY <1>3, <1>7
  <2> QED BY <1>3, <1>11, <2>1
<1>9. EffectsOf(kind)[i] \in Allowed
  BY <1>8
<1> QED BY <1>9 DEF Allowed

(* No snapshot is faulted for a refund the service promised to refuse:     *)
(* ServiceKeepsPolicy (service.ts against workflow-grader.ts), for tasks   *)
(* that start from the orders the service was started with.                *)
THEOREM PolicyIsKept ==
  ASSUME \A task \in Tasks : task.totals = Totals
  PROVE  Spec => []ServiceKeepsPolicy
<1>1. ServiceInv => ServiceKeepsPolicy
  <2> SUFFICES ASSUME ServiceInv, NEW task \in Tasks, NEW id \in Verdict(task).failed,
                      id[1] = "policy", id[2] \in {"refund-unknown-order", "refund-exceeds-total"}
               PROVE  FALSE
    BY DEF ServiceKeepsPolicy
  <2>1. PICK check \in G!Checks(task, Snapshot, journal) : check.id = id /\ ~check.pass
    BY DEF Verdict, G!GradeTask
  <2>2. check \in G!PolicyChecks(task, Snapshot)
    <3>1. \A ch \in G!GoalChecks(task, Snapshot) \cup G!EffectChecks(task, journal) : ch.id[1] # "policy"
      BY DEF G!GoalChecks, G!EffectChecks
    <3>2. check.id[1] = "policy"
      BY <2>1
    <3> QED BY <2>1, <3>1, <3>2 DEF G!Checks
  <2>3. PICK i \in DOMAIN Snapshot.refunds :
          \E b \in G!Breaches(task, Snapshot, Snapshot.refunds[i]) : id = <<"policy", b, i>>
    BY <2>1, <2>2 DEF G!PolicyChecks
  <2> DEFINE e == EffectsOf("issue_refund")[i]
             refund == Snapshot.refunds[i]
  <2>4. /\ i \in DOMAIN EffectsOf("issue_refund")
        /\ refund = [order |-> e.order, amount |-> e.amount, reason |-> e.reason]
        /\ DOMAIN Snapshot.orders = DOMAIN Totals
        /\ \A o \in DOMAIN Totals : Snapshot.orders[o].total = G!NoTotal
    BY <2>3 DEF Snapshot
  <2>5. e.kind = "issue_refund" /\ ~Rejected(e)
    BY <2>4, ReplayedEffects DEF ServiceInv
  <2>6. e.order \in DOMAIN Totals /\ ~(e.amount > Totals[e.order])
    BY <2>5 DEF Rejected
  <2>7. refund.order = e.order /\ refund.amount = e.amount
    BY <2>4
  <2>8. G!TotalOf(task, Snapshot, refund.order) = Totals[refund.order]
    BY <2>4, <2>6, <2>7 DEF G!TotalOf
  <2>9. G!Breaches(task, Snapshot, refund) \cap {"refund-unknown-order", "refund-exceeds-total"} = {}
    BY <2>4, <2>6, <2>7, <2>8 DEF G!Breaches
  <2> QED BY <2>3, <2>9
<1>2. Init => ServiceInv
  BY ServiceStarts DEF WorkflowInv
<1>3. ServiceInv /\ [Next]_vars => ServiceInv'
  BY ServiceInductive
<1> QED BY <1>1, <1>2, <1>3, PTL DEF Spec

===============================================================================
