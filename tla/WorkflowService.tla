--------------------------- MODULE WorkflowService ---------------------------
(***************************************************************************)
(* The order and booking service of the workflow benchmark (service.ts,    *)
(* server.ts, client.ts) and the guard that stands between the agents'     *)
(* tool calls and it (plugin dal-unknown-effect-guard).                    *)
(*                                                                         *)
(* The service owns an append-only journal of attempted effects.  Calls    *)
(* are served one at a time; a call reads the whole journal, decides, and  *)
(* appends at most one entry.  The fault profile makes some kinds of       *)
(* effect end "unknown"; a status query then appends how they really       *)
(* ended.  The guard keeps, for each agent, the idempotency keys whose     *)
(* effect has no known end, and denies a second call under such a key,     *)
(* unless it comes with the call ID that holds the key.                    *)
(*                                                                         *)
(* A call carries: the agent, the tool ("effect" or "status"), the key and *)
(* the effect; an effect call also the ID its host gave it, which the next *)
(* turn of the agent may use again.  Answers are outcomes, "absent" (no    *)
(* such effect) or "error" (whatever is thrown: a conflict, a damaged      *)
(* journal, a cut connection).                                             *)
(***************************************************************************)
EXTENDS Integers, Sequences, FiniteSets

CONSTANTS Agents, Keys,
          Totals,      \* seed: the total of every order that exists
          Bookings,    \* seed: the bookings that exist and have not departed
          Profiles,    \* what the service is started with (faults and resolutions
                       \* of every kind), what the agents may ask of it, and bounds:
                       \* how many calls they make and how often the service dies
          CallIds,     \* the IDs the host gives to tool calls, again if it likes
          MaxCalls,    \* bound: tool calls, numbered in the order they are made
          None

Calls == 1..MaxCalls
Kinds == {"issue_refund", "create_return_label", "change_booking", "refuse_request"}
Terminal == {"success", "definite_failure"}
Outcomes == Terminal \cup {"unknown"}
Asked == UNION {p.requests : p \in Profiles}
Effects == {r.effect : r \in {q \in Asked : q.tool = "effect"}}

ASSUME ProfileAssumption ==
    \A p \in Profiles : /\ p.faults \in [Kinds -> Outcomes]
                        /\ p.resolutions \in [Kinds -> Terminal \cup {None}]
                        /\ p.calls \in Calls /\ p.restarts \in Nat
ASSUME RequestAssumption ==
    /\ \A r \in Asked : r.agent \in Agents /\ r.key \in Keys /\ r.tool \in {"effect", "status"}
    /\ \A e \in Effects : e.kind \in Kinds
ASSUME NoneAssumption ==
    /\ None \notin Asked
    /\ None \notin Calls
    /\ None \notin Keys \cup CallIds
    /\ None \notin Outcomes \cup {"absent", "error"}
    /\ None \notin [seq : Nat, key : Keys, effect : Effects, outcome : Outcomes]

VARIABLES profile,   \* faults and resolutions of this service, and its agents' requests
          journal,   \* the entries after the seed
          torn,      \* the file ends in a partial entry
          running,   \* the call the service works on
          crashes,
          request,   \* what a call asks for
          stage,     \* the call at the agent: idle, gated, waiting, denied, done
          service,   \* the call at the service: none, queued, inside, over
          work,      \* what the call inside has decided
          reply,     \* the answer the service gave
          callId,    \* the ID of an effect call
          told,      \* what the agent saw of a call: an answer, or an error
          locks,     \* the guard: per agent and key, the call ID that holds it
          calls      \* the guard: per agent and call ID, the key it was claimed for

serviceVars == <<profile, journal, torn, running, crashes, service, work, reply>>
agentVars == <<request, callId, told>>
guardVars == <<locks, calls>>
vars == <<serviceVars, agentVars, guardVars, stage>>

(***************************************************************************)
(* The journal.  Whether an operation is rejected depends on the seed      *)
(* only: refunds, labels and route changes never remove an order or make   *)
(* a booking depart.                                                       *)
(***************************************************************************)
Rejected(e) ==
    \/ e.kind = "issue_refund" /\ e.order \notin DOMAIN Totals
    \/ e.kind = "issue_refund" /\ e.order \in DOMAIN Totals /\ e.amount > Totals[e.order]
    \/ e.kind = "create_return_label" /\ e.order \notin DOMAIN Totals
    \/ e.kind = "change_booking" /\ e.booking \notin Bookings

Loads ==
    /\ ~torn
    /\ \A i \in DOMAIN journal :
         /\ journal[i].seq = i
         /\ journal[i].outcome = "success" => ~Rejected(journal[i].effect)

EntriesOf(k) == {i \in DOMAIN journal : journal[i].key = k}
Latest(k) == journal[CHOOSE i \in EntriesOf(k) : \A j \in EntriesOf(k) : j <= i]

\* a trial run of an operation that is to succeed
Trial(outcome, e) == IF outcome = "success" /\ Rejected(e) THEN "definite_failure" ELSE outcome

Entry(k, e, outcome) == [seq |-> Len(journal) + 1, key |-> k, effect |-> e, outcome |-> outcome]
Answer(outcome) == [entry |-> None, answer |-> outcome]
Record(entry) == [entry |-> entry, answer |-> entry.outcome]

(* Mutant: an effect whose end is unknown is tried again.                 *)
PerformEffectAgain(k, e) ==
    IF EntriesOf(k) # {} /\ Latest(k).outcome = "success"
    THEN Answer(IF Latest(k).effect = e THEN Latest(k).outcome ELSE "error")
    ELSE Record(Entry(k, e, Trial(profile.faults[e.kind], e)))

PerformEffect(k, e) ==
    IF EntriesOf(k) # {}
    THEN Answer(IF Latest(k).effect = e THEN Latest(k).outcome ELSE "error")
    ELSE Record(Entry(k, e, Trial(profile.faults[e.kind], e)))

(* Mutant: a resolution to success is recorded without a trial run.       *)
GetEffectStatusUntried(k) ==
    IF EntriesOf(k) = {} THEN Answer("absent")
    ELSE LET old == Latest(k)
             resolution == profile.resolutions[old.effect.kind]
         IN IF old.outcome # "unknown" \/ resolution = None
            THEN Answer(old.outcome)
            ELSE Record(Entry(k, old.effect, resolution))

GetEffectStatus(k) ==
    IF EntriesOf(k) = {} THEN Answer("absent")
    ELSE LET old == Latest(k)
             resolution == profile.resolutions[old.effect.kind]
         IN IF old.outcome # "unknown" \/ resolution = None
            THEN Answer(old.outcome)
            ELSE Record(Entry(k, old.effect, Trial(resolution, old.effect)))

Decide(c) ==
    IF ~Loads THEN Answer("error")
    ELSE IF request[c].tool = "status" THEN GetEffectStatus(request[c].key)
    ELSE PerformEffect(request[c].key, request[c].effect)

(***************************************************************************)
(* The guard.  Its message tells an effect in flight from an unknown one;  *)
(* nothing else does.                                                      *)
(***************************************************************************)
SetLock(a, k, holder) == locks' = [locks EXCEPT ![a][k] = holder]
Forget(a, i) == calls' = [calls EXCEPT ![a][i] = None]

\* releaseCall: whichever key was claimed last under the ID of the call
ReleaseCall(c) ==
    LET a == request[c].agent
        i == callId[c]
        k == calls[a][i]
    IN /\ Forget(a, i)
       /\ IF k # None /\ locks[a][k] = i THEN SetLock(a, k, None) ELSE UNCHANGED locks

ObserveStatus(a, k, seen) ==
    /\ IF seen \in Terminal THEN SetLock(a, k, None) ELSE UNCHANGED locks
    /\ UNCHANGED calls

ObserveEffect(a, k, i, seen) ==
    /\ Forget(a, i)
    /\ IF locks[a][k] \notin {None, i} THEN UNCHANGED locks
       ELSE SetLock(a, k, IF seen \in Terminal THEN None ELSE i)

KeyOf(c) ==
    LET k == calls[request[c].agent][callId[c]]
    IN  IF k # None THEN k ELSE request[c].key

(* Mutant: any status that is found releases the key.                     *)
ObserveResultFound(c, seen) ==
    LET a == request[c].agent
    IN IF request[c].tool = "status"
       THEN /\ IF seen \in Outcomes THEN SetLock(a, request[c].key, None) ELSE UNCHANGED locks
            /\ UNCHANGED calls
       ELSE ObserveEffect(a, KeyOf(c), callId[c], seen)

\* observeResult: what the guard makes of the answer the agent sees
ObserveResult(c, seen) ==
    LET a == request[c].agent
    IN IF request[c].tool = "status" THEN ObserveStatus(a, request[c].key, seen)
       ELSE ObserveEffect(a, KeyOf(c), callId[c], seen)

Asks(c, r) ==
    /\ stage[c] = "idle" /\ c <= profile.calls
    /\ \A d \in 1..c - 1 : stage[d] # "idle"
    /\ request' = [request EXCEPT ![c] = r]

Dispatch(c) ==
    /\ stage' = [stage EXCEPT ![c] = "waiting"]
    /\ service' = [service EXCEPT ![c] = "queued"]

\* preExecute of an effect tool: claim the key before anything is awaited;
\* the ID that holds a key may claim it again
PreExecute(c, r, i) ==
    /\ Asks(c, r) /\ r.tool = "effect"
    /\ callId' = [callId EXCEPT ![c] = i]
    /\ \/ /\ locks[r.agent][r.key] \in {None, i}
          /\ SetLock(r.agent, r.key, i)
          /\ calls' = [calls EXCEPT ![r.agent][i] = r.key]
          /\ stage' = [stage EXCEPT ![c] = "gated"]
       \/ /\ locks[r.agent][r.key] \notin {None, i}
          /\ stage' = [stage EXCEPT ![c] = "denied"]
          /\ UNCHANGED guardVars
    /\ UNCHANGED <<serviceVars, told>>

\* the other tools are not gated; of these only the status query matters here
AskStatus(c, r) ==
    /\ Asks(c, r) /\ r.tool = "status"
    /\ Dispatch(c)
    /\ UNCHANGED <<profile, journal, torn, running, crashes, work, reply, callId, told, guardVars>>

\* the other listeners of the hook allow the call ...
ChainAllows(c) ==
    /\ stage[c] = "gated"
    /\ Dispatch(c)
    /\ UNCHANGED <<profile, journal, torn, running, crashes, work, reply, agentVars, guardVars>>

\* ... or deny it, or throw
ChainDenies(c) ==
    /\ stage[c] = "gated"
    /\ stage' = [stage EXCEPT ![c] = "denied"]
    /\ ReleaseCall(c)
    /\ UNCHANGED <<serviceVars, agentVars>>

\* the agent and the guard see the outcome of a call
See(c, seen) ==
    /\ stage' = [stage EXCEPT ![c] = "done"]
    /\ told' = [told EXCEPT ![c] = seen]
    /\ ObserveResult(c, seen)
    /\ UNCHANGED <<serviceVars, request, callId>>

\* the service's answer, or that the connection was cut, whatever the service
\* does with the call
SeeResult(c) ==
    /\ stage[c] = "waiting"
    /\ See(c, "error") \/ (service[c] = "over" /\ See(c, reply[c]))

\* the host may report a denied call as one that failed
SeeDenial(c) == stage[c] = "denied" /\ See(c, "error")

(***************************************************************************)
(* The service.                                                            *)
(***************************************************************************)
Enter(c) ==
    /\ service[c] = "queued"
    /\ running = None
    /\ running' = c
    /\ service' = [service EXCEPT ![c] = "inside"]
    /\ work' = [work EXCEPT ![c] = Decide(c)]
    /\ UNCHANGED <<profile, journal, torn, crashes, reply, agentVars, guardVars, stage>>

\* serialized lets the next call in whether the operation returned or threw
Leave(c, answer) ==
    /\ running' = None
    /\ service' = [service EXCEPT ![c] = "over"]
    /\ work' = [work EXCEPT ![c] = None]
    /\ reply' = [reply EXCEPT ![c] = answer]
    /\ UNCHANGED <<profile, crashes, agentVars, guardVars, stage>>

Respond(c) ==
    /\ service[c] = "inside"
    /\ work[c].entry = None
    /\ Leave(c, work[c].answer)
    /\ UNCHANGED <<journal, torn>>

\* writeFile and sync: both succeed, or sync fails after the entry is in the
\* file, or the entry is cut off
AppendEffect(c) ==
    /\ service[c] = "inside"
    /\ work[c].entry # None
    /\ \/ /\ journal' = Append(journal, work[c].entry)
          /\ Leave(c, work[c].answer)
          /\ UNCHANGED torn
       \/ /\ journal' = Append(journal, work[c].entry)
          /\ Leave(c, "error")
          /\ UNCHANGED torn
       \/ /\ torn' = TRUE
          /\ Leave(c, "error")
          /\ UNCHANGED journal

\* the process dies with the calls it has, and is started on the same journal
Restart ==
    /\ crashes < profile.restarts
    /\ crashes' = crashes + 1
    /\ running' = None
    /\ LET active == {c \in Calls : service[c] \in {"queued", "inside"}}
       IN /\ service' = [c \in Calls |-> IF c \in active THEN "over" ELSE service[c]]
          /\ reply' = [c \in Calls |-> IF c \in active THEN "error" ELSE reply[c]]
          /\ work' = [c \in Calls |-> IF c \in active THEN None ELSE work[c]]
    /\ UNCHANGED <<profile, journal, torn, agentVars, guardVars, stage>>

Init ==
    /\ profile \in Profiles
    /\ journal = <<>> /\ torn = FALSE /\ running = None /\ crashes = 0
    /\ request = [c \in Calls |-> None]
    /\ stage = [c \in Calls |-> "idle"]
    /\ service = [c \in Calls |-> "none"]
    /\ work = [c \in Calls |-> None]
    /\ reply = [c \in Calls |-> None]
    /\ callId = [c \in Calls |-> None]
    /\ told = [c \in Calls |-> None]
    /\ locks = [a \in Agents |-> [k \in Keys |-> None]]
    /\ calls = [a \in Agents |-> [i \in CallIds |-> None]]

AgentStep ==
    \/ \E c \in Calls, r \in profile.requests :
         AskStatus(c, r) \/ \E i \in CallIds : PreExecute(c, r, i)
    \/ \E c \in Calls : ChainAllows(c) \/ ChainDenies(c) \/ SeeResult(c) \/ SeeDenial(c)
Serve(c) == Enter(c) \/ Respond(c) \/ AppendEffect(c)

Next == AgentStep \/ (\E c \in Calls : Serve(c)) \/ Restart

Spec == Init /\ [][Next]_vars

-----------------------------------------------------------------------------
(***************************************************************************)
(* Properties.                                                             *)
(***************************************************************************)
(* Every success in the journal can be replayed on the seed, and what was  *)
(* answered is what the journal says of that key, of that very effect: an  *)
(* answer with an end is the end, whichever calls, retries, status queries *)
(* and restarts came between.                                              *)
AnswersAreTrue ==
    /\ ~torn => Loads
    /\ \A c \in Calls : reply[c] \in Outcomes =>
         /\ EntriesOf(request[c].key) # {}
         /\ reply[c] \in Terminal => reply[c] = Latest(request[c].key).outcome
         /\ request[c].tool = "effect" => request[c].effect = Latest(request[c].key).effect

(* A key stands for one effect, whose end is final, and which is applied   *)
(* at most once; a damaged journal is never written to again.              *)
OutcomesStand ==
    [][ /\ \A k \in Keys : EntriesOf(k) # {} =>
             /\ Latest(k)'.effect = Latest(k).effect
             /\ Latest(k).outcome \in Terminal => EntriesOf(k)' = EntriesOf(k)
        /\ torn => UNCHANGED <<torn, journal>> ]_vars

(* The effect calls of an agent, those under a key, and the ones of these  *)
(* that are past the guard.                                                *)
EffectCalls(a) == {c \in Calls : /\ request[c] # None
                                 /\ request[c].tool = "effect" /\ request[c].agent = a}
CallsUnder(a, k) == {c \in EffectCalls(a) : request[c].key = k}
Past(a, k) == {c \in CallsUnder(a, k) : stage[c] = "gated" \/ service[c] # "none"}

(* An agent knows how an effect ended: it was told so, by the effect call  *)
(* itself or by a status query, and the service has it on record.          *)
Knows(a, k) == \E c \in Calls : /\ request[c] # None
                                /\ request[c].agent = a /\ request[c].key = k
                                /\ told[c] \in Terminal
                                /\ EntriesOf(k) # {} /\ told[c] = Latest(k).outcome

(* The host gave an effect call under the key the ID of another one.       *)
IdRepeated(a, k) == \E c \in CallsUnder(a, k), d \in EffectCalls(a) :
                      c # d /\ callId[c] = callId[d]

(* An agent passes the guard a second time under a key only once it knows  *)
(* how the effect ended, or under a call ID that came twice.               *)
NoBlindRetry ==
    [][ \A a \in Agents, k \in Keys :
          Past(a, k) # {} /\ ~(Past(a, k)' \subseteq Past(a, k))
             => Knows(a, k) \/ IdRepeated(a, k)' ]_vars

(* The same without the exception.  The code does not give this: the guard *)
(* lets the call ID that holds a key pass again, and takes the claim back  *)
(* when such a call is denied by another listener.                         *)
RetriesAskFirst ==
    [][ \A a \in Agents, k \in Keys :
          Past(a, k) # {} /\ ~(Past(a, k)' \subseteq Past(a, k)) => Knows(a, k) ]_vars
=============================================================================
