----------------------------- MODULE ModelGateway -----------------------------
(***************************************************************************)
(* The spend gateway of src/src/e2e-model-gateway.ts over the ledger of    *)
(* ProposalBudget.  Every POST is handled concurrently by one process: it  *)
(* is admitted, reserved, sent once, and its outcome is written to an      *)
(* exclusive file; a failure is queued for one of a few diagnostic slots.  *)
(* A timer, a disconnect or a shutdown may abort it at any moment, and the *)
(* process may die at any moment.                                          *)
(***************************************************************************)
EXTENDS ProposalBudget

CONSTANTS
  Handler,      \* requests the gateway handles at the same time
  PolicyCap,    \* policy.provider_limit_microusd
  Slots,        \* diagnostic slots: 32
  MaxRequests,  \* bound of the model: POSTs that arrive
  MaxCrashes    \* bound of the model: gateway processes that die

ASSUME GatewayAssumption ==
  /\ Writer = Handler /\ PolicyCap \in Cap
  /\ Slots \in Nat /\ MaxRequests \in Nat /\ MaxCrashes \in Nat
ASSUME OutcomeAssumption == None \notin {"completed", "failed_or_partial"}

QueueLimit == Slots + 1

VARIABLES
  handler,    \* handler[h]: the request of handler h and its step
  unhealthy,  \* an outcome or a diagnostic could not be persisted
  outcome,    \* gateway-outcomes/: outcome[r], or None
  slots,      \* gateway-failures/: diagnostic files in use
  marker,     \* ... and the overflow marker
  queued,     \* queuedDiagnostics
  dropped,    \* droppedCount
  lossy,      \* persistenceFailure
  sent,       \* history: sent[r] counts the upstream calls for r
  answered,   \* history: requests whose complete answer went to the client
  failures,   \* history: failures this process knows of, and those it found
  arrived, crashes   \* history: POSTs and crashes so far

processVars == <<unhealthy, queued, dropped, lossy, failures>>
diskVars == <<outcome, slots, marker>>
pastVars == <<sent, answered, arrived, crashes>>
vars == <<budgetVars, handler, processVars, diskVars, pastVars>>

NoPost == [at |-> "idle", request |-> None, aborted |-> FALSE, completed |-> FALSE,
           reserved |-> FALSE, behind |-> 0]

Init ==
  /\ BudgetInit
  /\ handler = [h \in Handler |-> NoPost]
  /\ unhealthy = FALSE /\ queued = 0 /\ dropped = 0 /\ lossy = FALSE
  /\ outcome = [r \in Request |-> None] /\ slots = 0 /\ marker = FALSE
  /\ sent = [r \in Request |-> 0] /\ answered = {}
  /\ failures = 0 /\ arrived = 0 /\ crashes = 0

Step(h, at) == handler' = [handler EXCEPT ![h].at = at]

(* Mutant: one job less than there are slots and marker may wait. *)
EnqueueShort(h, post) ==
  /\ failures' = failures + 1
  /\ IF queued >= Slots
     THEN dropped' = dropped + 1 /\ UNCHANGED queued
     ELSE queued' = queued + 1 /\ UNCHANGED dropped
  /\ handler' = [handler EXCEPT ![h] = [post EXCEPT !.behind = queued']]

(* recordFailure: a job is queued, or dropped when too many wait already;  *)
(* either way the handler waits for everything that is queued by now.      *)
Enqueue(h, post) ==
  /\ failures' = failures + 1
  /\ IF queued >= QueueLimit
     THEN dropped' = dropped + 1 /\ UNCHANGED queued
     ELSE queued' = queued + 1 /\ UNCHANGED dropped
  /\ handler' = [handler EXCEPT ![h] = [post EXCEPT !.behind = queued']]

Failing(h, reserved) ==
  /\ Enqueue(h, [handler[h] EXCEPT !.at = "diagnose", !.reserved = reserved])
  /\ UNCHANGED <<unhealthy, lossy>>

(* One job of the queue: a free slot, or the marker once all are taken.    *)
Drain ==
  /\ queued > 0
  /\ queued' = queued - 1
  /\ handler' = [h \in Handler |-> [handler[h] EXCEPT !.behind = IF @ > 0 THEN @ - 1 ELSE 0]]
  /\ \/ /\ slots < Slots
        /\ slots' = slots + 1
        /\ UNCHANGED <<marker, dropped, unhealthy, lossy>>
     \/ /\ slots = Slots
        /\ marker' = TRUE /\ dropped' = dropped + 1
        /\ UNCHANGED <<slots, unhealthy, lossy>>
     \/ /\ unhealthy' = TRUE /\ lossy' = TRUE
        /\ dropped' = IF slots = Slots THEN dropped + 1 ELSE dropped
        /\ slots' \in {slots, IF slots < Slots THEN slots + 1 ELSE slots}
        /\ marker' \in {marker, marker \/ slots = Slots}
  /\ UNCHANGED <<budgetVars, failures, outcome, pastVars>>

-------------------------------------------------------------------------------
(* A POST arrives: refused while unhealthy, or with a wrong capability.    *)
Arrive(h, r) ==
  /\ handler[h].at = "idle" /\ arrived < MaxRequests
  /\ arrived' = arrived + 1
  /\ \/ /\ ~unhealthy
        /\ handler' = [handler EXCEPT ![h] = [NoPost EXCEPT !.at = "body", !.request = r]]
        /\ UNCHANGED processVars
     \/ Failing(h, FALSE)
  /\ UNCHANGED <<budgetVars, diskVars, sent, answered, crashes>>

(* Mutant: the timer is cleared once the request has been sent. *)
AbortBefore(h) ==
  /\ handler[h].at \in {"body", "reserve"} /\ ~handler[h].aborted
  /\ handler' = [handler EXCEPT ![h].aborted = TRUE]
  /\ UNCHANGED <<budgetVars, processVars, diskVars, pastVars>>

(* The timer, the client or a shutdown.                                    *)
Abort(h) ==
  /\ handler[h].at \in {"body", "reserve", "upstream"} /\ ~handler[h].aborted
  /\ handler' = [handler EXCEPT ![h].aborted = TRUE]
  /\ UNCHANGED <<budgetVars, processVars, diskVars, pastVars>>

(* The body is complete and admitted: the reservation begins. *)
Admit(h) ==
  /\ handler[h].at = "body"
  /\ \/ /\ ~handler[h].aborted /\ Cost[handler[h].request] <= PolicyCap
        /\ Begin(h, "reserve", handler[h].request, PolicyCap)
        /\ Step(h, "reserve")
        /\ UNCHANGED processVars
     \/ Failing(h, FALSE) /\ UNCHANGED budgetVars
  /\ UNCHANGED <<diskVars, pastVars>>

(* Mutant: the result of the reservation is not awaited. *)
SendEager(h) ==
  /\ handler[h].at = "reserve" /\ proc[h].at \in {"create", "fill", "unlock", "done"}
  /\ LET r == handler[h].request
     IN  /\ sent' = [sent EXCEPT ![r] = @ + 1]
         /\ handler' = [handler EXCEPT ![h].at = "upstream", ![h].reserved = TRUE]
  /\ UNCHANGED <<budgetVars, processVars, diskVars, answered, arrived, crashes>>

(* Reserved, not aborted, and with a key: the request leaves at once.      *)
Send(h) ==
  /\ handler[h].at = "reserve" /\ proc[h].at = "done"
  /\ proc[h].result = "ok" /\ ~handler[h].aborted
  /\ Leave(h)
  /\ LET r == handler[h].request
     IN  /\ sent' = [sent EXCEPT ![r] = @ + 1]
         /\ handler' = [handler EXCEPT ![h].at = "upstream", ![h].reserved = TRUE]
  /\ UNCHANGED <<processVars, diskVars, answered, arrived, crashes>>

(* The reservation failed, or the request was aborted or has no key.       *)
Refuse(h) ==
  /\ handler[h].at = "reserve" /\ proc[h].at = "done"
  /\ Leave(h)
  /\ Failing(h, proc[h].result = "ok")
  /\ UNCHANGED <<diskVars, pastVars>>

(* The whole answer was read, accepted and passed on. *)
Complete(h) ==
  /\ handler[h].at = "upstream" /\ ~handler[h].aborted
  /\ handler' = [handler EXCEPT ![h].at = "persist", ![h].completed = TRUE]
  /\ answered' = answered \cup {handler[h].request}
  /\ UNCHANGED <<budgetVars, processVars, diskVars, sent, arrived, crashes>>

(* The provider refuses, breaks off or answers something unusable. *)
Break(h) ==
  /\ handler[h].at = "upstream" /\ ~handler[h].aborted
  /\ Failing(h, TRUE)
  /\ UNCHANGED <<budgetVars, diskVars, pastVars>>

(* Promise.race with the abort: nobody waits for the provider any longer.  *)
Cancel(h) ==
  /\ handler[h].at = "upstream" /\ handler[h].aborted
  /\ Failing(h, TRUE)
  /\ UNCHANGED <<budgetVars, diskVars, pastVars>>

(* The client is told, then the outcome of a reserved request is written.  *)
Diagnosed(h) ==
  /\ handler[h].at = "diagnose" /\ handler[h].behind = 0
  /\ IF handler[h].reserved THEN Step(h, "persist")
     ELSE handler' = [handler EXCEPT ![h] = NoPost]
  /\ UNCHANGED <<budgetVars, processVars, diskVars, pastVars>>

(* Mutant: everything that was sent counts as completed. *)
PersistSent(h) ==
  /\ handler[h].at = "persist"
  /\ LET r == handler[h].request
     IN  outcome' = [outcome EXCEPT ![r] = IF sent[r] > 0 THEN "completed" ELSE "failed_or_partial"]
  /\ handler' = [handler EXCEPT ![h] = NoPost]
  /\ UNCHANGED <<budgetVars, processVars, slots, marker, pastVars>>

(* The file is created exclusively, and may be complete though it failed.  *)
Recorded(h) ==
  [outcome EXCEPT ![handler[h].request] =
     IF @ # None THEN @ ELSE IF handler[h].completed THEN "completed" ELSE "failed_or_partial"]

Persist(h) ==
  /\ handler[h].at = "persist"
  /\ \/ /\ outcome[handler[h].request] = None
        /\ outcome' = Recorded(h)
        /\ handler' = [handler EXCEPT ![h] = NoPost]
        /\ UNCHANGED processVars
     \/ /\ unhealthy' = TRUE
        /\ Enqueue(h, [handler[h] EXCEPT !.at = "conclude"])
        /\ outcome' \in {outcome, Recorded(h)}
        /\ UNCHANGED lossy
  /\ UNCHANGED <<budgetVars, slots, marker, pastVars>>

Concluded(h) ==
  /\ handler[h].at = "conclude" /\ handler[h].behind = 0
  /\ handler' = [handler EXCEPT ![h] = NoPost]
  /\ UNCHANGED <<budgetVars, processVars, diskVars, pastVars>>

(* The gateway dies and is started again over the same ledger: what it     *)
(* counted is lost, the marker alone says that something was dropped.      *)
Crash ==
  /\ crashes < MaxCrashes
  /\ crashes' = crashes + 1
  /\ Die(Handler)
  /\ handler' = [h \in Handler |-> NoPost]
  /\ unhealthy' = FALSE /\ queued' = 0 /\ lossy' = FALSE
  /\ dropped' = IF marker THEN 1 ELSE 0
  /\ failures' = slots + dropped'
  /\ UNCHANGED <<diskVars, sent, answered, arrived>>

(* The ledger's own steps. *)
Elsewhere == UNCHANGED <<handler, processVars, diskVars, pastVars>>
LedgerStep(w) == Proceed(w) /\ Elsewhere
LedgerFails(w) == IOFails(w) /\ Elsewhere

Handle(h) ==
  \/ Admit(h) \/ Send(h) \/ Refuse(h) \/ Complete(h) \/ Break(h) \/ Cancel(h)
  \/ Diagnosed(h) \/ Persist(h) \/ Concluded(h)

Next ==
  \/ \E h \in Handler : (\E r \in Request : Arrive(h, r)) \/ Abort(h) \/ Handle(h)
  \/ \E w \in Writer : LedgerStep(w) \/ LedgerFails(w)
  \/ Drain \/ Crash

Spec == Init /\ [][Next]_vars

(* The event loop runs every handler on, file operations end, and the      *)
(* timer of policy.timeout_ms fires; the provider need not answer.         *)
FairSpec ==
  /\ Spec
  /\ WF_vars(Drain)
  /\ \A h \in Handler : /\ WF_vars(Abort(h))
                        /\ WF_vars(Admit(h) \/ Send(h) \/ Refuse(h) \/ Cancel(h)
                                   \/ Diagnosed(h) \/ Persist(h) \/ Concluded(h))
  /\ \A w \in Writer : WF_vars(LedgerStep(w))

-------------------------------------------------------------------------------
(* An outcome file tells the truth: completed exactly if the whole answer  *)
(* went to the client, and never about a request that was not charged.     *)
OutcomeIsTrue ==
  \A r \in Request : /\ outcome[r] = "completed" => r \in answered
                     /\ outcome[r] = "failed_or_partial" => r \notin answered
                     /\ outcome[r] # None => r \in Requests(Tip)

(* No failure vanishes: it has a slot, waits for one, or is counted as     *)
(* dropped, unless persisting one failed, which the receipt says.  And     *)
(* "after restart the overflow marker supplies a conservative lower bound  *)
(* of one": whatever was dropped, the marker is on the disk once the queue *)
(* has been worked off, also when it was the queue that overflowed.        *)
FailuresAccounted ==
  ~lossy => /\ slots + queued + dropped = failures
            /\ queued = 0 /\ dropped > 0 => marker

(* Every request ends: neither a provider that never answers nor the queue *)
(* of diagnostics holds a handler up.                                      *)
RequestsEnd == \A h \in Handler : handler[h].at # "idle" ~> handler[h].at = "idle"

(* A request reaches the provider at most once, after it was charged for   *)
(* good and within the cap, whatever retries, aborts and restarts.         *)
Promise ==
  INSTANCE SpendCap WITH
    limit    <- IF files = {} THEN 0 ELSE Limit(Tip),
    charged  <- Requests(Tip),
    approved <- {},
    sent     <- {r \in Request : sent[r] > 0}
SpendCapSpec == Promise!Spec /\ [][\A r \in Request : sent'[r] <= 1]_vars
===============================================================================
