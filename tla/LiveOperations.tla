---------------------------- MODULE LiveOperations ----------------------------
(***************************************************************************)
(* The provider call of the live controller: function call() of            *)
(* src/src/live/loop.ts.  A call owns an operation name.  It checks        *)
(* authority, publishes operations/<name>.intent.json exclusively, checks  *)
(* authority again, hands the request to the driver, and publishes         *)
(* operations/<name>.receipt.json exclusively.  Several callers run at     *)
(* once (the parallel expansions of a discovery batch); any of them may be *)
(* interrupted between two of these steps by a crash of the process.       *)
(***************************************************************************)
EXTENDS Naturals, FiniteSets

CONSTANTS
  Operation,   \* operation names
  Caller,      \* concurrent expansions of one process
  Generation,  \* prompt generations, by digest
  Answer,      \* verified contents of a succeeded receipt
  Failed,      \* the content of a failed receipt
  None,        \* no such file, or no value
  Requests,    \* plan.limits.requests
  Grants       \* the sets of actions that the authority in force may allow

ASSUME CallerAssumption == IsFiniteSet(Caller) /\ Caller # {}
ASSUME OperationAssumption == IsFiniteSet(Operation) /\ None \notin Operation
ASSUME ValueAssumption == /\ Failed \notin Answer
                          /\ None \notin Answer \cup {Failed}
                          /\ None \notin Generation
ASSUME RequestsAssumption == Requests \in Nat \ {0}

GrantAction == {"send_text", "activate_prompt", "rollback_prompt"}

ASSUME GrantAssumption == Grants \subseteq SUBSET GrantAction /\ GrantAction \in Grants

VARIABLES
  intent,   \* intent[o]: generation bound by the published reservation of o, or None
  receipt,  \* receipt[o]: content of the published terminal receipt of o, or None
  granted,  \* actions the grant, the mount decision and the runtime digest allow now
  revoked,  \* revoked.json exists
  call,     \* call[c]: the operation of caller c, its generation and its next step
  sent,     \* history: sent[o] counts the driver invocations for o
  late      \* history: how many driver invocations began after the revocation

opVars == <<intent, receipt, granted, revoked, call, sent, late>>

Step == {"idle", "admit", "reserve", "recheck", "send", "answer", "done", "error"}

Idle == [at |-> "idle", op |-> None, gen |-> None]

(* Mutant: revoked.json is not looked at. *)
AuthorizedUnrevoked(action) == action \in granted

Authorized(action) == action \in granted /\ ~revoked

Reserved == {o \in Operation : intent[o] # None}

OpTypeOK ==
  /\ intent \in [Operation -> Generation \cup {None}]
  /\ receipt \in [Operation -> Answer \cup {Failed, None}]
  /\ granted \subseteq GrantAction
  /\ revoked \in BOOLEAN
  /\ call \in [Caller -> [at : Step, op : Operation \cup {None},
                          gen : Generation \cup {None}]]
  /\ sent \in [Operation -> Nat]
  /\ late \in Nat

OpInit ==
  /\ intent = [o \in Operation |-> None]
  /\ receipt = [o \in Operation |-> None]
  /\ granted = GrantAction
  /\ revoked = FALSE
  /\ call = [c \in Caller |-> Idle]
  /\ sent = [o \in Operation |-> 0]
  /\ late = 0

Goto(c, step) == call' = [call EXCEPT ![c].at = step]

-------------------------------------------------------------------------------
(* A caller takes up an operation.  The lease and the numbering of the     *)
(* operations keep two callers from ever holding the same name at once.    *)
Begin(c, o, g) ==
  /\ call[c].at \in {"idle", "done"}
  /\ \A d \in Caller \ {c} : call[d].op # o
  /\ call' = [call EXCEPT ![c] = [at |-> "admit", op |-> o, gen |-> g]]
  /\ UNCHANGED <<intent, receipt, granted, revoked, sent, late>>

Release(c) ==
  /\ call[c].at \in {"done", "error"}
  /\ call' = [call EXCEPT ![c] = Idle]
  /\ UNCHANGED <<intent, receipt, granted, revoked, sent, late>>

(* Mutant: an operation that failed is run again. *)
AdmissionRetries(o, g) ==
  IF ~Authorized("send_text") THEN "error"
  ELSE IF intent[o] # None /\ receipt[o] # Failed
       THEN IF intent[o] = g /\ receipt[o] \in Answer THEN "done" ELSE "error"
       ELSE IF Cardinality(Reserved) < Requests THEN "reserve" ELSE "error"

(* Mutant: the reservations are not counted against the grant. *)
AdmissionUncounted(o, g) ==
  IF ~Authorized("send_text") THEN "error"
  ELSE IF intent[o] # None
       THEN IF intent[o] = g /\ receipt[o] \in Answer THEN "done" ELSE "error"
       ELSE "reserve"

(* The code of a reservation that is found on the disk: a receipt of the   *)
(* same generation is reused, everything else stops the caller.            *)
Admission(o, g) ==
  IF ~Authorized("send_text") THEN "error"
  ELSE IF intent[o] # None
       THEN IF intent[o] = g /\ receipt[o] \in Answer THEN "done" ELSE "error"
       ELSE IF Cardinality(Reserved) < Requests THEN "reserve" ELSE "error"

Admit(c) ==
  /\ call[c].at = "admit"
  /\ Goto(c, Admission(call[c].op, call[c].gen))
  /\ UNCHANGED <<intent, receipt, granted, revoked, sent, late>>

(* immutable(): the first publication wins, an equal one is accepted. *)
Reserve(c) ==
  /\ call[c].at = "reserve"
  /\ LET o == call[c].op
         g == call[c].gen
     IN  /\ intent' = IF intent[o] = None THEN [intent EXCEPT ![o] = g] ELSE intent
         /\ Goto(c, IF intent[o] \in {None, g} THEN "recheck" ELSE "error")
  /\ UNCHANGED <<receipt, granted, revoked, sent, late>>

(* The second authority check.  Its failure leaves the reservation without *)
(* a receipt for ever.                                                     *)
Recheck(c) ==
  /\ call[c].at = "recheck"
  /\ Goto(c, IF Authorized("send_text") THEN "send" ELSE "error")
  /\ UNCHANGED <<intent, receipt, granted, revoked, sent, late>>

Send(c) ==
  /\ call[c].at = "send"
  /\ sent' = [sent EXCEPT ![call[c].op] = @ + 1]
  /\ late' = IF revoked THEN late + 1 ELSE late
  /\ Goto(c, "answer")
  /\ UNCHANGED <<intent, receipt, granted, revoked>>

(* A usable reply gets a succeeded receipt; a timeout, an oversized or a   *)
(* malformed reply a failed one.  A receipt that cannot be published at    *)
(* all leaves the operation pending.                                       *)
Settle(c, answer) ==
  /\ call[c].at = "answer"
  /\ LET o == call[c].op
     IN  /\ receipt' = IF receipt[o] = None THEN [receipt EXCEPT ![o] = answer] ELSE receipt
         /\ Goto(c, IF answer \in Answer /\ receipt[o] \in {None, answer}
                    THEN "done" ELSE "error")
  /\ UNCHANGED <<intent, granted, revoked, sent, late>>

Unrecorded(c) ==
  /\ call[c].at = "answer"
  /\ Goto(c, "error")
  /\ UNCHANGED <<intent, receipt, granted, revoked, sent, late>>

(* The process dies: every caller's place in its call is lost, the files   *)
(* and what the provider already received are not.                         *)
OpCrash ==
  /\ call' = [c \in Caller |-> Idle]
  /\ UNCHANGED <<intent, receipt, granted, revoked, sent, late>>

(* revokeLive() takes no lease: it may fall between any two steps. *)
Revoke ==
  /\ ~revoked
  /\ revoked' = TRUE
  /\ UNCHANGED <<intent, receipt, granted, call, sent, late>>

(* The grant or the mount decision expires, or the runtime digest drifts;  *)
(* the operator supplies another grant for a later command.                *)
Regrant(actions) ==
  /\ actions # granted
  /\ granted' = actions
  /\ UNCHANGED <<intent, receipt, revoked, call, sent, late>>

CallStep(c, replies) ==
  \/ Admit(c)
  \/ Reserve(c)
  \/ Recheck(c)
  \/ Send(c)
  \/ \E answer \in replies : Settle(c, answer)
  \/ Unrecorded(c)

OpNext ==
  \/ \E c \in Caller : \/ \E o \in Operation, g \in Generation : Begin(c, o, g)
                       \/ CallStep(c, Answer \cup {Failed})
                       \/ Release(c)
  \/ OpCrash
  \/ Revoke
  \/ \E actions \in Grants : Regrant(actions)

OpSpec == OpInit /\ [][OpNext]_opVars

-------------------------------------------------------------------------------
(* No operation is handed to the provider twice: not by two callers, not   *)
(* by a restart that finds a reservation without a receipt.                *)
AtMostOnceSend == \A o \in Operation : sent[o] <= 1

(* A request leaves only under a durable reservation, and a receipt exists *)
(* only for a request that left: what is on the disk explains every send.  *)
SendsAreRecorded ==
  \A o \in Operation : /\ sent[o] > 0 => intent[o] # None
                       /\ receipt[o] # None => sent[o] > 0

(* The budget test counts the reservations before it publishes its own, so *)
(* concurrent callers can pass it together: it overshoots by at most one   *)
(* reservation per other caller.                                           *)
ReservationBound == Cardinality(Reserved) < Requests + Cardinality(Caller)

(* Revocation stops new calls: what still leaves after revoked.json exists *)
(* had passed its second authority check before, one request per caller.   *)
RevocationBound == late <= Cardinality(Caller)

(* A reservation and a receipt are final. *)
OperationsAreFinal ==
  [][\A o \in Operation : /\ intent[o] # None => intent'[o] = intent[o]
                          /\ receipt[o] # None => receipt'[o] = receipt[o]]_opVars

Ledger == INSTANCE EffectLedger WITH
            Effect  <- Operation,
            Outcome <- Answer \cup {Failed},
            Open    <- None,
            claimed <- Reserved,
            outcome <- receipt

(* Every behaviour of the call protocol is one of the effect ledger. *)
LedgerSpec == Ledger!Spec
===============================================================================
