----------------------------- MODULE EffectSagas -----------------------------
(* Sagas (saga.ts) and admissions (admission.ts).  Both are two files: an  *)
(* intent and the receipt of what came of it; a challenge with a fresh     *)
(* nonce and the receipt of the probe that answered it.  Probes run        *)
(* outside; what they report is a file that anybody may present later.     *)
EXTENDS EvidenceStore

CONSTANTS SagaIds, Payloads, AdmissionIds, Candidates,
          OldResults    \* of other challenges: from another store, or from before a reset

Intent(i) == <<"sagas", i, "intent">>
SagaReceipt(i) == <<"sagas", i, "receipt">>
Challenge(i) == <<"admissions", i, "challenge">>
AdmissionReceipt(i) == <<"admissions", i, "receipt">>

Begin(c, i, payload) ==
    /\ Start(c, Command("saga", "publish", Intent(i), payload, None))
    /\ UNCHANGED <<files, outside>>

Complete(c, i, outcome) ==
    /\ Start(c, IF Has(Intent(i)) THEN Command("saga", "publish", SagaReceipt(i), outcome, None)
                ELSE Refused("saga"))
    /\ UNCHANGED <<files, outside>>

Issue(c, i, candidate) ==
    /\ Start(c, Command("admission", "publish", Challenge(i), [candidate |-> candidate, nonce |-> made], None))
    /\ UNCHANGED <<files, outside>>

(* A probe of the candidate reports on the challenge it was given.         *)
Probe(i, outcome) ==
    /\ Has(Challenge(i))
    /\ outside' = [outside EXCEPT !.results = @ \cup
         {[admission |-> i, candidate |-> files[Challenge(i)].candidate,
           nonce |-> files[Challenge(i)].nonce, outcome |-> outcome]}]
    /\ UNCHANGED <<files, call, made>>

(* Mutant: the nonce is not compared. *)
AnswersStale(result, i) == result.admission = i /\ result.candidate = files[Challenge(i)].candidate

Answers(result, i) ==
    /\ result.admission = i
    /\ result.nonce = files[Challenge(i)].nonce
    /\ result.candidate = files[Challenge(i)].candidate

(* The receipt names the challenge, and the result by its digest.          *)
AnsweredBy(result, i) ==
    [admission |-> i, candidate |-> files[Challenge(i)].candidate, nonce |-> files[Challenge(i)].nonce,
     outcome |-> result.outcome, result |-> result]

CompleteAdmission(c, i, result) ==
    /\ Start(c, IF Has(Challenge(i)) /\ Answers(result, i)
                THEN Command("admission", "publish", AdmissionReceipt(i), AnsweredBy(result, i), None)
                ELSE Refused("admission"))
    /\ UNCHANGED <<files, outside>>

(* beginSaga and completeSaga compare everything but the time; a challenge *)
(* is the same whatever its nonce, a receipt whatever its time.            *)
SameSaga(old, new) == old = new
SameAdmission(old, new) ==
    IF "outcome" \in DOMAIN old THEN old = new ELSE old.candidate = new.candidate

SagaState(i) == IF ~Has(Intent(i)) THEN "unknown"
                ELSE IF ~Has(SagaReceipt(i)) THEN "pending" ELSE files[SagaReceipt(i)]
AdmissionState(i) == IF ~Has(Challenge(i)) THEN "unknown"
                     ELSE IF ~Has(AdmissionReceipt(i)) THEN "pending"
                     ELSE files[AdmissionReceipt(i)].outcome

SagaNext ==
    \/ \E c \in Caller, i \in SagaIds :
         \/ \E payload \in Payloads : Begin(c, i, payload)
         \/ \E outcome \in {"completed", "failed"} : Complete(c, i, outcome)
    \/ \E c \in Caller : call[c].op = "saga" /\ Compare(c, SameSaga(Found(c), call[c].want))

AdmissionNext ==
    \/ \E c \in Caller, i \in AdmissionIds :
         \/ \E candidate \in Candidates : Issue(c, i, candidate)
         \/ \E result \in outside.results : CompleteAdmission(c, i, result)
    \/ \E i \in AdmissionIds, outcome \in {"passed", "failed"} : Probe(i, outcome)
    \/ \E c \in Caller : call[c].op = "admission" /\ Compare(c, SameAdmission(Found(c), call[c].want))

(* A receipt has its intent, and an admission is known as passed or failed *)
(* only if a probe that was given this very challenge said so, whoever     *)
(* else issues, probes and completes, and whatever old results there are.  *)
ReceiptsAnswer(i) ==
    /\ i \in SagaIds /\ SagaState(i) = "unknown" => ~Has(SagaReceipt(i))
    /\ i \in AdmissionIds /\ AdmissionState(i) \notin {"unknown", "pending"} =>
         LET result == files[AdmissionReceipt(i)].result
             challenge == files[Challenge(i)]
         IN  /\ result \in outside.results /\ result.outcome = AdmissionState(i)
             /\ result.admission = i /\ result.nonce = challenge.nonce /\ result.candidate = challenge.candidate
=============================================================================
