------------------------- MODULE LiveCampaign_proofs -------------------------
(***************************************************************************)
(* The live campaign, for any plan, cases, policy, parallelism, reviewers  *)
(* and tasks, and any number of crashes.                                   *)
(*                                                                         *)
(* First the call protocol by itself, for any callers, operations and      *)
(* grants: CallInv is its inductive invariant.  Then the campaign over it: *)
(* CampaignInv says of every snapshot on the disk that the receipts back   *)
(* what it claims (Holds), and of the command in progress, with its        *)
(* chains, where it stands, what it has reserved and what it has graded so *)
(* far.  How long the history is and how far the pointer lags is counted   *)
(* beside it (Lasting).                                                    *)
(* One lemma per action shows that the action keeps it, and what the       *)
(* campaign promises, its four properties of safety, the search that can   *)
(* be replayed, and the protocols it implements, follow from it.           *)
(***************************************************************************)
EXTENDS LiveCampaign, FiniteSums, SequenceTheorems

(* Two callers never hold the same operation. *)
OneHolder == \A c, d \in Caller : c # d /\ call[c].op # None => call[c].op # call[d].op

(* What a caller may rely on at each of its steps: the reservation is its  *)
(* own and fresh, and the request has not left before it reaches "answer". *)
CallerKnows(c) ==
  LET o == call[c].op
      step == call[c].at
  IN  /\ step # "idle" => o \in Operation /\ call[c].gen \in Generation
      /\ step = "reserve" => intent[o] = None /\ sent[o] = 0 /\ receipt[o] = None
      /\ step \in {"recheck", "send"} =>
           intent[o] = call[c].gen /\ sent[o] = 0 /\ receipt[o] = None
      /\ step = "answer" => sent[o] = 1 /\ receipt[o] = None

CallInv ==
  /\ OpTypeOK
  /\ OneHolder
  /\ \A c \in Caller : CallerKnows(c)
  /\ AtMostOnceSend
  /\ SendsAreRecorded

-------------------------------------------------------------------------------
(* An idle caller claims nothing. *)
LEMMA IdleCaller ==
  ASSUME NEW c \in Caller, call[c] = Idle
  PROVE  call[c].op = None /\ CallerKnows(c)
BY DEF CallerKnows, Idle

(* Nothing is claimed, sent or recorded at first. *)
LEMMA CallInvInit == OpInit => CallInv
<1> SUFFICES ASSUME OpInit PROVE CallInv
  OBVIOUS
<1>1. OpTypeOK
  BY DEF OpInit, OpTypeOK, Idle, Step
<1>2. \A c \in Caller : call[c].op = None /\ CallerKnows(c)
  BY IdleCaller DEF OpInit
<1>3. AtMostOnceSend /\ SendsAreRecorded
  BY DEF OpInit, AtMostOnceSend, SendsAreRecorded
<1> QED BY <1>1, <1>2, <1>3 DEF CallInv, OneHolder

(* A caller that moves on without touching a file or the provider. *)
LEMMA CallInvMove ==
  ASSUME CallInv, NEW c \in Caller, NEW step \in Step, Goto(c, step),
         UNCHANGED <<intent, receipt, granted, revoked, sent, late>>,
         call[c].at # "idle",
         CallerKnows(c)'
  PROVE  CallInv'
<1>1. call' \in [Caller -> [at : Step, op : Operation \cup {None}, gen : Generation \cup {None}]]
  BY DEF Goto, CallInv, OpTypeOK
<1>2. \A d \in Caller : call'[d].op = call[d].op /\ (d # c => call'[d] = call[d])
  BY DEF Goto, CallInv, OpTypeOK
<1>3. OneHolder'
  BY <1>2 DEF CallInv, OneHolder
<1>4. \A d \in Caller : CallerKnows(d)'
  BY <1>2 DEF CallInv, CallerKnows
<1> QED
  BY <1>1, <1>3, <1>4 DEF CallInv, OpTypeOK, AtMostOnceSend, SendsAreRecorded

(* A caller that changes what is known of the operation it holds. *)
LEMMA CallInvHold ==
  ASSUME CallInv, NEW c \in Caller, NEW step \in Step, Goto(c, step),
         call[c].at # "idle",
         OpTypeOK',
         CallerKnows(c)',
         \A o \in Operation \ {call[c].op} :
            intent'[o] = intent[o] /\ receipt'[o] = receipt[o] /\ sent'[o] = sent[o],
         sent'[call[c].op] <= 1,
         sent'[call[c].op] > 0 => intent'[call[c].op] # None,
         receipt'[call[c].op] # None => sent'[call[c].op] > 0
  PROVE  CallInv'
<1>1. \A d \in Caller : call'[d].op = call[d].op /\ (d # c => call'[d] = call[d])
  BY DEF Goto, CallInv, OpTypeOK
<1>2. OneHolder'
  BY <1>1 DEF CallInv, OneHolder
<1>3. call[c].op \in Operation /\ call[c].op # None
  BY OperationAssumption DEF CallInv, CallerKnows
<1>4. ASSUME NEW d \in Caller \ {c} PROVE CallerKnows(d)'
  <2>1. call'[d] = call[d] /\ CallerKnows(d)
    BY <1>1 DEF CallInv
  <2>2. call[d].at # "idle" => call[d].op \in Operation \ {call[c].op}
    BY <1>3, <2>1 DEF CallInv, OneHolder, CallerKnows
  <2> QED BY <2>1, <2>2 DEF CallerKnows
<1>5. AtMostOnceSend' /\ SendsAreRecorded'
  BY DEF CallInv, AtMostOnceSend, SendsAreRecorded
<1> QED BY <1>2, <1>4, <1>5 DEF CallInv

(* A call that begins claims nothing yet. *)
LEMMA CallInvBegin ==
  ASSUME CallInv, NEW c \in Caller, NEW o \in Operation, NEW g \in Generation, Begin(c, o, g)
  PROVE  CallInv'
<1>1. /\ call'[c] = [at |-> "admit", op |-> o, gen |-> g]
      /\ \A d \in Caller \ {c} : call'[d] = call[d] /\ call[d].op # o
      /\ UNCHANGED <<intent, receipt, granted, revoked, sent, late>>
      /\ OpTypeOK'
  BY DEF Begin, CallInv, OpTypeOK, Step
<1>2. OneHolder'
  BY <1>1 DEF CallInv, OneHolder
<1>3. \A d \in Caller : CallerKnows(d)'
  BY <1>1 DEF CallInv, CallerKnows
<1> QED BY <1>1, <1>2, <1>3 DEF CallInv, AtMostOnceSend, SendsAreRecorded

(* A call that ended claims nothing any more. *)
LEMMA CallInvRelease ==
  ASSUME CallInv, NEW c \in Caller, Release(c) PROVE CallInv'
<1>1. /\ call'[c] = Idle
      /\ \A d \in Caller \ {c} : call'[d] = call[d]
      /\ UNCHANGED <<intent, receipt, granted, revoked, sent, late>>
      /\ OpTypeOK'
  BY DEF Release, CallInv, OpTypeOK, Step, Idle
<1>2. OneHolder'
  BY <1>1 DEF CallInv, OneHolder, Idle
<1>3. \A d \in Caller : CallerKnows(d)'
  BY <1>1 DEF CallInv, CallerKnows, Idle
<1> QED BY <1>1, <1>2, <1>3 DEF CallInv, AtMostOnceSend, SendsAreRecorded

(* A name that is not reserved has not been sent and has no receipt. *)
LEMMA UnreservedIsFresh ==
  ASSUME CallInv, NEW o \in Operation, intent[o] = None
  PROVE  sent[o] = 0 /\ receipt[o] = None
BY DEF CallInv, OpTypeOK, SendsAreRecorded

(* Admission reads the disk and writes nothing. *)
LEMMA CallInvAdmit == ASSUME CallInv, NEW c \in Caller, Admit(c) PROVE CallInv'
<1> DEFINE o == call[c].op
           step == Admission(o, call[c].gen)
<1>1. call[c].at # "idle" /\ o \in Operation /\ call[c].gen \in Generation
  BY DEF Admit, CallInv, CallerKnows
<1>2. step \in {"error", "done", "reserve"}
  BY DEF Admission
<1>3. step = "reserve" => intent[o] = None /\ sent[o] = 0 /\ receipt[o] = None
  BY <1>1, UnreservedIsFresh DEF Admission
<1>4. call'[c] = [call[c] EXCEPT !.at = step]
  BY DEF Admit, Goto, CallInv, OpTypeOK
<1>5. call'[c].at = step /\ call'[c].op = o /\ call'[c].gen = call[c].gen
  BY <1>4 DEF CallInv, OpTypeOK
<1>6. CallerKnows(c)'
  BY <1>1, <1>2, <1>3, <1>5 DEF Admit, CallerKnows
<1> QED
  <2>1. Goto(c, step) /\ UNCHANGED <<intent, receipt, granted, revoked, sent, late>>
    BY DEF Admit
  <2>2. step \in Step
    BY <1>2 DEF Step
  <2> QED BY <1>1, <1>6, <2>1, <2>2, CallInvMove

(* Of several callers one publishes the intent, and only it goes on. *)
LEMMA CallInvReserve == ASSUME CallInv, NEW c \in Caller, Reserve(c) PROVE CallInv'
<1> DEFINE o == call[c].op
           g == call[c].gen
<1>1. /\ call[c].at # "idle" /\ o \in Operation /\ g \in Generation
      /\ intent[o] = None /\ sent[o] = 0 /\ receipt[o] = None
  BY DEF Reserve, CallInv, CallerKnows
<1>2. /\ intent' = [intent EXCEPT ![o] = g] /\ Goto(c, "recheck")
      /\ UNCHANGED <<receipt, granted, revoked, sent, late>>
  BY <1>1 DEF Reserve
<1>3. OpTypeOK'
  BY <1>1, <1>2 DEF CallInv, OpTypeOK, Goto, Step
<1>4. CallerKnows(c)'
  BY <1>1, <1>2 DEF CallInv, OpTypeOK, CallerKnows, Goto
<1>5. \A p \in Operation \ {o} :
        intent'[p] = intent[p] /\ receipt'[p] = receipt[p] /\ sent'[p] = sent[p]
  BY <1>2 DEF CallInv, OpTypeOK
<1>6. sent'[o] = 0 /\ receipt'[o] = None
  BY <1>1, <1>2
<1> QED BY <1>1, <1>2, <1>3, <1>4, <1>5, <1>6, CallInvHold DEF Step

(* The second look at the authority keeps the claim. *)
LEMMA CallInvRecheck == ASSUME CallInv, NEW c \in Caller, Recheck(c) PROVE CallInv'
<1> DEFINE step == IF Authorized("send_text") THEN "send" ELSE "error"
<1>1. /\ call[c].at # "idle" /\ step \in Step /\ Goto(c, step)
      /\ UNCHANGED <<intent, receipt, granted, revoked, sent, late>>
  BY DEF Recheck, Step
<1>2. CallerKnows(c)'
  BY <1>1 DEF Recheck, CallInv, OpTypeOK, CallerKnows, Goto
<1> QED BY <1>1, <1>2, CallInvMove

(* Only the caller with the claim sends, and once. *)
LEMMA CallInvSend == ASSUME CallInv, NEW c \in Caller, Send(c) PROVE CallInv'
<1> DEFINE o == call[c].op
<1>1. /\ call[c].at # "idle" /\ o \in Operation /\ call[c].gen \in Generation
      /\ intent[o] = call[c].gen /\ sent[o] = 0 /\ receipt[o] = None
  BY DEF Send, CallInv, CallerKnows
<1>2. /\ sent' = [sent EXCEPT ![o] = 1] /\ Goto(c, "answer")
      /\ UNCHANGED <<intent, receipt, granted, revoked>>
      /\ late' \in Nat
  BY <1>1 DEF Send, CallInv, OpTypeOK
<1>3. OpTypeOK'
  BY <1>1, <1>2 DEF CallInv, OpTypeOK, Goto, Step
<1>4. CallerKnows(c)'
  BY <1>1, <1>2 DEF CallInv, OpTypeOK, CallerKnows, Goto
<1>5. \A p \in Operation \ {o} :
        intent'[p] = intent[p] /\ receipt'[p] = receipt[p] /\ sent'[p] = sent[p]
  BY <1>2 DEF CallInv, OpTypeOK
<1>6. sent'[o] = 1 /\ intent'[o] # None
  BY <1>1, <1>2, ValueAssumption DEF CallInv, OpTypeOK
<1> QED BY <1>1, <1>2, <1>3, <1>4, <1>5, <1>6, CallInvHold DEF Step

(* The receipt is that of the request that left. *)
LEMMA CallInvSettle ==
  ASSUME CallInv, NEW c \in Caller, NEW answer \in Answer \cup {Failed}, Settle(c, answer)
  PROVE  CallInv'
<1> DEFINE o == call[c].op
           step == IF answer \in Answer THEN "done" ELSE "error"
<1>1. /\ call[c].at # "idle" /\ o \in Operation /\ call[c].gen \in Generation
      /\ sent[o] = 1 /\ receipt[o] = None
  BY DEF Settle, CallInv, CallerKnows
<1>2. /\ receipt' = [receipt EXCEPT ![o] = answer] /\ Goto(c, step) /\ step \in Step
      /\ UNCHANGED <<intent, granted, revoked, sent, late>>
  BY <1>1 DEF Settle, Step
<1>3. OpTypeOK'
  BY <1>1, <1>2 DEF CallInv, OpTypeOK, Goto
<1>4. CallerKnows(c)'
  BY <1>1, <1>2 DEF CallInv, OpTypeOK, CallerKnows, Goto
<1>5. \A p \in Operation \ {o} :
        intent'[p] = intent[p] /\ receipt'[p] = receipt[p] /\ sent'[p] = sent[p]
  BY <1>2 DEF CallInv, OpTypeOK
<1>6. sent'[o] = 1 /\ intent'[o] # None
  BY <1>1, <1>2 DEF CallInv, SendsAreRecorded
<1> QED BY <1>1, <1>2, <1>3, <1>4, <1>5, <1>6, CallInvHold

(* A call that fails to record leaves its request without a receipt. *)
LEMMA CallInvUnrecorded == ASSUME CallInv, NEW c \in Caller, Unrecorded(c) PROVE CallInv'
<1>1. /\ call[c].at # "idle" /\ "error" \in Step /\ Goto(c, "error")
      /\ UNCHANGED <<intent, receipt, granted, revoked, sent, late>>
  BY DEF Unrecorded, Step
<1>2. CallerKnows(c)'
  BY <1>1 DEF CallInv, OpTypeOK, CallerKnows, Goto
<1> QED BY <1>1, <1>2, CallInvMove

(* A crash forgets the callers and nothing that is on the disk. *)
LEMMA CallInvCrash == ASSUME CallInv, OpCrash PROVE CallInv'
<1>1. OpTypeOK'
  BY DEF OpCrash, CallInv, OpTypeOK, Idle, Step
<1>2. \A c \in Caller : call'[c].op = None /\ CallerKnows(c)'
  BY DEF OpCrash, CallerKnows, Idle
<1>3. AtMostOnceSend' /\ SendsAreRecorded'
  BY DEF OpCrash, CallInv, AtMostOnceSend, SendsAreRecorded
<1> QED BY <1>1, <1>2, <1>3 DEF CallInv, OneHolder

(* Changes of the authority leave calls and files alone. *)
LEMMA CallInvAuthority ==
  ASSUME CallInv, Revoke \/ \E actions \in Grants : Regrant(actions)
  PROVE  CallInv'
<1>1. UNCHANGED <<intent, receipt, call, sent, late>>
  BY DEF Revoke, Regrant
<1>2. granted' \subseteq GrantAction
  BY GrantAssumption DEF Revoke, Regrant, CallInv, OpTypeOK
<1>3. revoked' \in BOOLEAN
  BY DEF Revoke, Regrant, CallInv, OpTypeOK
<1>4. OpTypeOK'
  BY <1>1, <1>2, <1>3 DEF CallInv, OpTypeOK
<1> QED
  BY <1>1, <1>4 DEF CallInv, OneHolder, CallerKnows, AtMostOnceSend, SendsAreRecorded

(* Every step keeps what callers know of the disk. *)
LEMMA CallInvNext == CallInv /\ [OpNext]_opVars => CallInv'
<1> SUFFICES ASSUME CallInv, [OpNext]_opVars PROVE CallInv'
  OBVIOUS
<1>1. CASE \E c \in Caller, o \in Operation, g \in Generation : Begin(c, o, g)
  BY <1>1, CallInvBegin
<1>2. CASE \E c \in Caller : CallStep(c, Answer \cup {Failed})
  BY <1>2, CallInvAdmit, CallInvReserve, CallInvRecheck, CallInvSend, CallInvSettle,
     CallInvUnrecorded DEF CallStep
<1>3. CASE \E c \in Caller : Release(c)
  BY <1>3, CallInvRelease
<1>4. CASE OpCrash
  BY <1>4, CallInvCrash
<1>5. CASE Revoke \/ \E actions \in Grants : Regrant(actions)
  BY <1>5, CallInvAuthority
<1>6. CASE UNCHANGED opVars
  BY <1>6 DEF opVars, CallInv, OpTypeOK, OneHolder, CallerKnows, AtMostOnceSend, SendsAreRecorded
<1> QED BY <1>1, <1>2, <1>3, <1>4, <1>5, <1>6 DEF OpNext

(* The invariant of the call protocol. *)
LEMMA CallInvInductive == OpSpec => []CallInv
BY CallInvInit, CallInvNext, PTL DEF OpSpec

-------------------------------------------------------------------------------
(* The variables of the call protocol stay in their types. *)
THEOREM OperationTypes == OpSpec => []OpTypeOK
BY CallInvInductive, PTL DEF CallInv

(* No operation reaches the provider twice, however callers interleave and *)
(* wherever the process dies between reservation, request and receipt.     *)
THEOREM RequestsLeaveOnce == OpSpec => []AtMostOnceSend
BY CallInvInductive, PTL DEF CallInv

(* Every request that left is reserved on the disk, every receipt is of a  *)
(* request that left.                                                      *)
THEOREM DiskExplainsSends == OpSpec => []SendsAreRecorded
BY CallInvInductive, PTL DEF CallInv

(* No step replaces a reservation or a receipt that is published. *)
KeepsFiles == \A o \in Operation : /\ intent[o] # None => intent'[o] = intent[o]
                                   /\ receipt[o] # None => receipt'[o] = receipt[o]

LEMMA FilesStay == ASSUME CallInv, [OpNext]_opVars PROVE KeepsFiles
<1> USE DEF KeepsFiles
<1>1. ASSUME NEW c \in Caller, Reserve(c) PROVE KeepsFiles
  BY <1>1 DEF Reserve, CallInv, OpTypeOK
<1>2. ASSUME NEW c \in Caller, NEW answer \in Answer \cup {Failed}, Settle(c, answer)
      PROVE  KeepsFiles
  BY <1>2 DEF Settle, CallInv, OpTypeOK
<1>3. CASE UNCHANGED <<intent, receipt>>
  BY <1>3
<1>4. CASE UNCHANGED opVars
  BY <1>4 DEF opVars
<1> QED
  BY <1>1, <1>2, <1>3, <1>4 DEF OpNext, CallStep, Begin, Release, Admit, Recheck, Send, Unrecorded,
                                OpCrash, Revoke, Regrant

(* No file of a call is replaced, whatever callers, crashes and restarts do. *)
THEOREM FilesAreFinal == OpSpec => OperationsAreFinal
<1>1. CallInv /\ [OpNext]_opVars => [KeepsFiles]_opVars
  BY FilesStay
<1> QED BY <1>1, CallInvInductive, PTL DEF OpSpec, OperationsAreFinal, KeepsFiles

-------------------------------------------------------------------------------
(* Callers at one step, counted. *)
CallersAt(step) == {c \in Caller : call[c].at = step}

(* The callers at a step are finitely many. *)
LEMMA CallersAtFinite == ASSUME NEW step
                         PROVE  /\ IsFiniteSet(CallersAt(step))
                                /\ Cardinality(CallersAt(step)) \in Nat
                                /\ Cardinality(Caller) \in Nat
                                /\ Cardinality(CallersAt(step)) <= Cardinality(Caller)
BY CallerAssumption, FS_Subset, FS_CardinalityType DEF CallersAt

(* The reservations are finitely many. *)
LEMMA ReservedFinite == IsFiniteSet(Reserved) /\ Cardinality(Reserved) \in Nat
BY OperationAssumption, FS_Subset, FS_CardinalityType DEF Reserved

(* Caller c moves from one step to another, and no other caller moves. *)
Moves(c, from, to) ==
  call[c].at = from /\ \A d \in Caller : call'[d].at = IF d = c THEN to ELSE call[d].at

(* A caller that moves on is one less where it was. *)
LEMMA CallersMove ==
  ASSUME NEW from, NEW to, NEW c \in Caller, Moves(c, from, to), NEW step
  PROVE  /\ step # to => Cardinality(CallersAt(step)') <= Cardinality(CallersAt(step))
         /\ step = from /\ step # to =>
              Cardinality(CallersAt(step)') = Cardinality(CallersAt(step)) - 1
<1>1. step # to => CallersAt(step)' = CallersAt(step) \ (IF step = from THEN {c} ELSE {})
  BY DEF CallersAt, Moves
<1>2. ASSUME step = from, step # to
      PROVE  Cardinality(CallersAt(step)') = Cardinality(CallersAt(step)) - 1
  <2>1. CallersAt(step)' = CallersAt(step) \ {c} /\ c \in CallersAt(step)
    BY <1>1, <1>2 DEF CallersAt, Moves
  <2> QED BY <2>1, CallersAtFinite, FS_RemoveElement
<1>3. ASSUME step # from, step # to
      PROVE  Cardinality(CallersAt(step)') = Cardinality(CallersAt(step))
  BY <1>1, <1>3
<1> QED BY <1>2, <1>3, CallersAtFinite

(* There are never more callers at a step than callers. *)
LEMMA CallersAtBounded == ASSUME NEW step
                          PROVE  /\ Cardinality(CallersAt(step)') \in Nat
                                 /\ Cardinality(CallersAt(step)') <= Cardinality(Caller)
<1>1. CallersAt(step)' \subseteq Caller
  BY DEF CallersAt
<1> QED BY <1>1, CallerAssumption, FS_Subset, FS_CardinalityType

(* What every step of the protocol does to the callers. *)
LEMMA StepsMove ==
  ASSUME OpTypeOK, NEW c \in Caller
  PROVE  /\ \A o \in Operation, g \in Generation :
              Begin(c, o, g) => Moves(c, call[c].at, "admit")
         /\ Release(c) => Moves(c, call[c].at, "idle")
         /\ \A to : Goto(c, to) => Moves(c, call[c].at, to)
BY DEF Begin, Release, Goto, OpTypeOK, Idle, Moves

(* After a crash nobody is between the check and the file. *)
LEMMA CrashEmpties == ASSUME OpTypeOK, OpCrash, NEW step \in {"reserve", "send"}
                      PROVE  Cardinality(CallersAt(step)') = 0
<1>1. CallersAt(step)' = {}
  BY DEF OpCrash, CallersAt, Idle
<1> QED BY <1>1, FS_EmptySet

-------------------------------------------------------------------------------
(* Each caller past the budget test may still add one reservation.         *)
BudgetInv ==
  Cardinality(Reserved) + Cardinality(CallersAt("reserve")) < Requests + Cardinality(Caller)

(* Nothing is reserved at first. *)
LEMMA BudgetInvInit == OpInit => BudgetInv
<1> SUFFICES ASSUME OpInit PROVE BudgetInv
  OBVIOUS
<1>1. Reserved = {} /\ CallersAt("reserve") = {}
  BY DEF OpInit, Reserved, CallersAt, Idle
<1> QED BY <1>1, FS_EmptySet, CallersAtFinite, RequestsAssumption DEF BudgetInv

(* A reservation is one caller less who may still reserve. *)
LEMMA BudgetInvReserve == ASSUME CallInv, BudgetInv, NEW c \in Caller, Reserve(c)
                          PROVE  BudgetInv'
<1> DEFINE o == call[c].op
<1>1. /\ intent' = [intent EXCEPT ![o] = call[c].gen] /\ Goto(c, "recheck")
      /\ o \in Operation /\ intent[o] = None /\ call[c].gen # None
      /\ call[c].at = "reserve"
  BY ValueAssumption DEF Reserve, CallInv, CallerKnows
<1>2. Reserved' = Reserved \cup {o} /\ o \notin Reserved
  BY <1>1 DEF Reserved, CallInv, OpTypeOK
<1>3. Cardinality(Reserved') = Cardinality(Reserved) + 1
  BY <1>2, ReservedFinite, FS_AddElement
<1>4. Cardinality(CallersAt("reserve")') = Cardinality(CallersAt("reserve")) - 1
  BY <1>1, StepsMove, CallersMove DEF CallInv
<1> QED BY <1>3, <1>4, ReservedFinite, CallersAtFinite, RequestsAssumption DEF BudgetInv

(* A caller is admitted while the limit is not reached. *)
LEMMA BudgetInvAdmit == ASSUME CallInv, BudgetInv, NEW c \in Caller, Admit(c)
                        PROVE  BudgetInv'
<1> DEFINE step == Admission(call[c].op, call[c].gen)
<1>1. Reserved' = Reserved /\ Goto(c, step)
  BY DEF Admit, Reserved
<1>2. CASE step = "reserve"
  BY <1>1, <1>2, CallersAtBounded, CallersAtFinite, ReservedFinite, RequestsAssumption
  DEF BudgetInv, Admission
<1>3. CASE step # "reserve"
  <2>1. Cardinality(CallersAt("reserve")') <= Cardinality(CallersAt("reserve"))
    BY <1>1, <1>3, StepsMove, CallersMove DEF CallInv
  <2> QED BY <1>1, <2>1, CallersAtBounded, CallersAtFinite, ReservedFinite, RequestsAssumption
          DEF BudgetInv
<1> QED BY <1>2, <1>3

(* Other steps reserve nothing and admit nobody. *)
LEMMA BudgetInvOther ==
  ASSUME CallInv, BudgetInv, UNCHANGED intent,
         Cardinality(CallersAt("reserve")') <= Cardinality(CallersAt("reserve"))
  PROVE  BudgetInv'
<1>1. Reserved' = Reserved
  BY DEF Reserved
<1> QED BY <1>1, CallersAtBounded, CallersAtFinite, ReservedFinite, RequestsAssumption
        DEF BudgetInv

(* Every step keeps the bound on the reservations. *)
LEMMA BudgetInvNext == CallInv /\ BudgetInv /\ [OpNext]_opVars => BudgetInv'
<1> SUFFICES ASSUME CallInv, BudgetInv, [OpNext]_opVars PROVE BudgetInv'
  OBVIOUS
<1>1. ASSUME NEW c \in Caller, Admit(c) PROVE BudgetInv'
  BY <1>1, BudgetInvAdmit
<1>2. ASSUME NEW c \in Caller, Reserve(c) PROVE BudgetInv'
  BY <1>2, BudgetInvReserve
<1>3. ASSUME NEW c \in Caller, NEW to, to # "reserve", Moves(c, call[c].at, to),
             UNCHANGED intent
      PROVE  BudgetInv'
  BY <1>3, CallersMove, BudgetInvOther
<1>4. ASSUME NEW c \in Caller, NEW o \in Operation, NEW g \in Generation, Begin(c, o, g)
      PROVE  BudgetInv'
  BY <1>3, <1>4, StepsMove DEF Begin, CallInv
<1>5. ASSUME NEW c \in Caller, Release(c) PROVE BudgetInv'
  BY <1>3, <1>5, StepsMove DEF Release, CallInv
<1>6. ASSUME NEW c \in Caller, Recheck(c) \/ Send(c) \/ Unrecorded(c) PROVE BudgetInv'
  BY <1>3, <1>6, StepsMove DEF Recheck, Send, Unrecorded, CallInv
<1>7. ASSUME NEW c \in Caller, NEW answer \in Answer \cup {Failed}, Settle(c, answer)
      PROVE  BudgetInv'
  BY <1>3, <1>7, StepsMove DEF Settle, CallInv
<1>8. CASE OpCrash
  BY <1>8, CrashEmpties, CallersAtFinite, BudgetInvOther DEF OpCrash, CallInv
<1>9. CASE UNCHANGED <<intent, call>>
  <2>1. CallersAt("reserve")' = CallersAt("reserve")
    BY <1>9 DEF CallersAt
  <2> QED BY <1>9, <2>1, CallersAtFinite, BudgetInvOther
<1> QED
  BY <1>1, <1>2, <1>4, <1>5, <1>6, <1>7, <1>8, <1>9
  DEF OpNext, CallStep, Revoke, Regrant, opVars

(* However many callers pass the budget test together, the reservations    *)
(* exceed the budget by less than the number of callers.                   *)
THEOREM BudgetOvershoot == OpSpec => []ReservationBound
<1>1. BudgetInv => ReservationBound
  BY CallersAtFinite, ReservedFinite, RequestsAssumption DEF BudgetInv, ReservationBound
<1> QED BY <1>1, BudgetInvInit, BudgetInvNext, CallInvInductive, PTL DEF OpSpec

-------------------------------------------------------------------------------
(* After the revocation every caller still at "send" may send once more.   *)
LateInv == /\ ~revoked => late = 0
           /\ late + Cardinality(CallersAt("send")) <= Cardinality(Caller)

(* Nothing is late at first. *)
LEMMA LateInvInit == OpInit => LateInv
BY CallersAtFinite DEF OpInit, LateInv

(* A late request is one caller less who may still send. *)
LEMMA LateInvSend == ASSUME CallInv, LateInv, NEW c \in Caller, Send(c) PROVE LateInv'
<1>1. /\ call[c].at = "send" /\ Goto(c, "answer") /\ revoked' = revoked
      /\ late' = IF revoked THEN late + 1 ELSE late
  BY DEF Send
<1>2. Cardinality(CallersAt("send")') = Cardinality(CallersAt("send")) - 1
  BY <1>1, StepsMove, CallersMove DEF CallInv
<1> QED BY <1>1, <1>2, CallersAtFinite DEF LateInv, CallInv, OpTypeOK

(* After a revocation nobody passes the second look. *)
LEMMA LateInvRecheck == ASSUME CallInv, LateInv, NEW c \in Caller, Recheck(c) PROVE LateInv'
<1>1. CASE revoked
  <2>1. Goto(c, "error") /\ UNCHANGED <<revoked, late>>
    BY <1>1 DEF Recheck, Authorized
  <2>2. Cardinality(CallersAt("send")') <= Cardinality(CallersAt("send"))
    BY <2>1, StepsMove, CallersMove DEF CallInv
  <2> QED BY <1>1, <2>1, <2>2, CallersAtBounded, CallersAtFinite DEF LateInv, CallInv, OpTypeOK
<1>2. CASE ~revoked
  <2>1. late' = 0 /\ ~revoked'
    BY <1>2 DEF Recheck, LateInv
  <2> QED BY <2>1, CallersAtBounded, CallersAtFinite DEF LateInv
<1> QED BY <1>1, <1>2

(* Other steps send nothing late. *)
LEMMA LateInvOther ==
  ASSUME CallInv, LateInv, UNCHANGED late, revoked => revoked',
         Cardinality(CallersAt("send")') <= Cardinality(CallersAt("send"))
  PROVE  LateInv'
BY CallersAtBounded, CallersAtFinite DEF LateInv, CallInv, OpTypeOK

(* Every step keeps the bound on late requests. *)
LEMMA LateInvNext == CallInv /\ LateInv /\ [OpNext]_opVars => LateInv'
<1> SUFFICES ASSUME CallInv, LateInv, [OpNext]_opVars PROVE LateInv'
  OBVIOUS
<1>1. ASSUME NEW c \in Caller, Send(c) PROVE LateInv'
  BY <1>1, LateInvSend
<1>2. ASSUME NEW c \in Caller, Recheck(c) PROVE LateInv'
  BY <1>2, LateInvRecheck
<1>3. ASSUME NEW c \in Caller, NEW to, to # "send", Moves(c, call[c].at, to),
             UNCHANGED <<late, revoked>>
      PROVE  LateInv'
  BY <1>3, CallersMove, LateInvOther
<1>4. ASSUME NEW c \in Caller, NEW o \in Operation, NEW g \in Generation, Begin(c, o, g)
      PROVE  LateInv'
  BY <1>3, <1>4, StepsMove DEF Begin, CallInv
<1>5. ASSUME NEW c \in Caller, Release(c) PROVE LateInv'
  BY <1>3, <1>5, StepsMove DEF Release, CallInv
<1>6. ASSUME NEW c \in Caller, Admit(c) PROVE LateInv'
  <2>1. Admission(call[c].op, call[c].gen) # "send"
    BY DEF Admission
  <2> QED BY <1>3, <1>6, <2>1, StepsMove DEF Admit, CallInv
<1>7. ASSUME NEW c \in Caller, Reserve(c) \/ Unrecorded(c) PROVE LateInv'
  BY <1>3, <1>7, StepsMove DEF Reserve, Unrecorded, CallInv
<1>8. ASSUME NEW c \in Caller, NEW answer \in Answer \cup {Failed}, Settle(c, answer)
      PROVE  LateInv'
  BY <1>3, <1>8, StepsMove DEF Settle, CallInv
<1>9. CASE OpCrash
  BY <1>9, CrashEmpties, CallersAtFinite, LateInvOther DEF OpCrash, CallInv
<1>10. CASE Revoke \/ (\E actions \in Grants : Regrant(actions)) \/ UNCHANGED opVars
  <2>1. UNCHANGED <<call, late>> /\ (revoked => revoked')
    BY <1>10 DEF Revoke, Regrant, opVars
  <2>2. CallersAt("send")' = CallersAt("send")
    BY <2>1 DEF CallersAt
  <2> QED BY <2>1, <2>2, CallersAtFinite, LateInvOther
<1> QED
  BY <1>1, <1>2, <1>4, <1>5, <1>6, <1>7, <1>8, <1>9, <1>10 DEF OpNext, CallStep

(* Once revoked.json exists, at most one request per caller still leaves. *)
THEOREM RevocationStops == OpSpec => []RevocationBound
<1>1. LateInv /\ CallInv => RevocationBound
  BY CallersAtFinite DEF LateInv, RevocationBound, CallInv, OpTypeOK
<1> QED BY <1>1, LateInvInit, LateInvNext, CallInvInductive, PTL DEF OpSpec

-------------------------------------------------------------------------------
(* The call protocol implements the effect ledger: a reservation claims an *)
(* effect, a request dispatches it, a receipt settles it, and every other  *)
(* step is invisible.                                                      *)
LEMMA LedgerInit == OpInit => Ledger!Init
BY DEF OpInit, Ledger!Init, Reserved

(* A reservation is a claim of the abstract ledger. *)
LEMMA LedgerReserve == ASSUME CallInv, NEW c \in Caller, Reserve(c)
                       PROVE  Ledger!Claim(call[c].op) /\ call[c].op \in Operation
<1>1. /\ intent' = [intent EXCEPT ![call[c].op] = call[c].gen]
      /\ call[c].op \in Operation /\ intent[call[c].op] = None /\ call[c].gen # None
      /\ UNCHANGED <<receipt, sent>>
  BY ValueAssumption DEF Reserve, CallInv, CallerKnows
<1> QED BY <1>1 DEF Reserved, CallInv, OpTypeOK, Ledger!Claim

(* A request that leaves is a dispatch of the abstract ledger. *)
LEMMA LedgerSend == ASSUME CallInv, NEW c \in Caller, Send(c)
                    PROVE  Ledger!Dispatch(call[c].op) /\ call[c].op \in Operation
<1>1. /\ call[c].op \in Operation /\ intent[call[c].op] # None
      /\ sent[call[c].op] = 0 /\ receipt[call[c].op] = None
  BY ValueAssumption DEF Send, CallInv, CallerKnows
<1>2. sent' = [sent EXCEPT ![call[c].op] = 1] /\ UNCHANGED <<receipt, intent>>
  BY <1>1 DEF Send
<1> QED BY <1>1, <1>2 DEF Reserved, Ledger!Dispatch

(* A receipt is a settlement of the abstract ledger. *)
LEMMA LedgerSettle ==
  ASSUME CallInv, NEW c \in Caller, NEW answer \in Answer \cup {Failed}, Settle(c, answer)
  PROVE  Ledger!Settle(call[c].op, answer) /\ call[c].op \in Operation
<1>1. /\ receipt' = [receipt EXCEPT ![call[c].op] = answer]
      /\ call[c].op \in Operation /\ sent[call[c].op] = 1 /\ receipt[call[c].op] = None
      /\ UNCHANGED <<sent, intent>>
  BY DEF Settle, CallInv, CallerKnows
<1> QED BY <1>1 DEF Reserved, Ledger!Settle

(* Every step is one of the abstract ledger, or none. *)
LEMMA LedgerStep == CallInv /\ [OpNext]_opVars => [Ledger!Next]_(Ledger!vars)
<1> SUFFICES ASSUME CallInv, [OpNext]_opVars PROVE [Ledger!Next]_(Ledger!vars)
  OBVIOUS
<1>1. ASSUME NEW c \in Caller, Reserve(c) PROVE Ledger!Next
  BY <1>1, LedgerReserve DEF Ledger!Next
<1>2. ASSUME NEW c \in Caller, Send(c) PROVE Ledger!Next
  BY <1>2, LedgerSend DEF Ledger!Next
<1>3. ASSUME NEW c \in Caller, NEW answer \in Answer \cup {Failed}, Settle(c, answer)
      PROVE  Ledger!Next
  BY <1>3, LedgerSettle DEF Ledger!Next
<1>4. ASSUME UNCHANGED <<intent, receipt, sent>> PROVE UNCHANGED Ledger!vars
  BY <1>4 DEF Reserved, Ledger!vars
<1> QED
  BY <1>1, <1>2, <1>3, <1>4
  DEF OpNext, CallStep, Begin, Release, Admit, Recheck, Unrecorded, OpCrash, Revoke, Regrant,
      opVars

(* The files and requests of the live controller behave as the ledger.     *)
THEOREM ImplementsLedger == OpSpec => LedgerSpec
BY LedgerInit, LedgerStep, CallInvInductive, PTL DEF OpSpec, LedgerSpec, Ledger!Spec
-------------------------------------------------------------------------------
(***************************************************************************)
(* The campaign.                                                           *)
(***************************************************************************)
Phase(h) == IF h = <<>> THEN "absent" ELSE h[Len(h)].phase
Cases == ToSet(EvaluatedCases)
Canaries == ToSet(CanaryCases)

(* The candidate of a snapshot that a reviewer has approved, if any. *)
Chosen(st) ==
  {g \in Generation : /\ st.review # None /\ st.phase \notin {"awaiting_review", "rejected"}
                      /\ g = st.review.request.candidate}

(* What a snapshot says is consistent in itself. *)
Searched(st) ==
  /\ Len(st.evaluated) <= CandidateLimit + 1 /\ st.rounds <= MaxRounds
  /\ DOMAIN st.parent = DOMAIN st.evaluated /\ DOMAIN st.round = DOMAIN st.evaluated
  /\ st.evaluated # <<>> => st.evaluated[1] = Base
  /\ st.phase = "prepared" => st.evaluated = <<>> /\ st.rounds = 0
  /\ st.phase \notin {"prepared", "failed"} => st.evaluated # <<>>
Reviewed(st) ==
  /\ st.phase \in Searching => st.review = None
  /\ st.phase \in {"awaiting_review", "rejected", "probe"} => st.review # None
  /\ st.review # None =>
       /\ st.review.request.candidate # Base /\ st.review.request.incumbent = Base
       /\ st.phase = "awaiting_review" <=> st.review.decision = None
       /\ st.review.decision # None =>
            /\ st.review.decision.candidate = st.review.request.candidate
            /\ st.review.decision.outcome = IF st.phase = "rejected" THEN "rejected" ELSE "approved"
Retains(st) ==
  /\ \/ st.retained = <<Base>>
     \/ st.phase # "probe" /\ \E g \in Chosen(st) : st.retained = <<Base, g>>
  /\ IF st.phase = "probe" THEN st.active \in Chosen(st) ELSE st.active \in ToSet(st.retained)
Shape(st) == st \in LiveState /\ Searched(st) /\ Reviewed(st) /\ Retains(st)

(* Where a command stands, by the phase of the campaign. *)
Place(r, h) ==
  /\ r.cmd = "none" <=> r.at = "idle"
  /\ r.cmd \in {"promote", "reject"} => r.arg \in ApprovalId
  /\ r.cmd = "task" => r.arg \in TaskName
  /\ r.at = "baseline" => Phase(h) \in Searching
  /\ r.at = "grade" => Phase(h) = "prepared"
  /\ r.at \in {"round", "expand", "select", "stage"} => Phase(h) \in {"baseline", "search"}
  /\ r.at = "authorize" => Phase(h) \in {"awaiting_review", "probe"}
  /\ r.at \in {"decide", "activate", "record"} => Phase(h) = "awaiting_review"
  /\ r.at \in {"resume", "canary", "verify"} => Phase(h) = "probe"
  /\ r.at = "work" => Phase(h) \in {"complete", "rolled_back"}
  /\ r.at = "point" => /\ h # <<>> /\ r.next \in {"round", "canary", "release"}
                       /\ r.next = "round" => Phase(h) \in {"baseline", "search"}
                       /\ r.next = "canary" => Phase(h) = "probe"

Types ==
  /\ history \in Seq(LiveState)
  /\ pointer \in Pointer \cup {None}
  /\ stored \subseteq Generation /\ reviews \subseteq ReviewRequest
  /\ decisions \subseteq ReviewDecision
  /\ approvals \in [ApprovalId -> [outcome : Outcome \cup {None}, valid : BOOLEAN]]
  /\ lease \in {"free", "held"} /\ served \subseteq Generation
  /\ DOMAIN run = {"cmd", "at", "next", "arg"}
  /\ lease = "free" => run.cmd = "none"

-------------------------------------------------------------------------------
(* The expansions.                                                         *)
Calling == {"expand", "candidate", "baseline", "probe", "task"}
Alone == {"baseline", "probe", "task"}
Expanding == {"open", "expand", "publish", "candidate"}
CasesOf(kind) == IF kind = "expand" THEN {NoCase}
                 ELSE IF kind = "probe" THEN Canaries
                 ELSE IF kind = "task" THEN TaskName ELSE Cases

(* A chain that calls is about one operation of its own; one that does not *)
(* leaves its caller alone.                                                *)
ChainFits(x, k) ==
  /\ x.index \in Nat
  /\ x.kind \in Calling =>
       /\ k.at # "idle" /\ k.gen = x.gen /\ x.gen \in Generation
       /\ x.todo \in Seq(CasesOf(x.kind))
       /\ \E case \in CasesOf(x.kind) : k.op = <<OpKind(x.kind), x.index, case>>
  /\ x.kind \notin Calling => k = Idle
  /\ x.kind \in Expanding \cup {"ended"} => x.gen \in Generation
  /\ x.kind \in Expanding => x.index < CandidateLimit
  /\ x.kind \in Alone => x.index = 0

Chains ==
  /\ DOMAIN chain = Caller
  /\ \A c \in Caller : /\ DOMAIN chain[c] = {"kind", "index", "gen", "todo"}
                       /\ ChainFits(chain[c], call[c])
  /\ \A c, d \in Caller :
       c # d /\ chain[c].kind # "none" /\ chain[d].kind # "none" =>
         chain[c].index # chain[d].index /\ chain[c].kind \notin Alone

(* What the chains of the command in progress are for. *)
Single(kinds) ==
  \A c \in Caller : IF c = 1 THEN chain[c].kind \in kinds /\ chain[c].index = 0
                             ELSE chain[c].kind = "none"
Proposal(i) == <<"proposal", i, NoCase>>
Batched(c) ==
  /\ chain[c].kind # "none" <=> c \in DOMAIN Batch
  /\ chain[c].kind # "none" =>
       /\ chain[c].kind \in Expanding \cup {"ended", "failed"}
       /\ chain[c].index = Candidates(Now) + c - 1
       /\ chain[c].kind \in {"open", "expand"} => chain[c].gen = Now.evaluated[Batch[c]]
       /\ chain[c].kind \in {"publish", "candidate", "ended"} =>
            intent[Proposal(chain[c].index)] = Now.evaluated[Batch[c]]
Work ==
  /\ \/ \A c \in Caller : chain[c].kind = "none"
     \/ run.at \in {"grade", "expand", "verify", "work"}
     \/ Phase(history) = "failed"
  /\ run.at = "grade" => /\ Single({"baseline", "ended", "failed"})
                         /\ chain[1].gen = Base
  /\ run.at = "expand" => \A c \in Caller : Batched(c)
  /\ run.at = "verify" => Single({"probe", "ended", "missed", "failed"})
  /\ run.at = "work" => Single({"task", "ended", "failed"})

-------------------------------------------------------------------------------
(* What is graded.                                                         *)
GradedAs(o, g) == intent[o] = g /\ receipt[o] \in Verdict

(* Replies are of their operation's kind; a call that waits for its answer *)
(* has its reservation, one that is done has the answer.                   *)
Answered ==
  /\ \A o \in Operation :
       receipt[o] # None => receipt[o] \in Replies(o)
  /\ \A c \in Caller : call[c].at \in {"answer", "done"} => intent[call[c].op] = call[c].gen
  /\ \A c \in Caller : call[c].at = "done" => receipt[call[c].op] \in Answer

(* A chain has graded every case that it has not before it. *)
Walked(kind, index, g, left) ==
  \A k \in CasesOf(kind) : k \in left \/ GradedAs(<<kind, index, k>>, g)
Progresses(x, k) ==
  x.kind \in {"baseline", "candidate", "probe"} =>
    \A case \in CasesOf(x.kind) :
      \/ case \in ToSet(x.todo)
      \/ k.op = <<x.kind, x.index, case>>
      \/ /\ GradedAs(<<x.kind, x.index, case>>, x.gen)
         /\ x.kind = "probe" => receipt[<<x.kind, x.index, case>>] = "pass"
Grades ==
  /\ \A c \in Caller : Progresses(chain[c], call[c])
  /\ \A c \in Caller, k \in Cases :
       /\ run.at = "grade" /\ chain[c].kind = "ended" => GradedAs(<<"baseline", 0, k>>, Base)
       /\ run.at = "expand" /\ chain[c].kind = "ended" =>
            GradedAs(<<"candidate", chain[c].index, k>>, chain[c].gen)
  /\ run.at = "verify" /\ chain[1].kind = "ended" => Proven(None)
  /\ run.at = "work" => Proven(chain[1].gen)
  /\ \A t \in TaskName : intent[<<"task", 0, t>>] # None => Proven(intent[<<"task", 0, t>>])
  /\ \A c \in Caller : chain[c].kind = "task" => Proven(chain[c].gen)

-------------------------------------------------------------------------------
(* The allocation.                                                         *)
Owed == {o \in Operation : \E c \in Caller : /\ chain[c].kind \in Expanding
                                             /\ o[1] \in {"proposal", "candidate"}
                                             /\ o[2] = chain[c].index}
Funds ==
  /\ Cardinality(Reserved \cup Owed) <= Requests
  /\ \A c \in Caller : call[c].at = "reserve" /\ chain[c].kind \in Alone =>
       Cardinality(Reserved) < Requests

-------------------------------------------------------------------------------
(* Reviews and decisions.                                                  *)
Backed(st, n) ==
  st.review # None =>
    LET seq == st.review.request.seq
    IN  /\ st.review.request \in reviews
        /\ seq \in 1..(n - 1) /\ history[seq].evaluated = st.evaluated
        /\ history[seq].active = Base
        /\ Selected(history[seq]) = st.review.request.candidate
        /\ Selected(history[seq]) \in Winners(history[seq])
        /\ st.review.request = Request(history[seq], seq, st.review.request.candidate)
        /\ st.review.decision # None => st.review.decision \in decisions
Decided ==
  /\ \A d \in decisions : approvals[d.approval].outcome = d.outcome
  /\ run.at = "stage" => /\ Selected(Now) \notin {None, Base}
                         /\ Request(Now, Len(history), Selected(Now)) \in reviews
  /\ run.at = "activate" => Decision("approved") \in decisions
  /\ run.at = "record" => Decision("rejected") \in decisions

-------------------------------------------------------------------------------
(* What is served.                                                         *)
Served ==
  /\ history = <<>> => pointer = None /\ served = {}
  /\ history # <<>> => served \subseteq {Base} \cup Chosen(Now)
  /\ pointer = None => served = {}
  /\ pointer # None => /\ pointer.seq \in 1..Len(history)
                       /\ pointer.gen = history[pointer.seq].active /\ pointer.gen \in served
  /\ Phase(history) = "probe" /\ pointer # Current => served \subseteq {Base}
  /\ run.at \in {"canary", "verify"} => pointer = Current
  /\ run.at = "work" => pointer = Current

-------------------------------------------------------------------------------
(* The search.                                                             *)
TreeFits(st) ==
  /\ Explored(Tree(st), st.rounds, Strategy, MaxParallelism, CandidateLimit)
  /\ \A i \in 2..Len(st.evaluated) :
       /\ st.parent[i] \in 1..(i-1) /\ st.round[i] \in 1..st.rounds
       /\ intent[Proposal(i - 2)] = st.evaluated[st.parent[i]]
  /\ st.evaluated # <<>> => st.parent[1] = 0 /\ st.round[1] = 0
  /\ \A i, j \in DOMAIN st.round : i <= j => st.round[i] <= st.round[j]
  /\ st.phase \in {"awaiting_review", "complete", "rejected", "rolled_back", "probe"} =>
       st.rounds = MaxRounds \/ Candidates(st) = CandidateLimit
Grown ==
  /\ run.at \in {"select", "stage"} => Now.rounds = MaxRounds \/ Candidates(Now) = CandidateLimit
  /\ run.at = "expand" => Now.rounds < MaxRounds /\ Candidates(Now) < CandidateLimit
Stored ==
  /\ \A c \in Caller : chain[c].kind \in {"candidate", "ended"} /\ run.at = "expand" =>
                          chain[c].gen \in stored
  /\ run.at = "first" => Base \in stored

-------------------------------------------------------------------------------
(* The snapshots.                                                          *)
IsGraded(st) == \A i \in DOMAIN st.evaluated, k \in Cases : GradedAs(EvalOp(i, k), st.evaluated[i])

(* What is true of snapshot n, and of every later state of the files.      *)
Holds(st, n) ==
  /\ Shape(st) /\ IsGraded(st) /\ TreeFits(st) /\ Backed(st, n)
  /\ \A g \in ToSet(st.retained) : Proven(g)
  /\ ToSet(st.retained) \cup ToSet(st.evaluated) \cup {st.active} \subseteq stored
Snapshots ==
  /\ \A n \in DOMAIN history : Holds(history[n], n)
  /\ \A n \in DOMAIN history : n > 1 => Candidates(history[n]) >= Candidates(history[n-1])
  /\ history # <<>> => history[1] = Prepared

CampaignInv ==
  /\ CallInv /\ Types /\ Snapshots
  /\ Place(run, history) /\ Chains /\ Work /\ Answered /\ Grades /\ Funds /\ Decided
  /\ Served /\ Grown /\ Stored

-------------------------------------------------------------------------------
(* The campaign uses the call protocol.                                    *)

(* The latest snapshot of a history. *)
LEMMA NowFits ==
  ASSUME CampaignInv, history # <<>>
  PROVE  /\ Len(history) \in DOMAIN history /\ Len(history) \in Nat \ {0}
         /\ Now = history[Len(history)] /\ Now \in LiveState /\ Shape(Now)
         /\ Phase(history) = Now.phase
<1>1. history \in Seq(LiveState)
  BY DEF CampaignInv, Types
<1>2. Len(history) \in Nat \ {0} /\ Len(history) \in DOMAIN history
  BY <1>1
<1> QED BY <1>1, <1>2 DEF CampaignInv, Snapshots, Holds, Now, Phase, Shape

(* The names of a campaign's operations. *)
LEMMA OperationNames ==
  /\ \A k \in Cases : <<"baseline", 0, k>> \in Operation
  /\ \A k \in Canaries : <<"probe", 0, k>> \in Operation
  /\ \A k \in TaskName : <<"task", 0, k>> \in Operation
  /\ \A i \in Nat : i < CandidateLimit =>
       /\ <<"proposal", i, NoCase>> \in Operation
       /\ \A k \in Cases : <<"candidate", i, k>> \in Operation
<1>1. CandidateLimit \in Nat
  BY PlanAssumption
<1>2. \A i \in Nat : i < CandidateLimit => i \in 0..(CandidateLimit - 1)
  BY <1>1
<1> QED BY <1>2, PlanAssumption DEF LiveOperation, Cases, Canaries

LEMMA NamesOfKinds ==
  ASSUME NEW kind \in Calling, NEW index \in Nat, NEW case \in CasesOf(kind),
         kind \in Alone => index = 0, kind \notin Alone => index < CandidateLimit
  PROVE  <<OpKind(kind), index, case>> \in Operation
<1>1. CASE kind = "expand"
  BY <1>1, OperationNames DEF OpKind, CasesOf, Alone
<1>2. CASE kind = "candidate"
  BY <1>2, OperationNames DEF OpKind, CasesOf, Alone
<1>3. CASE kind \in Alone
  BY <1>3, OperationNames DEF OpKind, CasesOf, Alone
<1> QED BY <1>1, <1>2, <1>3 DEF Calling, Alone

(* The cases of a plan. *)
LEMMA PlanCases ==
  /\ EvaluatedCases \in Seq(Cases) /\ EvaluatedCases # <<>> /\ Cases # {}
  /\ CanaryCases \in Seq(Canaries) /\ CanaryCases # <<>>
  /\ Head(EvaluatedCases) \in Cases /\ Tail(EvaluatedCases) \in Seq(Cases)
  /\ Head(CanaryCases) \in Canaries /\ Tail(CanaryCases) \in Seq(Canaries)
  /\ Cases \subseteq {Head(EvaluatedCases)} \cup ToSet(Tail(EvaluatedCases))
  /\ Canaries \subseteq {Head(CanaryCases)} \cup ToSet(Tail(CanaryCases))
<1>1. EvaluatedCases \in Seq(Cases) /\ CanaryCases \in Seq(Canaries) /\ CanaryCases # <<>>
  BY PlanAssumption DEF Cases, Canaries
<1>2. EvaluatedCases # <<>>
  <2>1. Cases # {}
    BY PlanAssumption DEF Cases
  <2> QED BY <2>1 DEF Cases, ToSet
<1>3. ASSUME NEW S, NEW s \in Seq(S), s # <<>>
      PROVE  /\ Head(s) \in S /\ Tail(s) \in Seq(S)
             /\ ToSet(s) \subseteq {Head(s)} \cup ToSet(Tail(s))
  <2>1. Head(s) \in S /\ Tail(s) \in Seq(S) /\ Head(s) = s[1]
    BY <1>3
  <2>2. ASSUME NEW i \in DOMAIN s, i # 1
        PROVE  s[i] \in ToSet(Tail(s))
    <3>1. i - 1 \in 1..Len(Tail(s)) /\ Tail(s)[i - 1] = s[i]
      BY <1>3, <2>2
    <3>2. i - 1 \in DOMAIN Tail(s)
      BY <2>1, <3>1
    <3> QED BY <3>1, <3>2 DEF ToSet
  <2> QED BY <2>1, <2>2 DEF ToSet
<1>4. Cases # {}
  BY <1>3, <1>1, <1>2
<1> QED BY <1>1, <1>2, <1>3, <1>4 DEF Cases, Canaries

(* A chain that starts alone begins an operation. *)
LEMMA AloneBegins ==
  ASSUME CampaignInv, \A c \in Caller : chain[c].kind = "none",
         NEW kind \in Alone, NEW g \in Generation, NEW cases,
         Head(cases) \in CasesOf(kind), StartAlone(kind, g, cases)
  PROVE  OpNext
<1>1. \A c \in Caller : call[c] = Idle
  BY DEF CampaignInv, Chains, ChainFits, Calling
<1>2. 1 \in Caller
  BY PlanAssumption
<1>3. <<OpKind(kind), 0, Head(cases)>> \in Operation
  BY NamesOfKinds DEF Alone, Calling
<1>4. call' = [call EXCEPT ![1] = [at |-> "admit", op |-> <<OpKind(kind), 0, Head(cases)>>, gen |-> g]]
  BY <1>1, <1>2 DEF StartAlone, CallFor, CampaignInv, CallInv, OpTypeOK
<1>5. UNCHANGED <<intent, receipt, granted, revoked, sent, late>>
  BY DEF StartAlone
<1>6. \A d \in Caller : call[d].at = "idle" /\ call[d].op # <<OpKind(kind), 0, Head(cases)>>
  BY <1>1, <1>3, OperationAssumption DEF Idle
<1>7. Begin(1, <<OpKind(kind), 0, Head(cases)>>, g)
  BY <1>2, <1>4, <1>5, <1>6 DEF Begin
<1> QED BY <1>2, <1>3, <1>7 DEF OpNext

(* A chain's next operation is nobody else's. *)
LEMMA NextBegins ==
  ASSUME CampaignInv, NEW c \in Caller, chain[c].kind # "none", call[c].at \in {"idle", "done"},
         NEW kind \in Calling, NEW g \in Generation, NEW cases, Head(cases) \in CasesOf(kind),
         kind \in Alone => chain[c].index = 0, kind \notin Alone => chain[c].index < CandidateLimit,
         NextOperation(c, kind, chain[c].index, g, cases)
  PROVE  OpNext
<1> DEFINE o == <<OpKind(kind), chain[c].index, Head(cases)>>
<1>1. chain[c].index \in Nat
  BY DEF CampaignInv, Chains, ChainFits
<1>2. o \in Operation
  BY <1>1, NamesOfKinds
<1>3. ASSUME NEW d \in Caller \ {c}
      PROVE  call[d].op # o
  <2>1. CASE chain[d].kind \in Calling
    <3>1. chain[c].index # chain[d].index
      BY <1>3, <2>1 DEF CampaignInv, Chains, Calling
    <3>2. PICK case : call[d].op = <<OpKind(chain[d].kind), chain[d].index, case>>
      BY <2>1 DEF CampaignInv, Chains, ChainFits
    <3>3. call[d].op[2] = chain[d].index /\ o[2] = chain[c].index
      BY <3>2
    <3> QED BY <3>1, <3>3
  <2>2. CASE chain[d].kind \notin Calling
    <3>1. call[d].op = None
      BY <2>2 DEF CampaignInv, Chains, ChainFits, Idle
    <3> QED BY <1>2, <3>1, OperationAssumption
  <2> QED BY <2>1, <2>2
<1>4. Begin(c, o, g)
  BY <1>3 DEF Begin, NextOperation, CallFor
<1> QED BY <1>2, <1>4 DEF OpNext

(* A chain that ends gives its caller free. *)
LEMMA EndReleases ==
  ASSUME CampaignInv, NEW c \in Caller, NEW kind, EndChain(c, kind),
         call[c].at \in {"done", "error"} \/ call[c] = Idle
  PROVE  OpNext \/ UNCHANGED opVars
<1>1. CASE call[c].at \in {"done", "error"}
  BY <1>1 DEF EndChain, Release, OpNext
<1>2. CASE call[c] = Idle
  <2>1. call' = call
    BY <1>2 DEF EndChain, CampaignInv, CallInv, OpTypeOK
  <2> QED BY <2>1 DEF EndChain, opVars
<1> QED BY <1>1, <1>2

(* A reply is an answer, or the failure to get one. *)
LEMMA RepliesAreAnswers == \A o : Replies(o) \subseteq Answer \cup {Failed}
BY PlanAssumption DEF Replies, Verdict

(* What current.json says once it is published. *)
LEMMA CurrentFits ==
  ASSUME CampaignInv, history # <<>>
  PROVE  Current \in Pointer /\ Current # None /\ Current.gen = Now.active /\ Now.active \in Generation
<1>1. Now.active \in Generation
  BY NowFits DEF LiveState
<1>2. Current \in Pointer
  BY <1>1, NowFits DEF Current, Pointer
<1> QED BY <1>1, <1>2, NoneIsNothing DEF Current

(* Without a batch or a failure there is no chain. *)
LEMMA NoChains ==
  ASSUME CampaignInv, Phase(history) # "failed", run.at \notin {"grade", "expand", "verify", "work"}
  PROVE  \A c \in Caller : chain[c].kind = "none"
BY DEF CampaignInv, Work

LEMMA ChainCalls ==
  ASSUME CampaignInv, NEW c \in Caller, Chain(c)
  PROVE  OpNext \/ UNCHANGED opVars
<1> DEFINE x == chain[c]
<1>0. ChainFits(x, call[c]) /\ x.index \in Nat
  BY DEF CampaignInv, Chains, ChainFits
<1>1. CASE Call(c)
  <2>1. CallStep(c, Answer \cup {Failed})
    BY <1>1, RepliesAreAnswers DEF Call, CallStep
  <2> QED BY <2>1 DEF OpNext
<1>2. CASE Open(c)
  <2>1. call[c] = Idle /\ x.gen \in Generation /\ x.index < CandidateLimit
    BY <1>0, <1>2 DEF Open, ChainFits, Calling, Expanding
  <2>2. call[c].at = "idle"
    BY <2>1 DEF Idle
  <2>3. Head(<<NoCase>>) \in CasesOf("expand")
    BY DEF CasesOf
  <2>4. NextOperation(c, "expand", x.index, x.gen, <<NoCase>>)
    BY <1>2 DEF Open
  <2> QED BY <1>2, <2>1, <2>2, <2>3, <2>4, NextBegins DEF Open, Calling, Alone
<1>3. CASE Graded(c)
  <2>1. call[c].at = "done" /\ x.kind \in {"baseline", "candidate", "probe", "task"}
    BY <1>3 DEF Graded
  <2>2. x.gen \in Generation /\ x.todo \in Seq(CasesOf(x.kind)) /\ (x.kind \in Alone => x.index = 0)
        /\ (x.kind \notin Alone => x.index < CandidateLimit)
    BY <1>0, <2>1 DEF ChainFits, Calling, Expanding, Alone
  <2>3. ASSUME NEW kind, EndChain(c, kind)
        PROVE  OpNext \/ UNCHANGED opVars
    BY <2>1, <2>3, EndReleases
  <2>4. CASE x.todo # <<>> /\ NextOperation(c, x.kind, x.index, x.gen, x.todo)
    <3>1. Head(x.todo) \in CasesOf(x.kind)
      BY <2>2, <2>4
    <3> QED BY <2>1, <2>2, <2>4, <3>1, NextBegins DEF Calling
  <2> QED BY <1>3, <2>3, <2>4 DEF Graded
<1>4. CASE Proposed(c)
  <2>1. call[c].at = "done" /\ x.kind = "expand" /\ x.index < CandidateLimit
    BY <1>0, <1>4 DEF Proposed, ChainFits, Expanding
  <2>2. CASE EndChain(c, "failed")
    BY <2>1, <2>2, EndReleases
  <2>3. CASE Result(c) \in stored /\ NextOperation(c, "candidate", x.index, Result(c), EvaluatedCases)
    <3>1. Result(c) \in Generation /\ Head(EvaluatedCases) \in CasesOf("candidate")
      BY <2>3, PlanCases DEF CampaignInv, Types, CasesOf
    <3> QED BY <2>1, <2>3, <3>1, NextBegins DEF Calling, Alone
  <2>4. CASE call' = [call EXCEPT ![c] = Idle] /\ UNCHANGED <<intent, receipt, granted, revoked, sent, late>>
    BY <2>1, <2>4 DEF Release, OpNext
  <2> QED BY <1>4, <2>2, <2>3, <2>4 DEF Proposed
<1>5. CASE StoreGeneration(c)
  <2>1. x.kind = "publish" /\ call[c] = Idle /\ x.gen \in Generation /\ x.index < CandidateLimit
    BY <1>0, <1>5 DEF StoreGeneration, ChainFits, Calling, Expanding
  <2>2. CASE EndChain(c, "failed")
    BY <2>1, <2>2, EndReleases
  <2>3. CASE NextOperation(c, "candidate", x.index, x.gen, EvaluatedCases)
    <3>1. call[c].at = "idle" /\ Head(EvaluatedCases) \in CasesOf("candidate")
      BY <2>1, PlanCases DEF CasesOf, Idle
    <3> QED BY <2>1, <2>3, <3>1, NextBegins DEF Calling, Alone
  <2> QED BY <1>5, <2>2, <2>3 DEF StoreGeneration
<1>6. CASE Broken(c)
  BY <1>6, EndReleases DEF Broken
<1> QED BY <1>1, <1>2, <1>3, <1>4, <1>5, <1>6 DEF Chain

LEMMA CommandsCall ==
  ASSUME CampaignInv, Command \/ Supervise
  PROVE  OpNext \/ UNCHANGED opVars
<1>1. CASE RunBaseline /\ StartAlone("baseline", Base, EvaluatedCases)
  <2>1. \A c \in Caller : chain[c].kind = "none"
    BY <1>1, NoChains DEF RunBaseline, Busy, CampaignInv, Place, Searching
  <2>2. Base \in Generation /\ Head(EvaluatedCases) \in CasesOf("baseline")
    BY PlanAssumption, PlanCases DEF CasesOf
  <2> QED BY <1>1, <2>1, <2>2, AloneBegins DEF Alone
<1>2. CASE PromoteCanary
  <2>1. Phase(history) = "probe" /\ run.at = "canary"
    BY <1>2 DEF PromoteCanary, Busy, CampaignInv, Place
  <2>2. \A c \in Caller : chain[c].kind = "none"
    BY <2>1, NoChains
  <2>3. history # <<>>
    BY <2>1 DEF Phase
  <2>4. pointer.gen \in Generation /\ Head(CanaryCases) \in CasesOf("probe")
    BY <2>1, <2>3, CurrentFits, PlanCases DEF CasesOf, CampaignInv, Served
  <2> QED BY <1>2, <2>2, <2>4, AloneBegins DEF Alone, PromoteCanary
<1>3. CASE TaskLoad /\ Serving
  <2>1. history # <<>> /\ run.at = "load" /\ run.cmd = "task"
    BY <1>3 DEF TaskLoad, Busy, Serving, Loads
  <2>2. Now.phase \in {"complete", "rolled_back"} /\ pointer = Current
    BY <1>3 DEF Serving, PointerAgrees
  <2>3. \A c \in Caller : chain[c].kind = "none"
    BY <2>1, <2>2, NoChains, NowFits
  <2>4. pointer.gen \in Generation
    BY <2>1, <2>2, CurrentFits
  <2>5. run.arg \in TaskName /\ Head(<<run.arg>>) \in CasesOf("task")
    BY <2>1 DEF CampaignInv, Place, CasesOf
  <2>6. StartAlone("task", pointer.gen, <<run.arg>>)
    BY <1>3 DEF TaskLoad
  <2> QED BY <2>3, <2>4, <2>5, <2>6, AloneBegins DEF Alone
<1>4. CASE RunRound
  BY <1>4 DEF RunRound, StartBatch, Quiet
<1> QED
  BY <1>1, <1>2, <1>3, <1>4
  DEF Command, Supervise, Start, StartPrepare, StartRun, StartPromote, StartReject, StartRollback,
      StartTask, Point, Unlease, PrepareFiles, PrepareState, RunLoad, RunBaseline, RunGraded,
      RunExpanded, RunSelect, RunStage, PromoteLoad, PromoteAuthorize, PromoteDecide,
      PromoteActivate, PromoteResume, PromoteVerify, RejectLoad, RejectRecord, Rollback,
      TaskLoad, TaskDone, Quiet

(* Every step of a campaign is one of the call protocol, or none of it.    *)
LEMMA CampaignCalls == ASSUME CampaignInv, [Next]_vars PROVE [OpNext]_opVars
<1>1. CASE Authority
  BY <1>1 DEF Authority, OpNext
<1>2. CASE Crash
  BY <1>2 DEF Crash, OpNext
<1>3. CASE Review \/ Recover \/ UNCHANGED vars
  BY <1>3 DEF Review, Recover, Quiet, vars
<1> QED BY <1>1, <1>2, <1>3, ChainCalls, CommandsCall DEF Next

-------------------------------------------------------------------------------
(* What does not change.                                                   *)

(* The names under which evaluations are graded. *)
LEMMA EvaluationNames ==
  ASSUME NEW i \in Nat \ {0}, i <= CandidateLimit + 1, NEW k \in Cases
  PROVE  EvalOp(i, k) \in Operation
<1>1. CASE i = 1
  BY <1>1, OperationNames DEF EvalOp
<1>2. CASE i # 1
  <2>1. i - 2 \in Nat /\ i - 2 < CandidateLimit
    BY <1>2, PlanAssumption
  <2> QED BY <1>2, <2>1, OperationNames DEF EvalOp
<1> QED BY <1>1, <1>2

(* What is computed from the receipts of a graded snapshot stays.          *)
LEMMA ScoresStay ==
  ASSUME KeepsFiles, NEW st, st.evaluated \in Seq(Generation),
         Len(st.evaluated) <= CandidateLimit + 1, IsGraded(st)
  PROVE  /\ IsGraded(st)'
         /\ \A i \in DOMAIN st.evaluated : Eligible(i)' <=> Eligible(i)
         /\ Winners(st)' = Winners(st) /\ Selected(st)' = Selected(st) /\ Tree(st)' = Tree(st)
<1> DEFINE D == DOMAIN st.evaluated
<1>0. D = 1..Len(st.evaluated) /\ Len(st.evaluated) \in Nat
  OBVIOUS
<1>1. ASSUME NEW i \in D, NEW k \in Cases
      PROVE  GradedAs(EvalOp(i, k), st.evaluated[i])' /\ (Passes(i, k)' <=> Passes(i, k))
  <2>1. EvalOp(i, k) \in Operation
    <3>1. i \in Nat \ {0} /\ i <= Len(st.evaluated) /\ CandidateLimit \in Nat
      BY <1>0, PlanAssumption
    <3>2. i <= CandidateLimit + 1
      BY <1>0, <3>1
    <3> QED BY <3>1, <3>2, EvaluationNames
  <2>2. intent[EvalOp(i, k)] = st.evaluated[i] /\ st.evaluated[i] # None
        /\ receipt[EvalOp(i, k)] \in Verdict
    BY ValueAssumption DEF IsGraded, GradedAs
  <2>3. receipt[EvalOp(i, k)] # None
    BY <2>2, ValueAssumption, PlanAssumption
  <2>4. EvalOp(i, k)' = EvalOp(i, k)
    BY DEF EvalOp
  <2> QED BY <2>1, <2>2, <2>3, <2>4 DEF KeepsFiles, GradedAs, Passes
<1>2. ASSUME NEW i \in D, NEW S \in SUBSET Cases
      PROVE  Score(i, S)' = Score(i, S)
  <2>1. {k \in S : Passes(i, k)}' = {k \in S : Passes(i, k)}
    BY <1>1
  <2> QED BY <2>1 DEF Score
<1>3. Qualification \subseteq Cases /\ Development \subseteq Cases
  BY PlanAssumption DEF Qualification, Cases
<1>4. ASSUME NEW i \in D
      PROVE  Eligible(i)' <=> Eligible(i)
  <2>1. 1 \in D
    BY <1>0
  <2>2. /\ Score(i, Qualification)' = Score(i, Qualification)
        /\ Score(1, Qualification)' = Score(1, Qualification)
    BY <1>2, <1>3, <2>1
  <2>3. \A k \in Qualification : (Passes(1, k)' <=> Passes(1, k)) /\ (Passes(i, k)' <=> Passes(i, k))
    BY <1>1, <1>3, <2>1
  <2> QED BY <2>2, <2>3 DEF Eligible
<1>5. Winners(st)' = Winners(st)
  <2> DEFINE E == {i \in 2..Len(st.evaluated) : Eligible(i)}
             Best(i) == \A j \in E : \/ Score(j, Qualification) < Score(i, Qualification)
                                     \/ Score(j, Qualification) = Score(i, Qualification) /\ i <= j
  <2>1. 2..Len(st.evaluated) \subseteq D
    BY <1>0
  <2>2. E' = E /\ E \subseteq D
    BY <1>4, <2>1
  <2>3. \A i \in E : Score(i, Qualification)' = Score(i, Qualification)
    BY <1>2, <1>3, <2>2
  <2>4. \A i \in E : Best(i)' <=> Best(i)
    BY <2>2, <2>3
  <2>5. Winners(st) = {st.evaluated[i] : i \in {j \in E : Best(j)}}
    BY DEF Winners
  <2>6. Winners(st)' = {st.evaluated[i] : i \in {j \in E : Best(j)}}'
    BY DEF Winners
  <2> HIDE DEF E, Best
  <2>7. {j \in E : Best(j)}' = {j \in E : Best(j)}
    BY <2>2, <2>4
  <2> QED BY <2>5, <2>6, <2>7
<1>6. Selected(st)' = Selected(st)
  BY <1>5 DEF Selected
<1>7. Tree(st)' = Tree(st)
  BY <1>2, <1>3 DEF Tree
<1>8. IsGraded(st)'
  BY <1>1 DEF IsGraded
<1> QED BY <1>4, <1>5, <1>6, <1>7, <1>8

(* Only snapshots are added, and nothing that was written goes.            *)
Accumulates ==
  /\ \/ UNCHANGED history
     \/ \E st : history' = Append(history, st)
  /\ reviews \subseteq reviews' /\ decisions \subseteq decisions' /\ stored \subseteq stored'

LEMMA FilesGrow ==
  ASSUME [Next]_vars
  PROVE  Accumulates
<1> USE DEF Accumulates
<1>1. CASE UNCHANGED durable
  BY <1>1 DEF durable
<1>2. ASSUME NEW st, NEW next, SaveState(st, next)
      PROVE  Accumulates
  BY <1>2 DEF SaveState
<1>3. ASSUME NEW code, Stop(code)
      PROVE  Accumulates
  BY <1>2, <1>3 DEF Stop
<1>4. CASE PromoteFails
  BY <1>1, <1>3, <1>4 DEF PromoteFails
<1>5. CASE PublishPointer
  BY <1>5 DEF PublishPointer
<1>6. CASE Supervise
  BY <1>1, <1>2, <1>3, <1>4, <1>5, <1>6
  DEF Supervise, Point, Unlease, PrepareFiles, PrepareState, RunLoad, RunBaseline, RunGraded, RunRound,
      RunExpanded, RunSelect, RunStage, PromoteLoad, PromoteAuthorize, PromoteDecide,
      PromoteActivate, PromoteResume, PromoteCanary, PromoteVerify, RejectLoad, RejectRecord, Rollback,
      TaskLoad, TaskDone
<1>7. CASE Command \/ Review \/ Authority \/ Crash \/ Recover \/ UNCHANGED vars
  BY <1>1, <1>7
  DEF Command, Start, StartPrepare, StartRun, StartPromote, StartReject, StartRollback, StartTask,
      Review, Authority, Elsewhere, Crash, Recover, vars
<1>8. ASSUME NEW c \in Caller, Chain(c)
      PROVE  Accumulates
  BY <1>1, <1>8 DEF Chain, Call, Open, Graded, Proposed, StoreGeneration, Broken, Elsewhere
<1> QED BY <1>6, <1>7, <1>8 DEF Next

(* A snapshot that is added leaves those before it. *)
LEMMA SnapshotsStay ==
  ASSUME CampaignInv, Accumulates
  PROVE  \A n \in DOMAIN history : n \in DOMAIN history' /\ history'[n] = history[n]
BY DEF CampaignInv, Types, Accumulates

-------------------------------------------------------------------------------
(* The batch of a round.                                                   *)

(* In a strict total order of a finite set, every place is taken by one.   *)
LEMMA Places ==
  ASSUME NEW S, IsFiniteSet(S), NEW before \in [S -> SUBSET S],
         \A i \in S : i \notin before[i],
         \A i \in S : \A j \in before[i] : before[j] \subseteq before[i],
         \A i, j \in S : i # j => i \in before[j] \/ j \in before[i]
  PROVE  /\ Cardinality(S) \in Nat
         /\ \A k \in 1..Cardinality(S) : \E i \in S : Cardinality(before[i]) = k - 1
         /\ \A i, j \in S : i # j => Cardinality(before[i]) # Cardinality(before[j])
<1> DEFINE n == Cardinality(S)
           place == [i \in S |-> Cardinality(before[i]) + 1]
<1>1. n \in Nat
  BY FS_CardinalityType
<1>2. ASSUME NEW i \in S
      PROVE  IsFiniteSet(before[i]) /\ Cardinality(before[i]) \in 0..(n - 1)
  <2>1. before[i] \in SUBSET S /\ S # before[i]
    OBVIOUS
  <2>2. /\ IsFiniteSet(before[i]) /\ Cardinality(before[i]) <= n /\ n # Cardinality(before[i])
    BY <2>1, FS_Subset
  <2>3. Cardinality(before[i]) \in Nat
    BY <2>2, FS_CardinalityType
  <2> QED BY <1>1, <2>2, <2>3
<1>3. ASSUME NEW i \in S, NEW j \in before[i]
      PROVE  Cardinality(before[j]) < Cardinality(before[i])
  <2>1. j \in S /\ before[j] \in SUBSET before[i] /\ before[i] # before[j]
    OBVIOUS
  <2>2. /\ Cardinality(before[j]) <= Cardinality(before[i])
        /\ Cardinality(before[i]) # Cardinality(before[j])
    BY <1>2, <2>1, FS_Subset
  <2> QED BY <1>2, <2>1, <2>2
<1>4. ASSUME NEW i \in S, NEW j \in S, i # j
      PROVE  Cardinality(before[i]) # Cardinality(before[j])
  BY <1>2, <1>3, <1>4
<1>5. place \in [S -> 1..n]
  BY <1>1, <1>2
<1>6. \A i, j \in S : place[i] = place[j] => i = j
  BY <1>2, <1>4
<1>7. place \in Injection(S, 1..n)
  BY <1>5, <1>6 DEF Injection, IsInjective
<1>8. IsFiniteSet(1..n) /\ Cardinality(1..n) = n
  BY <1>1, FS_Interval
<1>9. place \in Surjection(S, 1..n)
  BY <1>7, <1>8, FS_Injection
<1>10. ASSUME NEW k \in 1..n
       PROVE  \E i \in S : Cardinality(before[i]) = k - 1
  <2>1. PICK i \in S : place[i] = k
    BY <1>9 DEF Surjection
  <2> QED BY <1>2, <2>1
<1> QED BY <1>1, <1>4, <1>10

(* A prefix of a sequence. *)
LEMMA PrefixFits ==
  ASSUME NEW S, NEW s \in Seq(S), NEW n \in Nat
  PROVE  /\ FirstOf(s, n) \in Seq(S)
         /\ Len(FirstOf(s, n)) = IF n < Len(s) THEN n ELSE Len(s)
         /\ DOMAIN FirstOf(s, n) = 1..Len(FirstOf(s, n))
         /\ \A k \in DOMAIN FirstOf(s, n) : k \in DOMAIN s /\ FirstOf(s, n)[k] = s[k]
<1>1. CASE n < Len(s)
  <2>1. FirstOf(s, n) = SubSeq(s, 1, n)
    BY <1>1 DEF FirstOf
  <2> QED BY <1>1, <2>1
<1>2. CASE ~(n < Len(s))
  <2>1. FirstOf(s, n) = s
    BY <1>2 DEF FirstOf
  <2> QED BY <1>2, <2>1
<1> QED BY <1>1, <1>2

(* The nodes of a tree can be compared. *)
Comparable(tree, seen) ==
  \A i \in seen : i \in Nat \ {0} /\ tree[i].round \in Nat /\ tree[i].score \in Nat

(* A selected batch holds some of the nodes that are seen, none twice.     *)
LEMMA BatchSelected ==
  ASSUME NEW tree, NEW seen, IsFiniteSet(seen), 1 \in seen, Comparable(tree, seen),
         NEW strategy, NEW width \in Nat \ {0}
  PROVE  LET batch == SelectBatch(tree, seen, strategy, width)
         IN  /\ batch \in Seq(seen) /\ batch # <<>> /\ Len(batch) <= width
             /\ DOMAIN batch = 1..Len(batch)
             /\ \A k, l \in DOMAIN batch : k # l => batch[k] # batch[l]
<1> DEFINE S == Available(tree, seen)
           before(i) == {j \in S : Precedes(tree, strategy, j, i)}
           table == [i \in S |-> before(i)]
           place(k) == CHOOSE i \in S : Cardinality(before(i)) = k - 1
           all == [k \in 1..Cardinality(S) |-> place(k)]
<1>1. S \subseteq seen /\ 1 \in S /\ IsFiniteSet(S)
  BY FS_Subset DEF Available
<1>2. Comparable(tree, S)
  BY <1>1 DEF Comparable
<1>3. table \in [S -> SUBSET S] /\ \A i \in S : i \notin table[i]
  BY <1>2 DEF Precedes, Comparable
<1>4. \A i \in S : \A j \in table[i] : table[j] \subseteq table[i]
  BY <1>2 DEF Precedes, Comparable
<1>5. \A i, j \in S : i # j => i \in table[j] \/ j \in table[i]
  BY <1>2 DEF Precedes, Comparable
<1>6. SelectBatch(tree, seen, strategy, width) = FirstOf(all, width)
  BY DEF SelectBatch
<1>7. \A i \in S : table[i] = before(i)
  OBVIOUS
<1> HIDE DEF before, S, table
<1>8. /\ Cardinality(S) \in Nat
      /\ \A k \in 1..Cardinality(S) : \E i \in S : Cardinality(table[i]) = k - 1
  BY <1>1, <1>3, <1>4, <1>5, Places
<1>9. ASSUME NEW k \in 1..Cardinality(S)
      PROVE  place(k) \in S /\ Cardinality(before(place(k))) = k - 1
  BY <1>7, <1>8
<1>10. all \in Seq(seen) /\ Len(all) = Cardinality(S)
  BY <1>1, <1>8, <1>9
<1>11. \A k, l \in 1..Cardinality(S) : k # l => all[k] # all[l]
  BY <1>8, <1>9
<1>12. Cardinality(S) # 0
  BY <1>1, FS_EmptySet
<1> HIDE DEF all
<1>13. /\ FirstOf(all, width) \in Seq(seen) /\ Len(FirstOf(all, width)) <= width
       /\ Len(FirstOf(all, width)) # 0 /\ DOMAIN FirstOf(all, width) = 1..Len(FirstOf(all, width))
       /\ \A k \in DOMAIN FirstOf(all, width) :
            k \in 1..Cardinality(S) /\ FirstOf(all, width)[k] = all[k]
  BY <1>8, <1>10, <1>12, PrefixFits
<1>14. FirstOf(all, width) # <<>>
  BY <1>13
<1> QED BY <1>11, <1>6, <1>13, <1>14

(* It depends on nothing but the nodes that are seen.                      *)
LEMMA BatchIsLocal ==
  ASSUME NEW tree, NEW other, NEW seen, \A i \in seen : other[i] = tree[i], NEW strategy, NEW width
  PROVE  SelectBatch(other, seen, strategy, width) = SelectBatch(tree, seen, strategy, width)
<1> DEFINE S == Available(tree, seen)
           Before(t, i) == {j \in S : Precedes(t, strategy, j, i)}
           At(t, k) == CHOOSE i \in S : Cardinality(Before(t, i)) = k - 1
<1>1. Available(other, seen) = S /\ S \subseteq seen
  BY DEF Available
<1>2. \A i \in S : Before(other, i) = Before(tree, i)
  BY <1>1 DEF Precedes
<1>3. SelectBatch(tree, seen, strategy, width) = FirstOf([k \in 1..Cardinality(S) |-> At(tree, k)], width)
  BY DEF SelectBatch
<1>4. SelectBatch(other, seen, strategy, width) = FirstOf([k \in 1..Cardinality(S) |-> At(other, k)], width)
  BY <1>1 DEF SelectBatch
<1> HIDE DEF Before, S
<1>5. \A k : At(other, k) = At(tree, k)
  BY <1>2
<1> HIDE DEF At
<1>6. [k \in 1..Cardinality(S) |-> At(other, k)] = [k \in 1..Cardinality(S) |-> At(tree, k)]
  BY <1>5
<1> QED BY <1>3, <1>4, <1>6

(* The cases of a plan are finitely many, and so are those that pass.      *)
LEMMA CasesFinite == IsFiniteSet(Cases) /\ \A i, S : S \subseteq Cases => Score(i, S) \in Nat
<1> DEFINE f == [k \in Cases |-> <<"baseline", 0, k>>]
<1>1. f \in [Cases -> Operation] /\ \A k, l \in Cases : f[k] = f[l] => k = l
  BY OperationNames
<1>2. f \in Injection(Cases, Operation)
  BY <1>1 DEF Injection, IsInjective
<1>3. IsFiniteSet(Cases)
  BY <1>2, OperationAssumption, FS_Injection
<1>4. ASSUME NEW i, NEW S, S \subseteq Cases
      PROVE  Score(i, S) \in Nat
  <2>1. {k \in S : Passes(i, k)} \in SUBSET Cases
    BY <1>4
  <2>2. IsFiniteSet({k \in S : Passes(i, k)})
    BY <1>3, <2>1, FS_Subset
  <2> QED BY <2>2, FS_CardinalityType DEF Score
<1> QED BY <1>3, <1>4

(* The tree of a snapshot. *)
LEMMA TreeCompares ==
  ASSUME NEW st, st \in LiveState, Searched(st)
  PROVE  /\ DOMAIN Tree(st) = 1..Len(st.evaluated) /\ DOMAIN st.evaluated = 1..Len(st.evaluated)
         /\ Len(st.evaluated) \in Nat /\ Candidates(st) \in 0..CandidateLimit
         /\ st.evaluated # <<>> => Len(st.evaluated) > 0 /\ Candidates(st) = Len(st.evaluated) - 1
         /\ Comparable(Tree(st), DOMAIN st.evaluated) /\ IsFiniteSet(DOMAIN st.evaluated)
         /\ \A i \in DOMAIN st.evaluated :
              /\ Tree(st)[i] = [parent |-> st.parent[i], round |-> st.round[i], score |-> Score(i, Development)]
              /\ st.parent[i] \in Nat /\ st.round[i] \in Nat /\ Score(i, Development) \in Nat
              /\ st.evaluated[i] \in Generation
<1>1. /\ st.evaluated \in Seq(Generation) /\ st.parent \in Seq(Nat) /\ st.round \in Seq(Nat)
      /\ DOMAIN st.parent = DOMAIN st.evaluated /\ DOMAIN st.round = DOMAIN st.evaluated
      /\ Len(st.evaluated) <= CandidateLimit + 1 /\ CandidateLimit \in Nat
  BY PlanAssumption DEF LiveState, Searched
<1>2. DOMAIN st.evaluated = 1..Len(st.evaluated) /\ Len(st.evaluated) \in Nat
  BY <1>1
<1>3. \A i \in DOMAIN st.evaluated : st.parent[i] \in Nat /\ st.round[i] \in Nat /\ st.evaluated[i] \in Generation
  <2>1. /\ \A i \in DOMAIN st.parent : st.parent[i] \in Nat
        /\ \A i \in DOMAIN st.round : st.round[i] \in Nat
        /\ \A i \in DOMAIN st.evaluated : st.evaluated[i] \in Generation
    <3>1. ASSUME NEW S, NEW s \in Seq(S) PROVE \A i \in DOMAIN s : s[i] \in S
      OBVIOUS
    <3> QED BY <1>1, <3>1, Zenon
  <2> QED BY <1>1, <2>1, Zenon
<1>4. \A i : Score(i, Development) \in Nat
  BY CasesFinite, PlanAssumption DEF Cases
<1>5. IsFiniteSet(DOMAIN st.evaluated)
  BY <1>2, FS_Interval
<1>6. st.evaluated # <<>> => Len(st.evaluated) > 0
  BY <1>1
<1>7. Candidates(st) \in 0..CandidateLimit
  BY <1>1, <1>2, <1>6 DEF Candidates
<1>8. DOMAIN Tree(st) = DOMAIN st.evaluated
  BY DEF Tree
<1>9. \A i \in DOMAIN st.evaluated : 
        Tree(st)[i] = [parent |-> st.parent[i], round |-> st.round[i], score |-> Score(i, Development)]
  BY DEF Tree
<1>10. Comparable(Tree(st), DOMAIN st.evaluated)
  <2>1. \A i \in DOMAIN st.evaluated : i \in Nat \ {0}
    BY <1>2
  <2>2. \A i \in DOMAIN st.evaluated : Tree(st)[i].round \in Nat /\ Tree(st)[i].score \in Nat
    <3> TAKE i \in DOMAIN st.evaluated
    <3>1. Tree(st)[i] = [parent |-> st.parent[i], round |-> st.round[i], score |-> Score(i, Development)]
      BY <1>9
    <3>2. Tree(st)[i].round = st.round[i] /\ Tree(st)[i].score = Score(i, Development)
      BY <3>1
    <3> QED BY <1>3, <1>4, <3>2
  <2> QED BY <2>1, <2>2 DEF Comparable
<1> QED BY <1>2, <1>3, <1>4, <1>5, <1>6, <1>7, <1>8, <1>9, <1>10 DEF Candidates

(* The batch of the next round. *)
LEMMA BatchFits ==
  ASSUME CampaignInv, history # <<>>, Now.evaluated # <<>>
  PROVE  /\ Batch \in Seq(DOMAIN Now.evaluated) /\ DOMAIN Batch = 1..Len(Batch) /\ Len(Batch) \in Nat
         /\ Len(Batch) <= MaxParallelism /\ Len(Batch) <= CandidateLimit - Candidates(Now)
         /\ Candidates(Now) < CandidateLimit => Len(Batch) > 0
         /\ DOMAIN Batch \subseteq Caller
         /\ \A k, l \in DOMAIN Batch : k # l => Batch[k] # Batch[l]
<1> DEFINE all == SelectBatch(Tree(Now), DOMAIN Now.evaluated, Strategy, MaxParallelism)
           n == CandidateLimit - Candidates(Now)
<1>1. Now \in LiveState /\ Searched(Now)
  BY NowFits DEF Shape
<1>2. MaxParallelism \in Nat \ {0} /\ CandidateLimit \in Nat /\ Caller = 1..MaxParallelism
  BY PlanAssumption
<1>3. /\ all \in Seq(DOMAIN Now.evaluated) /\ all # <<>> /\ Len(all) <= MaxParallelism
      /\ DOMAIN all = 1..Len(all) /\ \A k, l \in DOMAIN all : k # l => all[k] # all[l]
  <2>1. /\ Comparable(Tree(Now), DOMAIN Now.evaluated) /\ IsFiniteSet(DOMAIN Now.evaluated)
        /\ 1 \in DOMAIN Now.evaluated
    BY <1>1, TreeCompares
  <2> QED BY <1>2, <2>1, BatchSelected
<1>4. n \in Nat
  BY <1>1, <1>2, TreeCompares
<1>5. Batch = FirstOf(all, n)
  BY DEF Batch
<1> HIDE DEF all, n
<1>6. /\ Batch \in Seq(DOMAIN Now.evaluated) /\ DOMAIN Batch = 1..Len(Batch)
      /\ Len(Batch) = IF n < Len(all) THEN n ELSE Len(all)
      /\ \A k \in DOMAIN Batch : k \in DOMAIN all /\ Batch[k] = all[k]
  BY <1>3, <1>4, <1>5, PrefixFits
<1>7. Len(all) > 0 /\ Len(all) \in Nat
  BY <1>3
<1>8. Len(Batch) \in Nat /\ Len(Batch) <= MaxParallelism /\ Len(Batch) <= n
  BY <1>2, <1>3, <1>4, <1>6, <1>7
<1>9. Candidates(Now) < CandidateLimit => Len(Batch) > 0
  <2>1. Candidates(Now) \in Nat
    BY <1>1, TreeCompares
  <2> QED BY <1>2, <1>4, <1>6, <1>7, <2>1 DEF n
<1> QED BY <1>2, <1>3, <1>6, <1>8, <1>9 DEF n

(* What a step of a campaign does to the files, whatever the step.         *)
LEMMA StepFacts ==
  ASSUME CampaignInv, [Next]_vars
  PROVE  /\ CallInv' /\ KeepsFiles /\ Accumulates
         /\ \A n \in DOMAIN history : n \in DOMAIN history' /\ history'[n] = history[n]
<1>1. [OpNext]_opVars
  BY CampaignCalls
<1>2. CallInv /\ CallInv' /\ KeepsFiles
  BY <1>1, CallInvNext, FilesStay DEF CampaignInv
<1> QED BY <1>2, FilesGrow, SnapshotsStay

(* What the snapshots that are there say of the receipts stays.            *)
LEMMA SnapshotsKeep ==
  ASSUME CampaignInv, KeepsFiles, NEW n \in DOMAIN history, NEW st, st = history[n]
  PROVE  /\ IsGraded(st) /\ IsGraded(st)'
         /\ \A i \in DOMAIN st.evaluated : Eligible(i)' <=> Eligible(i)
         /\ Winners(st)' = Winners(st) /\ Selected(st)' = Selected(st) /\ Tree(st)' = Tree(st)
<1>1. IsGraded(st)
  BY DEF CampaignInv, Snapshots, Holds
<1>2. Shape(st)
  BY DEF CampaignInv, Snapshots, Holds
<1>3. st.evaluated \in Seq(Generation) /\ Len(st.evaluated) <= CandidateLimit + 1
  BY <1>2 DEF Shape, LiveState, Searched
<1> QED BY <1>1, <1>3, ScoresStay

LEMMA BatchStays ==
  ASSUME CampaignInv, KeepsFiles, UNCHANGED history, history # <<>>
  PROVE  Batch' = Batch
<1>1. PICK st : st = history[Len(history)]
  OBVIOUS
<1>2. Now = st /\ Now' = st /\ Len(history) \in DOMAIN history
  BY <1>1, NowFits DEF Now
<1>3. Tree(st)' = Tree(st)
  BY <1>1, <1>2, SnapshotsKeep
<1>4. Batch = FirstOf(SelectBatch(Tree(st), DOMAIN st.evaluated, Strategy, MaxParallelism),
                      CandidateLimit - Candidates(st))
  BY <1>2 DEF Batch
<1>5. Batch' = FirstOf(SelectBatch(Tree(st)', DOMAIN st.evaluated, Strategy, MaxParallelism),
                       CandidateLimit - Candidates(st))
  BY <1>2 DEF Batch, Tree, Candidates, Score, Passes
<1> QED BY <1>3, <1>4, <1>5

-------------------------------------------------------------------------------
(* The snapshots.                                                          *)

(* What a canary has proven stays proven.                                  *)
LEMMA ProvenStays == ASSUME KeepsFiles, NEW g, Proven(g) PROVE Proven(g)'
<1>1. \A k \in Canaries : receipt[<<"probe", 0, k>>] = "pass" => receipt'[<<"probe", 0, k>>] = "pass"
  <2> TAKE k \in Canaries
  <2>1. <<"probe", 0, k>> \in Operation
    BY OperationNames
  <2>2. "pass" # None
    BY PlanAssumption, ValueAssumption DEF Verdict
  <2> QED BY <2>1, <2>2 DEF KeepsFiles
<1> QED BY <1>1 DEF Proven, Canaries

(* What holds of a snapshot holds of it for ever.                          *)
LEMMA HoldsStays ==
  ASSUME CampaignInv, KeepsFiles, Accumulates, NEW n \in 1..(Len(history) + 1), NEW st, Holds(st, n)
  PROVE  Holds(st, n)'
<1>1. Shape(st)' /\ st \in LiveState /\ Searched(st) /\ st.evaluated \in Seq(Generation)
      /\ st.retained \in Seq(Generation) /\ Len(st.evaluated) <= CandidateLimit + 1
  BY DEF Holds, Shape, LiveState, Searched, Reviewed, Retains, Chosen
<1>2. IsGraded(st)' /\ Tree(st)' = Tree(st)
  BY <1>1, ScoresStay DEF Holds
<1>3. TreeFits(st)'
  <2>1. Explored(Tree(st)', st.rounds, Strategy, MaxParallelism, CandidateLimit)
    BY <1>2 DEF Holds, TreeFits
  <2>2. ASSUME NEW i \in 2..Len(st.evaluated)
        PROVE  intent'[Proposal(i - 2)] = st.evaluated[st.parent[i]]
    <3>1. /\ intent[Proposal(i - 2)] = st.evaluated[st.parent[i]] /\ st.parent[i] \in 1..(i - 1)
      BY <2>2 DEF Holds, TreeFits
    <3>2. /\ Len(st.evaluated) \in Nat /\ CandidateLimit \in Nat
      BY <1>1, PlanAssumption
    <3>3. st.parent[i] \in 1..Len(st.evaluated) /\ i - 2 \in Nat /\ i - 2 < CandidateLimit
      BY <1>1, <3>1, <3>2
    <3>4. st.evaluated[st.parent[i]] \in Generation
      BY <1>1, <3>3
    <3>5. Proposal(i - 2) \in Operation
      BY <3>3, OperationNames DEF Proposal
    <3> QED BY <3>1, <3>4, <3>5, ValueAssumption DEF KeepsFiles
  <2> QED BY <2>1, <2>2 DEF Holds, TreeFits, Candidates, Proposal
<1>4. Backed(st, n)'
  <2> SUFFICES ASSUME st.review # None
               PROVE  Backed(st, n)'
    BY DEF Backed
  <2> DEFINE seq == st.review.request.seq
  <2>1. seq \in 1..(n - 1) /\ n \in Nat /\ Len(history) \in Nat /\ DOMAIN history = 1..Len(history)
    BY DEF Holds, Backed, CampaignInv, Types
  <2>2. seq \in DOMAIN history /\ history'[seq] = history[seq]
    BY <2>1, SnapshotsStay
  <2>3. PICK before : before = history[seq]
    OBVIOUS
  <2>4. Winners(before)' = Winners(before) /\ Selected(before)' = Selected(before)
    BY <2>2, <2>3, SnapshotsKeep
  <2>5. Request(before, seq, st.review.request.candidate)' = Request(before, seq, st.review.request.candidate)
    BY DEF Request
  <2>6. /\ st.review.request \in reviews /\ before.evaluated = st.evaluated /\ before.active = Base
        /\ Selected(before) = st.review.request.candidate /\ Selected(before) \in Winners(before)
        /\ st.review.request = Request(before, seq, st.review.request.candidate)
        /\ st.review.decision # None => st.review.decision \in decisions
    BY <2>3 DEF Holds, Backed
  <2>7. reviews \subseteq reviews' /\ decisions \subseteq decisions'
    BY DEF Accumulates
  <2>8. /\ Selected(history[seq])' = Selected(before)' /\ Winners(history[seq])' = Winners(before)'
        /\ Request(history[seq], seq, st.review.request.candidate)' = Request(before, seq, st.review.request.candidate)'
    <3>1. history'[seq] = before
      BY <2>2, <2>3
    <3> QED BY <3>1 DEF Selected, Winners, Request, Eligible, Score, Passes, EvalOp
  <2>9. /\ Selected(history[seq])' = st.review.request.candidate
        /\ Selected(history[seq])' \in Winners(history[seq])'
        /\ st.review.request = Request(history[seq], seq, st.review.request.candidate)'
        /\ (history[seq].evaluated)' = st.evaluated /\ (history[seq].active)' = Base
        /\ st.review.request \in reviews' /\ (st.review.decision # None => st.review.decision \in decisions')
    BY <2>2, <2>3, <2>4, <2>5, <2>6, <2>7, <2>8
  <2> QED BY <2>1, <2>9 DEF Backed
<1>5. \A g \in ToSet(st.retained) : Proven(g)'
  BY ProvenStays DEF Holds
<1>6. ToSet(st.retained) \cup ToSet(st.evaluated) \cup {st.active} \subseteq stored'
  BY DEF Holds, Accumulates
<1> QED BY <1>1, <1>2, <1>3, <1>4, <1>5, <1>6 DEF Holds

(* What a step must see to before it saves a snapshot.                     *)
Follows(st) ==
  /\ Holds(st, Len(history) + 1)
  /\ IF history = <<>> THEN st = Prepared ELSE Candidates(st) >= Candidates(Now)

LEMMA SnapshotAdded ==
  ASSUME CampaignInv, KeepsFiles, NEW st, NEW next, SaveState(st, next), Follows(st)
  PROVE  Snapshots' /\ history' \in Seq(LiveState) /\ Len(history') = Len(history) + 1
         /\ history'[Len(history) + 1] = st
<1> DEFINE n == Len(history) + 1
<1>1. history \in Seq(LiveState) /\ st \in LiveState
  BY DEF CampaignInv, Types, Follows, Holds, Shape
<1>2. /\ history' = Append(history, st) /\ history' \in Seq(LiveState)
      /\ Len(history') = n /\ Len(history) \in Nat /\ DOMAIN history' = 1..n /\ history'[n] = st
      /\ \A m \in DOMAIN history : m \in DOMAIN history' /\ history'[m] = history[m] /\ m \in 1..n
      /\ \A m \in DOMAIN history' : m # n => m \in DOMAIN history
  BY <1>1 DEF SaveState
<1>3. Accumulates
  BY <1>2 DEF SaveState, Accumulates
<1>4. ASSUME NEW m \in DOMAIN history'
      PROVE  Holds(history[m], m)'
  <2>1. PICK s : s = history'[m]
    OBVIOUS
  <2>2. Holds(s, m) /\ m \in 1..n
    BY <1>2, <2>1 DEF CampaignInv, Snapshots, Follows
  <2>3. Holds(s, m)'
    BY <1>3, <2>2, HoldsStays
  <2> QED BY <2>1, <2>3
<1>5. ASSUME NEW m \in DOMAIN history', m > 1
      PROVE  Candidates(history'[m]) >= Candidates(history'[m-1])
  <2>1. CASE m \in DOMAIN history
    <3>1. m - 1 \in DOMAIN history
      BY <1>1, <1>5, <2>1
    <3> QED BY <1>2, <1>5, <2>1, <3>1 DEF CampaignInv, Snapshots
  <2>2. CASE m = n
    <3>1. history # <<>> /\ m - 1 = Len(history) /\ Len(history) \in DOMAIN history
      BY <1>1, <1>2, <1>5, <2>2
    <3> QED BY <1>2, <2>2, <3>1 DEF Follows, Now
  <2> QED BY <1>2, <2>1, <2>2
<1>6. history'[1] = Prepared
  <2>1. CASE history = <<>>
    BY <1>2, <2>1 DEF Follows
  <2>2. CASE history # <<>>
    <3>1. 1 \in DOMAIN history
      BY <1>1, <2>2
    <3> QED BY <1>2, <2>2, <3>1 DEF CampaignInv, Snapshots
  <2> QED BY <2>1, <2>2
<1>7. \A m \in DOMAIN history' : m > 1 => (Candidates(history[m]) >= Candidates(history[m-1]))'
  BY <1>5 DEF Candidates
<1> QED BY <1>2, <1>4, <1>6, <1>7 DEF Snapshots, Prepared

LEMMA SnapshotsUnchanged ==
  ASSUME CampaignInv, KeepsFiles, Accumulates, UNCHANGED history
  PROVE  Snapshots'
<1>1. ASSUME NEW m \in DOMAIN history
      PROVE  Holds(history[m], m)'
  <2>1. PICK s : s = history[m]
    OBVIOUS
  <2>2. Holds(s, m) /\ m \in 1..(Len(history) + 1)
    BY <2>1 DEF CampaignInv, Snapshots, Types
  <2>3. Holds(s, m)'
    BY <2>2, HoldsStays
  <2>4. history'[m] = s
    BY <2>1
  <2> QED BY <2>3, <2>4
<1> QED BY <1>1 DEF CampaignInv, Snapshots, Candidates, Prepared

-------------------------------------------------------------------------------
(* The snapshots that are saved.                                           *)
Saved(st, next) ==
  /\ SaveState(st, next) /\ Follows(st)
  /\ next \in {"round", "canary", "release"}
  /\ next = "round" => st.phase \in {"baseline", "search"}
  /\ next = "canary" => st.phase = "probe"
  /\ served \subseteq {Base} \cup Chosen(st)
  /\ st.phase = "probe" => served \subseteq {Base}

LEMMA NowHolds ==
  ASSUME CampaignInv, history # <<>>
  PROVE  /\ Holds(Now, Len(history)) /\ Shape(Now) /\ Now \in LiveState
         /\ served \subseteq {Base} \cup Chosen(Now)
BY NowFits DEF CampaignInv, Snapshots, Now, Shape, Holds, Served

(* A snapshot that leaves the search as it is.                             *)
LEMMA Continues ==
  ASSUME CampaignInv, history # <<>>, NEW st, Shape(st), Backed(st, Len(history) + 1),
         st.evaluated = Now.evaluated, st.parent = Now.parent, st.round = Now.round,
         st.rounds = Now.rounds,
         st.phase \in {"awaiting_review", "complete", "rejected", "rolled_back", "probe"} =>
           Now.rounds = MaxRounds \/ Candidates(Now) = CandidateLimit,
         \A g \in ToSet(st.retained) : Proven(g), ToSet(st.retained) \cup {st.active} \subseteq stored
  PROVE  Follows(st)
<1>1. Holds(Now, Len(history)) /\ Now \in LiveState /\ Searched(Now)
  BY NowHolds DEF Shape
<1>2. Tree(st) = Tree(Now) /\ Candidates(st) = Candidates(Now)
  BY DEF Tree, Candidates
<1>3. TreeFits(st)
  BY <1>1, <1>2 DEF Holds, TreeFits
<1>4. IsGraded(st)
  BY <1>1 DEF Holds, IsGraded
<1>5. Candidates(Now) \in Nat
  BY <1>1, TreeCompares
<1>6. Candidates(st) >= Candidates(Now)
  BY <1>2, <1>5
<1> QED BY <1>1, <1>3, <1>4, <1>6 DEF Holds, Follows

(* A review stays backed by the snapshot it was requested for.             *)
LEMMA BackedStill ==
  ASSUME CampaignInv, history # <<>>, NEW st, st.evaluated = Now.evaluated,
         st.review # None => /\ Now.review # None /\ st.review.request = Now.review.request
                             /\ st.review.decision # None => st.review.decision \in decisions
  PROVE  Backed(st, Len(history) + 1)
<1>1. Backed(Now, Len(history)) /\ Len(history) \in Nat
  BY NowHolds, NowFits DEF Holds
<1> SUFFICES ASSUME st.review # None
             PROVE  Backed(st, Len(history) + 1)
  BY DEF Backed
<1>2. st.review.request.seq \in 1..Len(history) /\ Len(history) + 1 - 1 = Len(history)
  BY <1>1 DEF Backed
<1> QED BY <1>1, <1>2 DEF Backed

(* Only the base prompt is retained before a candidate is proven.          *)
LEMMA BaseRetained ==
  ASSUME CampaignInv, history # <<>>,
         Now.phase \in Searching \cup {"awaiting_review", "probe"}
  PROVE  /\ Now.retained = <<Base>> /\ Last(Now.retained) = Base /\ Base \in Generation
         /\ ToSet(Now.retained) = {Base} /\ Base \in stored /\ Proven(Base)
         /\ Now.phase # "probe" => Now.active = Base /\ served \subseteq {Base}
<1>1. Shape(Now) /\ Holds(Now, Len(history))
  BY NowHolds
<1>2. Now.phase # "probe" => Chosen(Now) = {}
  BY <1>1 DEF Chosen, Shape, Reviewed, Searching
<1>3. Now.retained = <<Base>>
  BY <1>1, <1>2 DEF Shape, Retains
<1>4. Last(Now.retained) = Base /\ ToSet(Now.retained) = {Base}
  BY <1>3 DEF Last, ToSet
<1>5. Now.phase # "probe" => Now.active = Base
  BY <1>1, <1>4 DEF Shape, Retains
<1> QED BY <1>1, <1>2, <1>3, <1>4, <1>5, NowHolds, PlanAssumption DEF Holds, Proven

(* The failure of a campaign. *)
LEMMA StopSaves ==
  ASSUME CampaignInv, history # <<>>, Now.phase \in Searching \cup {"probe"}, NEW code \in ErrorCode,
         Stop(code)
  PROVE  \E st : Saved(st, "release") /\ st.phase = "failed"
<1> DEFINE st == [Now EXCEPT !.phase = "failed", !.active = Last(Now.retained), !.error = code]
<1>1. Now \in LiveState /\ Searched(Now) /\ Reviewed(Now) /\ Retains(Now)
  BY NowHolds DEF Shape
<1>2. /\ Last(Now.retained) = Base /\ Base \in Generation /\ Now.retained = <<Base>>
      /\ ToSet(Now.retained) = {Base} /\ Base \in stored /\ Proven(Base)
  BY BaseRetained
<1>3. /\ st.phase = "failed" /\ st.active = Base /\ st.error = code /\ st.review = Now.review
      /\ st.retained = Now.retained /\ st.evaluated = Now.evaluated /\ st.parent = Now.parent
      /\ st.round = Now.round /\ st.rounds = Now.rounds
  BY <1>1, <1>2 DEF LiveState
<1>4. st \in LiveState
  BY <1>1, <1>2 DEF LiveState
<1> HIDE DEF st
<1>5. Searched(st)
  BY <1>1, <1>3 DEF Searched
<1>6. Reviewed(st)
  BY <1>1, <1>3 DEF Reviewed, Searching
<1>7. Retains(st)
  BY <1>2, <1>3 DEF Retains
<1>8. Backed(st, Len(history) + 1)
  <2>1. st.review # None /\ st.review.decision # None => st.review.decision \in decisions
    BY <1>3, NowHolds DEF Holds, Backed
  <2> QED BY <1>3, <2>1, BackedStill
<1>9. Follows(st)
  BY <1>2, <1>3, <1>4, <1>5, <1>6, <1>7, <1>8, Continues DEF Shape
<1>10. SaveState(st, "release")
  BY DEF Stop, st
<1>11. Chosen(Now) \subseteq Chosen(st)
  BY <1>3 DEF Chosen
<1> QED BY <1>3, <1>9, <1>10, <1>11, NowHolds DEF Saved

(* prepareLive saves the first snapshot. *)
LEMMA PreparedSaves ==
  ASSUME CampaignInv, history = <<>>, run.at = "first", SaveState(Prepared, "release")
  PROVE  Saved(Prepared, "release")
<1>1. Base \in Generation /\ Base \in stored
  BY PlanAssumption DEF CampaignInv, Stored
<1>2. Prepared \in LiveState
  <2>1. <<Base>> \in Seq(Generation) /\ <<>> \in Seq(Generation) /\ <<>> \in Seq(Nat)
    BY <1>1
  <2> QED BY <1>1, <2>1 DEF Prepared, LiveState, Searching
<1>3. Searched(Prepared)
  BY PlanAssumption DEF Prepared, Searched
<1>4. Reviewed(Prepared) /\ Retains(Prepared)
  BY DEF Prepared, Reviewed, Retains, ToSet
<1>5. TreeFits(Prepared)
  <2>1. DOMAIN Tree(Prepared) = {}
    BY DEF Tree, Prepared
  <2>2. Explored(Tree(Prepared), 0, Strategy, MaxParallelism, CandidateLimit)
    BY <2>1 DEF Explored
  <2> QED BY <2>2 DEF TreeFits, Prepared
<1>6. IsGraded(Prepared) /\ Backed(Prepared, Len(history) + 1)
  BY DEF IsGraded, Backed, Prepared
<1>7. ToSet(Prepared.retained) = {Base} /\ ToSet(Prepared.evaluated) = {} /\ Prepared.active = Base
  BY DEF Prepared, ToSet
<1>8. Holds(Prepared, Len(history) + 1)
  BY <1>1, <1>2, <1>3, <1>4, <1>5, <1>6, <1>7 DEF Holds, Shape, Proven
<1> QED BY <1>8 DEF Saved, Follows, CampaignInv, Served, Prepared

(* runLive saves the graded baseline. *)
BaselineState == [Now EXCEPT !.phase = "baseline", !.evaluated = <<Base>>, !.parent = <<0>>, !.round = <<0>>]

LEMMA BaselineSaves ==
  ASSUME CampaignInv, history # <<>>, run.at = "grade", BatchEnded, SaveState(BaselineState, "round")
  PROVE  Saved(BaselineState, "round")
<1> DEFINE st == BaselineState
<1>1. /\ Now \in LiveState /\ Searched(Now) /\ Reviewed(Now) /\ Retains(Now) /\ Holds(Now, Len(history))
      /\ Now.phase = "prepared"
  BY NowHolds, NowFits DEF Shape, CampaignInv, Place
<1>2. /\ st.phase = "baseline" /\ st.active = Now.active /\ st.error = Now.error /\ st.review = Now.review
      /\ st.retained = Now.retained /\ st.evaluated = <<Base>> /\ st.parent = <<0>>
      /\ st.round = <<0>> /\ st.rounds = Now.rounds
  BY <1>1 DEF LiveState, BaselineState
<1>3. Base \in Generation /\ CandidateLimit \in Nat
  BY PlanAssumption
<1>4. st \in LiveState
  <2>1. <<Base>> \in Seq(Generation) /\ <<0>> \in Seq(Nat)
    BY <1>3
  <2> QED BY <1>1, <2>1 DEF LiveState, BaselineState, Searching
<1> HIDE DEF st
<1>5. Now.evaluated = <<>> /\ Now.rounds = 0 /\ Now.review = None
  BY <1>1 DEF Searched, Reviewed, Searching
<1>6. Now.retained = <<Base>> /\ Now.active = Base /\ Base \in stored /\ ToSet(Now.retained) = {Base}
      /\ Proven(Base) /\ served \subseteq {Base}
  BY <1>1, BaseRetained DEF Searching
<1>7. Searched(st)
  BY <1>1, <1>2, <1>3, <1>5 DEF Searched
<1>8. Reviewed(st) /\ Retains(st) /\ Backed(st, Len(history) + 1)
  BY <1>2, <1>5, <1>6 DEF Reviewed, Retains, Backed, Searching
<1>9. \A k \in Cases : GradedAs(<<"baseline", 0, k>>, Base)
  <2>1. 1 \in Caller /\ chain[1].kind = "ended"
    BY PlanAssumption DEF CampaignInv, Work, Single, BatchEnded
  <2> QED BY <2>1 DEF CampaignInv, Grades
<1>10. IsGraded(st)
  <2>1. DOMAIN <<Base>> = {1} /\ <<Base>>[1] = Base
    OBVIOUS
  <2>2. \A i \in DOMAIN st.evaluated : i = 1 /\ st.evaluated[i] = Base
    BY <1>2, <2>1
  <2> QED BY <1>9, <2>2 DEF IsGraded, EvalOp
<1>11. TreeFits(st)
  <2>1. DOMAIN Tree(st) = {1} /\ Tree(st)[1].round = 0
    <3>1. st.evaluated = <<Base>> /\ st.round = <<0>>
      BY <1>2
    <3>2. DOMAIN st.evaluated = {1}
      <4>1. DOMAIN <<Base>> = 1..1 /\ 1..1 = {1}
        OBVIOUS
      <4> QED BY <3>1, <4>1
    <3>3. st.round[1] = 0
      BY <3>1
    <3>4. Tree(st) = [i \in {1} |-> [parent |-> st.parent[i], round |-> st.round[i], score |-> Score(i, Development)]]
      BY <3>2 DEF Tree
    <3> QED BY <3>3, <3>4
  <2>2. {i \in DOMAIN Tree(st) : Tree(st)[i].round <= 0} = DOMAIN Tree(st)
    BY <2>1
  <2>3. Explored(Tree(st), 0, Strategy, MaxParallelism, CandidateLimit)
    BY <2>2 DEF Explored
  <2> QED BY <1>2, <1>5, <2>3 DEF TreeFits
<1>12. Holds(st, Len(history) + 1)
  <2>1. ToSet(st.evaluated) = {Base}
    BY <1>2 DEF ToSet
  <2> QED BY <1>2, <1>4, <1>6, <1>7, <1>8, <1>10, <1>11, <2>1 DEF Holds, Shape
<1>13. Candidates(st) >= Candidates(Now)
  BY <1>2, <1>5 DEF Candidates
<1> QED BY <1>2, <1>6, <1>12, <1>13 DEF Saved, Follows, st

(* A search without a winner is complete. *)
CompleteState == [Now EXCEPT !.phase = "complete"]

LEMMA CompleteSaves ==
  ASSUME CampaignInv, history # <<>>, run.at = "select", SaveState(CompleteState, "release")
  PROVE  Saved(CompleteState, "release")
<1> DEFINE st == CompleteState
<1>1. /\ Now \in LiveState /\ Searched(Now) /\ Reviewed(Now) /\ Retains(Now) /\ Holds(Now, Len(history))
      /\ Now.phase \in {"baseline", "search"}
  BY NowHolds, NowFits DEF Shape, CampaignInv, Place
<1>2. /\ st.phase = "complete" /\ st.active = Now.active /\ st.error = Now.error /\ st.review = Now.review
      /\ st.retained = Now.retained /\ st.evaluated = Now.evaluated /\ st.parent = Now.parent
      /\ st.round = Now.round /\ st.rounds = Now.rounds
  BY <1>1 DEF LiveState, CompleteState
<1>3. st \in LiveState
  BY <1>1 DEF LiveState, CompleteState
<1> HIDE DEF st
<1>4. Now.review = None
  BY <1>1 DEF Reviewed, Searching
<1>5. Now.retained = <<Base>> /\ Now.active = Base /\ Base \in stored /\ ToSet(Now.retained) = {Base}
      /\ Proven(Base) /\ served \subseteq {Base}
  BY <1>1, BaseRetained DEF Searching
<1>6. Searched(st)
  BY <1>1, <1>2 DEF Searched
<1>7. Reviewed(st) /\ Retains(st) /\ Backed(st, Len(history) + 1)
  BY <1>2, <1>4, <1>5 DEF Reviewed, Retains, Backed, Searching
<1>8. Now.rounds = MaxRounds \/ Candidates(Now) = CandidateLimit
  BY DEF CampaignInv, Grown
<1>9. Follows(st)
  BY <1>2, <1>3, <1>5, <1>6, <1>7, <1>8, Continues DEF Shape
<1> QED BY <1>2, <1>5, <1>9 DEF Saved, st

(* What a snapshot selects is the first evaluation of a winner. *)
LEMMA SelectedFits ==
  ASSUME CampaignInv, history # <<>>, Selected(Now) # None
  PROVE  /\ Selected(Now) \in Winners(Now) /\ Selected(Now) \in Generation
         /\ Request(Now, Len(history), Selected(Now)) \in ReviewRequest
<1>1. Now \in LiveState /\ Now.evaluated \in Seq(Generation) /\ Now.active \in Generation
  BY NowHolds DEF LiveState
<1>2. Selected(Now) \in Winners(Now)
  BY DEF Selected
<1>3. PICK i \in 2..Len(Now.evaluated) : Selected(Now) = Now.evaluated[i]
  BY <1>2 DEF Winners
<1>4. Selected(Now) \in Generation
  BY <1>1, <1>3
<1> DEFINE g == Selected(Now)
           S == {j \in DOMAIN Now.evaluated : Now.evaluated[j] = g}
<1> HIDE DEF g
<1>5. S \in SUBSET Nat /\ S # {}
  BY <1>1, <1>3 DEF g
<1>6. PICK n \in S : \A m \in S : n <= m
  BY <1>5, LeastNumber
<1>7. n \in DOMAIN Now.evaluated /\ Now.evaluated[n] = g /\ \A j \in 1..(n - 1) : Now.evaluated[j] # g
  <2>1. \A j \in 1..(n - 1) : j \in DOMAIN Now.evaluated /\ ~(n <= j)
    BY <1>1, <1>6
  <2> QED BY <1>6, <2>1
<1>8. (CHOOSE j \in DOMAIN Now.evaluated : /\ Now.evaluated[j] = g
                                            /\ \A m \in 1..(j - 1) : Now.evaluated[m] # g) \in Nat
  BY <1>1, <1>7
<1>9. Len(history) \in Nat
  BY NowFits
<1>10. Request(Now, Len(history), g) \in ReviewRequest
  BY <1>1, <1>4, <1>8, <1>9 DEF Request, ReviewRequest, g
<1> QED BY <1>2, <1>4, <1>10 DEF g

(* A winner is staged for review. *)
StageState == [Now EXCEPT !.phase = "awaiting_review",
                          !.review = [request |-> Request(Now, Len(history), Selected(Now)),
                                      decision |-> None]]

LEMMA StageSaves ==
  ASSUME CampaignInv, history # <<>>, run.at = "stage", SaveState(StageState, "release")
  PROVE  Saved(StageState, "release")
<1> DEFINE st == StageState
           g == Selected(Now)
           q == Request(Now, Len(history), g)
<1>1. /\ Now \in LiveState /\ Searched(Now) /\ Reviewed(Now) /\ Retains(Now) /\ Holds(Now, Len(history))
      /\ Now.phase \in {"baseline", "search"} /\ g \notin {None, Base} /\ q \in reviews
  BY NowHolds, NowFits DEF Shape, CampaignInv, Place, Decided
<1>2. g \in Winners(Now) /\ g \in Generation /\ q \in ReviewRequest
  BY <1>1, SelectedFits
<1>3. /\ q.candidate = g /\ q.incumbent = Now.active /\ q.seq = Len(history)
  BY DEF Request
<1> DEFINE r == [request |-> q, decision |-> None]
<1>4. r \in ReviewState /\ r # None /\ r.request = q /\ r.decision = None
  BY <1>2, NoneIsNothing DEF ReviewState
<1>5. st = [Now EXCEPT !.phase = "awaiting_review", !.review = r]
  BY DEF StageState
<1> HIDE DEF q, g, r
<1>6. /\ st.phase = "awaiting_review" /\ st.active = Now.active /\ st.error = Now.error /\ st.review = r
      /\ st.retained = Now.retained /\ st.evaluated = Now.evaluated /\ st.parent = Now.parent
      /\ st.round = Now.round /\ st.rounds = Now.rounds
  BY <1>1, <1>5 DEF LiveState
<1>7. st \in LiveState
  BY <1>1, <1>4, <1>5 DEF LiveState
<1> HIDE DEF st
<1>8. Now.retained = <<Base>> /\ Now.active = Base /\ Base \in stored /\ ToSet(Now.retained) = {Base}
      /\ Proven(Base) /\ served \subseteq {Base}
  BY <1>1, BaseRetained DEF Searching
<1>9. Searched(st)
  BY <1>1, <1>6 DEF Searched
<1>10. Reviewed(st) /\ Retains(st)
  BY <1>1, <1>3, <1>4, <1>6, <1>8 DEF Reviewed, Retains, Searching
<1>11. Backed(st, Len(history) + 1)
  <2>1. Len(history) \in 1..(Len(history) + 1 - 1) /\ history[Len(history)] = Now
    BY NowFits
  <2> QED BY <1>1, <1>2, <1>3, <1>4, <1>6, <1>8, <2>1 DEF Backed, g, q
<1>12. Now.rounds = MaxRounds \/ Candidates(Now) = CandidateLimit
  BY DEF CampaignInv, Grown
<1>13. Follows(st)
  BY <1>6, <1>7, <1>8, <1>9, <1>10, <1>11, <1>12, Continues DEF Shape
<1> QED BY <1>6, <1>8, <1>13 DEF Saved, st

(* A decision is on record when its snapshot is saved. *)
LEMMA DecisionFits ==
  ASSUME CampaignInv, history # <<>>, Now.phase = "awaiting_review", run.cmd \in {"promote", "reject"},
         NEW outcome \in Outcome
  PROVE  /\ Decision(outcome) \in ReviewDecision /\ Decision(outcome) # None
         /\ Decision(outcome).candidate = Now.review.request.candidate
         /\ Decision(outcome).outcome = outcome /\ Decision(outcome).approval = run.arg
         /\ Now.review \in ReviewState /\ Now.review # None /\ Now.review.request \in ReviewRequest
         /\ Now.review.request.candidate \in Generation \ {Base}
         /\ Now.review.request.incumbent = Base
<1>1. Now \in LiveState /\ Reviewed(Now)
  BY NowHolds DEF Shape
<1>2. Now.review # None /\ Now.review \in ReviewState
  BY <1>1 DEF Reviewed, LiveState
<1>3. Now.review.request \in ReviewRequest
  BY <1>2 DEF ReviewState
<1>4. Now.review.request.candidate \in Generation
  BY <1>3 DEF ReviewRequest
<1>5. run.arg \in ApprovalId
  BY DEF CampaignInv, Place
<1>6. Decision(outcome) \in ReviewDecision
  BY <1>4, <1>5 DEF Decision, ReviewDecision
<1> QED BY <1>1, <1>2, <1>3, <1>4, <1>6, NoneIsNothing DEF Decision, Reviewed

(* The snapshots that record a decision: *)
DecidedState(phase, active, error, outcome) ==
  [Now EXCEPT !.phase = phase, !.active = active, !.error = error, !.review.decision = Decision(outcome)]

LEMMA DecisionSaves ==
  ASSUME CampaignInv, history # <<>>, Now.phase = "awaiting_review", run.cmd \in {"promote", "reject"},
         NEW phase, NEW active, NEW error, NEW outcome, NEW next,
         \/ /\ phase = "probe" /\ outcome = "approved" /\ next = "canary"
            /\ active = Now.review.request.candidate /\ error = Now.error
         \/ /\ phase = "rejected" /\ outcome = "rejected" /\ next = "release"
            /\ active = Now.active /\ error \in ErrorCode,
         Decision(outcome) \in decisions,
         SaveState(DecidedState(phase, active, error, outcome), next)
  PROVE  Saved(DecidedState(phase, active, error, outcome), next)
<1> DEFINE st == DecidedState(phase, active, error, outcome)
           d == Decision(outcome)
           r == [Now.review EXCEPT !.decision = d]
           g == Now.review.request.candidate
<1>1. /\ Now \in LiveState /\ Searched(Now) /\ Reviewed(Now) /\ Retains(Now) /\ Holds(Now, Len(history))
  BY NowHolds DEF Shape
<1>2. outcome \in Outcome /\ phase \in {"probe", "rejected"} /\ next \in {"canary", "release"}
      /\ (next = "canary" => phase = "probe")
  BY DEF Outcome
<1>3. /\ d \in ReviewDecision /\ d # None /\ d.candidate = g /\ d.outcome = outcome
      /\ Now.review \in ReviewState /\ Now.review # None /\ Now.review.request \in ReviewRequest
      /\ g \in Generation \ {Base} /\ Now.review.request.incumbent = Base
  BY <1>2, DecisionFits
<1> HIDE DEF d
<1>4. r \in ReviewState /\ r # None /\ r.request = Now.review.request /\ r.decision = d
  BY <1>3, NoneIsNothing DEF ReviewState
<1>5. st = [Now EXCEPT !.phase = phase, !.active = active, !.error = error, !.review = r]
  BY <1>1 DEF DecidedState, d, LiveState
<1>6. Now.retained = <<Base>> /\ Now.active = Base /\ Base \in stored /\ ToSet(Now.retained) = {Base}
      /\ Proven(Base) /\ served \subseteq {Base} /\ Base \in Generation
  BY <1>1, BaseRetained
<1>7. active \in Generation /\ error \in ErrorCode \cup {None}
  BY <1>1, <1>3, <1>6 DEF LiveState
<1> HIDE DEF r
<1>8. /\ st.phase = phase /\ st.active = active /\ st.error = error /\ st.review = r
      /\ st.retained = Now.retained /\ st.evaluated = Now.evaluated /\ st.parent = Now.parent
      /\ st.round = Now.round /\ st.rounds = Now.rounds
  BY <1>1, <1>5 DEF LiveState
<1>9. st \in LiveState
  BY <1>1, <1>2, <1>4, <1>5, <1>7 DEF LiveState
<1> HIDE DEF st
<1>10. Searched(st)
  BY <1>1, <1>2, <1>8 DEF Searched
<1>11. Reviewed(st)
  BY <1>2, <1>3, <1>4, <1>8 DEF Reviewed, Searching
<1>12. phase = "probe" => active \in Chosen(st)
  BY <1>3, <1>4, <1>8 DEF Chosen
<1>13. Retains(st)
  BY <1>6, <1>8, <1>12 DEF Retains
<1>14. Backed(st, Len(history) + 1)
  BY <1>3, <1>4, <1>8, BackedStill DEF d
<1>15. active \in stored
  <2>1. phase = "probe" => g \in stored
    <3>1. Backed(Now, Len(history)) /\ ToSet(Now.evaluated) \subseteq stored
      BY <1>1 DEF Holds
    <3>2. g \in Winners(history[Now.review.request.seq])
          /\ history[Now.review.request.seq].evaluated = Now.evaluated
      BY <1>3, <3>1 DEF Backed
    <3>3. g \in ToSet(Now.evaluated)
      <4>1. PICK i \in 2..Len(Now.evaluated) : g = Now.evaluated[i]
        BY <3>2 DEF Winners
      <4>2. i \in DOMAIN Now.evaluated
        BY <1>1, <4>1 DEF LiveState
      <4> QED BY <4>1, <4>2 DEF ToSet
    <3> QED BY <3>1, <3>3
  <2> QED BY <1>6, <2>1
<1>16. Now.rounds = MaxRounds \/ Candidates(Now) = CandidateLimit
  BY <1>1 DEF Holds, TreeFits
<1>17. Follows(st)
  BY <1>6, <1>8, <1>9, <1>10, <1>11, <1>13, <1>14, <1>15, <1>16, Continues DEF Shape
<1> QED BY <1>2, <1>6, <1>8, <1>17 DEF Saved, st

(* The campaign settles: a canary missed, every canary passed, or the      *)
(* operator rolled back.                                                   *)
SettledState(phase, active, kept, error) ==
  [Now EXCEPT !.phase = phase, !.active = active, !.retained = kept, !.error = error]

LEMMA SettledSaves ==
  ASSUME CampaignInv, history # <<>>, Now.phase \in {"probe", "complete", "rolled_back"},
         NEW phase \in {"complete", "rolled_back"}, NEW active, NEW kept, NEW error \in ErrorCode \cup {None},
         \/ kept = <<Base>> /\ active = Base
         \/ \E g \in Chosen(Now) : kept = <<Base, g>> /\ active = g /\ Proven(g) /\ g \in stored,
         SaveState(SettledState(phase, active, kept, error), "release")
  PROVE  Saved(SettledState(phase, active, kept, error), "release")
<1> DEFINE st == SettledState(phase, active, kept, error)
<1>1. /\ Now \in LiveState /\ Searched(Now) /\ Reviewed(Now) /\ Retains(Now) /\ Holds(Now, Len(history))
      /\ served \subseteq {Base} \cup Chosen(Now)
  BY NowHolds DEF Shape
<1>2. Base \in Generation /\ Base \in stored /\ Proven(Base)
  BY <1>1, PlanAssumption DEF Holds, Shape, Retains, Proven, CampaignInv, Snapshots, Prepared, Types
<1>3. /\ active \in Generation /\ kept \in Seq(Generation) /\ active \in ToSet(kept)
      /\ (\A g \in ToSet(kept) : Proven(g)) /\ ToSet(kept) \cup {active} \subseteq stored
      /\ (kept = <<Base>> \/ \E g \in Chosen(Now) : kept = <<Base, g>>)
  <2>1. CASE kept = <<Base>> /\ active = Base
    <3>1. ToSet(kept) = {Base}
      BY <2>1 DEF ToSet
    <3> QED BY <1>2, <2>1, <3>1
  <2>2. ASSUME NEW g \in Chosen(Now), kept = <<Base, g>>, active = g, Proven(g), g \in stored
        PROVE  <1>3!:
    <3>1. g \in Generation
      BY DEF Chosen
    <3>2. ToSet(kept) = {Base, g}
      BY <2>2 DEF ToSet
    <3>3. kept \in Seq(Generation)
      BY <1>2, <2>2, <3>1
    <3> QED BY <1>2, <2>2, <3>1, <3>2, <3>3
  <2> QED BY <2>1, <2>2
<1>4. /\ st.phase = phase /\ st.active = active /\ st.error = error /\ st.review = Now.review
      /\ st.retained = kept /\ st.evaluated = Now.evaluated /\ st.parent = Now.parent
      /\ st.round = Now.round /\ st.rounds = Now.rounds
  BY <1>1 DEF LiveState, SettledState
<1>5. st \in LiveState
  BY <1>1, <1>3 DEF LiveState, SettledState
<1> HIDE DEF st
<1>6. Searched(st)
  BY <1>1, <1>4 DEF Searched
<1>7. Reviewed(st)
  BY <1>1, <1>4 DEF Reviewed, Searching
<1>8. Chosen(Now) = Chosen(st)
  BY <1>4 DEF Chosen
<1>9. Retains(st)
  BY <1>3, <1>4, <1>8 DEF Retains
<1>10. Backed(st, Len(history) + 1)
  <2>1. st.review # None /\ st.review.decision # None => st.review.decision \in decisions
    BY <1>1, <1>4 DEF Holds, Backed
  <2> QED BY <1>4, <2>1, BackedStill
<1>11. Now.rounds = MaxRounds \/ Candidates(Now) = CandidateLimit
  BY <1>1 DEF Holds, TreeFits
<1>12. Follows(st)
  BY <1>3, <1>4, <1>5, <1>6, <1>7, <1>9, <1>10, <1>11, Continues DEF Shape
<1> QED BY <1>1, <1>4, <1>8, <1>12 DEF Saved, st

(* What a tree shows of one round: `seen` is what was there before it.     *)
Until(tree, r) == {i \in DOMAIN tree : tree[i].round <= r}
Expanded(tree, seen, upto, strategy, width, limit) ==
  LET batch == FirstOf(SelectBatch(tree, seen, strategy, width), limit + 1 - Cardinality(seen))
  IN  /\ batch # <<>>
      /\ upto \ seen = {Cardinality(seen) + k : k \in DOMAIN batch}
      /\ \A k \in DOMAIN batch : tree[Cardinality(seen) + k].parent = batch[k]

LEMMA ExploredMeans ==
  ASSUME NEW tree, NEW rounds, NEW strategy, NEW width, NEW limit
  PROVE  Explored(tree, rounds, strategy, width, limit) <=>
           /\ Until(tree, rounds) = DOMAIN tree
           /\ \A r \in 1..rounds :
                Expanded(tree, Until(tree, r - 1), Until(tree, r), strategy, width, limit)
BY Zenon DEF Explored, Until, Expanded

(* A round that expands the batch its tree selects explores the tree.      *)
Enlarges(more, tree, m, b, batch, rounds, strategy, width, limit) ==
  /\ m \in Nat \ {0} /\ b \in Nat /\ rounds \in Nat /\ limit \in Nat
  /\ DOMAIN tree = 1..m /\ Explored(tree, rounds, strategy, width, limit)
  /\ \A i \in 1..m : tree[i].round \in Nat
  /\ batch = FirstOf(SelectBatch(tree, 1..m, strategy, width), limit + 1 - m)
  /\ batch # <<>> /\ DOMAIN batch = 1..b
  /\ DOMAIN more = 1..(m + b) /\ \A i \in 1..m : more[i] = tree[i]
  /\ \A k \in 1..b : more[m + k].round = rounds + 1 /\ more[m + k].parent = batch[k]

LEMMA ExploredGrows ==
  ASSUME NEW more, NEW tree, NEW m, NEW b, NEW batch, NEW rounds, NEW strategy, NEW width, NEW limit,
         Enlarges(more, tree, m, b, batch, rounds, strategy, width, limit)
  PROVE  Explored(more, rounds + 1, strategy, width, limit)
<1>0. /\ m \in Nat \ {0} /\ b \in Nat /\ rounds \in Nat /\ limit \in Nat
      /\ DOMAIN tree = 1..m /\ Explored(tree, rounds, strategy, width, limit)
      /\ \A i \in 1..m : tree[i].round \in Nat
      /\ batch = FirstOf(SelectBatch(tree, 1..m, strategy, width), limit + 1 - m)
      /\ batch # <<>> /\ DOMAIN batch = 1..b
      /\ DOMAIN more = 1..(m + b) /\ \A i \in 1..m : more[i] = tree[i]
      /\ \A k \in 1..b : more[m + k].round = rounds + 1 /\ more[m + k].parent = batch[k]
  BY DEF Enlarges
<1> USE <1>0
<1>1. /\ Until(tree, rounds) = 1..m
      /\ \A r \in 1..rounds : Expanded(tree, Until(tree, r - 1), Until(tree, r), strategy, width, limit)
  BY ExploredMeans
<1>2. ASSUME NEW i \in 1..(m + b)
      PROVE  \/ i \in 1..m
             \/ i - m \in 1..b /\ m + (i - m) = i
  OBVIOUS
<1>3. ASSUME NEW r \in 0..rounds
      PROVE  Until(more, r) = Until(tree, r)
  <2>1. ASSUME NEW i \in 1..(m + b), i \notin 1..m
        PROVE  ~(more[i].round <= r)
    <3>1. more[m + (i - m)].round = rounds + 1 /\ m + (i - m) = i
      BY <1>2, <2>1
    <3> QED BY <3>1
  <2>2. 1..m \subseteq 1..(m + b)
    OBVIOUS
  <2> QED BY <2>1, <2>2 DEF Until
<1>4. Until(more, rounds + 1) = 1..(m + b)
  <2> SUFFICES ASSUME NEW i \in 1..(m + b) PROVE more[i].round <= rounds + 1
    BY DEF Until
  <2>1. CASE i \in 1..m
    <3>1. tree[i].round <= rounds /\ tree[i].round \in Nat
      BY <1>1, <2>1 DEF Until
    <3> QED BY <2>1, <3>1
  <2>2. CASE i \notin 1..m
    <3>1. more[m + (i - m)].round = rounds + 1 /\ m + (i - m) = i
      BY <1>2, <2>2
    <3> QED BY <3>1
  <2> QED BY <2>1, <2>2
<1>5. ASSUME NEW r \in 1..rounds
      PROVE  Expanded(more, Until(more, r - 1), Until(more, r), strategy, width, limit)
  <2> DEFINE seen == Until(tree, r - 1)
             chosen == FirstOf(SelectBatch(tree, seen, strategy, width), limit + 1 - Cardinality(seen))
  <2>1. Until(more, r - 1) = seen /\ Until(more, r) = Until(tree, r)
    BY <1>3
  <2>2. seen \subseteq 1..m /\ Until(tree, r) \subseteq 1..m /\ \A i \in seen : more[i] = tree[i]
    BY DEF Until
  <2>3. SelectBatch(more, seen, strategy, width) = SelectBatch(tree, seen, strategy, width)
    BY <2>2, BatchIsLocal
  <2>4. /\ chosen # <<>> /\ Until(tree, r) \ seen = {Cardinality(seen) + k : k \in DOMAIN chosen}
        /\ \A k \in DOMAIN chosen : tree[Cardinality(seen) + k].parent = chosen[k]
    BY <1>1 DEF Expanded
  <2> HIDE DEF seen, chosen
  <2>5. \A k \in DOMAIN chosen : Cardinality(seen) + k \in 1..m
    BY <2>2, <2>4
  <2>6. \A k \in DOMAIN chosen : more[Cardinality(seen) + k].parent = chosen[k]
    BY <2>4, <2>5
  <2>7. chosen = FirstOf(SelectBatch(more, seen, strategy, width), limit + 1 - Cardinality(seen))
    BY <2>3 DEF chosen
  <2> QED BY <2>1, <2>4, <2>6, <2>7 DEF Expanded
<1>6. Expanded(more, Until(more, rounds), Until(more, rounds + 1), strategy, width, limit)
  <2>1. Until(more, rounds) = 1..m /\ Cardinality(1..m) = m
    BY <1>1, <1>3, FS_Interval
  <2>2. SelectBatch(more, 1..m, strategy, width) = SelectBatch(tree, 1..m, strategy, width)
    <3>1. PICK seen : seen = 1..m
      OBVIOUS
    <3>2. \A i \in seen : more[i] = tree[i]
      BY <3>1
    <3>3. SelectBatch(more, seen, strategy, width) = SelectBatch(tree, seen, strategy, width)
      BY <3>2, BatchIsLocal
    <3> QED BY <3>1, <3>3
  <2>3. (1..(m + b)) \ (1..m) = {m + k : k \in 1..b}
    <3>1. \A i \in (1..(m + b)) \ (1..m) : i \in {m + k : k \in 1..b}
      BY <1>2
    <3>2. \A k \in 1..b : m + k \in (1..(m + b)) \ (1..m)
      OBVIOUS
    <3> QED BY <3>1, <3>2
  <2>4. batch = FirstOf(SelectBatch(more, 1..m, strategy, width), limit + 1 - Cardinality(1..m))
    BY <2>1, <2>2
  <2>5. Expanded(more, 1..m, 1..(m + b), strategy, width, limit)
    BY <2>1, <2>3, <2>4 DEF Expanded
  <2> QED BY <1>4, <2>1, <2>5
<1>7. ASSUME NEW r \in 1..(rounds + 1)
      PROVE  Expanded(more, Until(more, r - 1), Until(more, r), strategy, width, limit)
  <2>1. rounds + 1 - 1 = rounds /\ (r \in 1..rounds \/ r = rounds + 1)
    OBVIOUS
  <2> QED BY <1>5, <1>6, <2>1
<1> QED BY <1>4, <1>7, ExploredMeans

(* A round is saved with one evaluation per parent of its batch.           *)
Ended == Cardinality({c \in Caller : chain[c].kind = "ended"})
SearchState ==
  [Now EXCEPT !.phase = "search", !.rounds = @ + 1,
              !.evaluated = @ \o [c \in 1..Ended |-> chain[c].gen],
              !.parent = @ \o FirstOf(Batch, Ended),
              !.round = @ \o [c \in 1..Ended |-> Now.rounds + 1]]

(* What a completed batch holds. *)
LEMMA BatchEnds ==
  ASSUME CampaignInv, history # <<>>, run.at = "expand", BatchEnded
  PROVE  /\ Now.phase \in {"baseline", "search"} /\ Now.evaluated # <<>> /\ Now.rounds < MaxRounds
         /\ Ended = Len(Batch) /\ Ended \in Nat \ {0} /\ FirstOf(Batch, Ended) = Batch
         /\ Batch \in Seq(1..Len(Now.evaluated)) /\ Batch # <<>> /\ DOMAIN Batch = 1..Ended
         /\ Ended <= CandidateLimit - Candidates(Now)
         /\ \A c \in 1..Ended :
              /\ chain[c].gen \in Generation /\ chain[c].gen \in stored
              /\ intent[Proposal(Candidates(Now) + c - 1)] = Now.evaluated[Batch[c]]
              /\ \A k \in Cases : GradedAs(<<"candidate", Candidates(Now) + c - 1, k>>, chain[c].gen)
<1>1. Now.phase \in {"baseline", "search"} /\ Now.rounds < MaxRounds /\ Candidates(Now) < CandidateLimit
  BY NowFits DEF CampaignInv, Place, Grown
<1>2. Now.evaluated # <<>> /\ Now \in LiveState /\ Searched(Now)
  BY <1>1, NowHolds DEF Shape, Searched
<1>3. /\ Batch \in Seq(DOMAIN Now.evaluated) /\ DOMAIN Batch = 1..Len(Batch) /\ Len(Batch) \in Nat \ {0}
      /\ Len(Batch) <= CandidateLimit - Candidates(Now) /\ DOMAIN Batch \subseteq Caller
  BY <1>1, <1>2, BatchFits
<1>4. \A c \in Caller : Batched(c) /\ chain[c].kind \in {"none", "ended"}
  BY DEF CampaignInv, Work, BatchEnded
<1>5. {c \in Caller : chain[c].kind = "ended"} = 1..Len(Batch)
  BY <1>3, <1>4 DEF Batched
<1>6. Cardinality(1..Len(Batch)) = Len(Batch)
  BY <1>3, FS_Interval
<1>7. Ended = Len(Batch)
  BY <1>5, <1>6 DEF Ended
<1>8. FirstOf(Batch, Len(Batch)) = Batch
  BY <1>3 DEF FirstOf
<1>9. ASSUME NEW c \in 1..Len(Batch)
      PROVE  /\ chain[c].gen \in Generation /\ chain[c].gen \in stored
             /\ intent[Proposal(Candidates(Now) + c - 1)] = Now.evaluated[Batch[c]]
             /\ \A k \in Cases : GradedAs(<<"candidate", Candidates(Now) + c - 1, k>>, chain[c].gen)
  <2>1. c \in Caller /\ chain[c].kind = "ended"
    BY <1>3, <1>5
  <2>2. chain[c].index = Candidates(Now) + c - 1
        /\ intent[Proposal(chain[c].index)] = Now.evaluated[Batch[c]]
    BY <1>4, <2>1 DEF Batched
  <2>3. chain[c].gen \in Generation /\ chain[c].gen \in stored
    BY <2>1 DEF CampaignInv, Chains, ChainFits, Stored
  <2>4. \A k \in Cases : GradedAs(<<"candidate", chain[c].index, k>>, chain[c].gen)
    BY <2>1 DEF CampaignInv, Grades
  <2> QED BY <2>2, <2>3, <2>4
<1>10. DOMAIN Now.evaluated = 1..Len(Now.evaluated) /\ Batch # <<>>
  BY <1>2, <1>3, TreeCompares
<1> QED BY <1>1, <1>2, <1>3, <1>7, <1>8, <1>9, <1>10

(* Two sequences in a row. *)
LEMMA Elements ==
  ASSUME NEW S, NEW s \in Seq(S), NEW m, Len(s) = m
  PROVE  m \in Nat /\ DOMAIN s = 1..m /\ \A i \in 1..m : s[i] \in S
OBVIOUS

InRow(S, s, t, m, b) == s \in Seq(S) /\ t \in Seq(S) /\ Len(s) = m /\ Len(t) = b
Joined(s, t) == s \o t
LEMMA InARow ==
  ASSUME NEW S, NEW s, NEW t, NEW m, NEW b, InRow(S, s, t, m, b)
  PROVE  /\ Joined(s, t) \in Seq(S) /\ Len(Joined(s, t)) = m + b /\ DOMAIN Joined(s, t) = 1..(m + b)
         /\ \A i \in 1..m : Joined(s, t)[i] = s[i]
         /\ \A k \in 1..b : Joined(s, t)[m + k] = t[k]
BY DEF InRow, Joined

LEMMA Listed ==
  ASSUME NEW S, NEW b \in Nat, NEW f \in [1..b -> S]
  PROVE  f \in Seq(S) /\ Len(f) = b
OBVIOUS

LEMMA Positions == ASSUME NEW m, NEW s, s \in Seq(1..m) PROVE s \in Seq(Nat) /\ \A c \in 1..Len(s) : s[c] \in 1..m
<1>1. Len(s) \in Nat /\ DOMAIN s = 1..Len(s)
  OBVIOUS
<1>2. \A c \in 1..Len(s) : s[c] \in 1..m
  BY ElementOfSeq
<1>3. s = [c \in 1..Len(s) |-> s[c]]
  OBVIOUS
<1>4. \A c \in 1..Len(s) : s[c] \in Nat
  BY <1>2
<1>5. s \in [1..Len(s) -> Nat]
  BY <1>3, <1>4
<1> QED BY <1>1, <1>2, <1>5, Listed

LEMMA Halves ==
  ASSUME NEW m \in Nat \ {0}, NEW b \in Nat
  PROVE  /\ \A i \in 1..(m + b) : i \in 1..m \/ (i - m \in 1..b /\ m + (i - m) = i /\ i # 1 /\ i - 2 = m + (i - m) - 2)
         /\ \A i \in 1..m : i \in 1..(m + b)
         /\ \A c \in 1..b : m + c \in 1..(m + b) /\ m + c # 1
OBVIOUS

(* The evaluations of a search and those that a round adds to them.        *)
Extended(st, now, m, b, batch, gens) ==
  /\ DOMAIN st.evaluated = 1..(m + b) /\ Len(st.evaluated) = m + b
  /\ DOMAIN st.parent = 1..(m + b) /\ DOMAIN st.round = 1..(m + b)
  /\ \A i \in 1..m : /\ st.evaluated[i] = now.evaluated[i] /\ st.parent[i] = now.parent[i]
                     /\ st.round[i] = now.round[i]
  /\ \A c \in 1..b : /\ st.evaluated[m + c] = gens[c] /\ st.parent[m + c] = batch[c]
                     /\ st.round[m + c] = now.rounds + 1
  /\ st.phase = "search" /\ st.rounds = now.rounds + 1

Appends(st, now, m, b, batch, gens, rounds) ==
  /\ InRow(Generation, now.evaluated, gens, m, b) /\ st.evaluated = Joined(now.evaluated, gens)
  /\ InRow(Nat, now.parent, batch, m, b) /\ st.parent = Joined(now.parent, batch)
  /\ InRow(Nat, now.round, rounds, m, b) /\ st.round = Joined(now.round, rounds)
  /\ \A c \in 1..b : rounds[c] = now.rounds + 1
  /\ st.phase = "search" /\ st.rounds = now.rounds + 1

LEMMA RoundExtends ==
  ASSUME NEW st, NEW now, NEW m, NEW b, NEW batch, NEW gens, NEW rounds,
         Appends(st, now, m, b, batch, gens, rounds)
  PROVE  Extended(st, now, m, b, batch, gens)
<1>1. /\ DOMAIN st.evaluated = 1..(m + b) /\ Len(st.evaluated) = m + b
      /\ \A i \in 1..m : st.evaluated[i] = now.evaluated[i]
      /\ \A c \in 1..b : st.evaluated[m + c] = gens[c]
  <2>1. InRow(Generation, now.evaluated, gens, m, b) /\ st.evaluated = Joined(now.evaluated, gens)
    BY DEF Appends
  <2> QED BY <2>1, InARow
<1>2. /\ DOMAIN st.parent = 1..(m + b)
      /\ \A i \in 1..m : st.parent[i] = now.parent[i]
      /\ \A c \in 1..b : st.parent[m + c] = batch[c]
  <2>1. InRow(Nat, now.parent, batch, m, b) /\ st.parent = Joined(now.parent, batch)
    BY DEF Appends
  <2> QED BY <2>1, InARow
<1>3. /\ DOMAIN st.round = 1..(m + b)
      /\ \A i \in 1..m : st.round[i] = now.round[i]
      /\ \A c \in 1..b : st.round[m + c] = rounds[c]
  <2>1. InRow(Nat, now.round, rounds, m, b) /\ st.round = Joined(now.round, rounds)
    BY DEF Appends
  <2> QED BY <2>1, InARow
<1>4. /\ \A c \in 1..b : rounds[c] = now.rounds + 1
      /\ st.phase = "search" /\ st.rounds = now.rounds + 1
  BY DEF Appends
<1> QED BY <1>1, <1>2, <1>3, <1>4 DEF Extended

LEMMA ExtendedGraded ==
  ASSUME NEW st, NEW now, NEW m \in Nat \ {0}, NEW b \in Nat, NEW batch, NEW gens,
         Extended(st, now, m, b, batch, gens), DOMAIN now.evaluated = 1..m, IsGraded(now),
         \A c \in 1..b : \A k \in Cases : GradedAs(<<"candidate", m + c - 2, k>>, gens[c]),
         ToSet(now.evaluated) \subseteq stored, \A c \in 1..b : gens[c] \in stored
  PROVE  IsGraded(st) /\ ToSet(st.evaluated) \subseteq stored
<1>1. ASSUME NEW i \in 1..(m + b)
      PROVE  (\A k \in Cases : GradedAs(EvalOp(i, k), st.evaluated[i])) /\ st.evaluated[i] \in stored
  <2>1. CASE i \in 1..m
    <3>1. st.evaluated[i] = now.evaluated[i] /\ now.evaluated[i] \in ToSet(now.evaluated)
      BY <2>1 DEF Extended, ToSet
    <3>2. \A k \in Cases : GradedAs(EvalOp(i, k), now.evaluated[i])
      BY <2>1 DEF IsGraded
    <3> QED BY <3>1, <3>2
  <2>2. CASE i \notin 1..m
    <3>1. PICK c \in 1..b : m + c = i /\ i # 1 /\ i - 2 = m + c - 2
      BY <2>2, Halves
    <3>2. st.evaluated[i] = gens[c]
      BY <3>1 DEF Extended
    <3>3. \A k \in Cases : GradedAs(<<"candidate", i - 2, k>>, gens[c])
      BY <3>1
    <3>4. \A k \in Cases : EvalOp(i, k) = <<"candidate", i - 2, k>>
      BY <3>1 DEF EvalOp
    <3> QED BY <3>2, <3>3, <3>4
  <2> QED BY <2>1, <2>2
<1>2. DOMAIN st.evaluated = 1..(m + b)
  BY DEF Extended
<1> QED BY <1>1, <1>2 DEF IsGraded, ToSet

LEMMA ExtendedExplored ==
  ASSUME NEW st, NEW now, NEW m \in Nat \ {0}, NEW b \in Nat \ {0}, NEW batch, NEW gens,
         Extended(st, now, m, b, batch, gens), DOMAIN now.evaluated = 1..m, now.rounds \in Nat,
         \A i \in 1..m : now.round[i] \in Nat, DOMAIN batch = 1..b, batch # <<>>,
         batch = FirstOf(SelectBatch(Tree(now), 1..m, Strategy, MaxParallelism), CandidateLimit + 1 - m),
         Explored(Tree(now), now.rounds, Strategy, MaxParallelism, CandidateLimit)
  PROVE  Explored(Tree(st), now.rounds + 1, Strategy, MaxParallelism, CandidateLimit)
<1>1. /\ DOMAIN Tree(now) = 1..m /\ DOMAIN Tree(st) = 1..(m + b)
      /\ \A i \in 1..m : Tree(now)[i] = [parent |-> now.parent[i], round |-> now.round[i],
                                         score |-> Score(i, Development)]
      /\ \A i \in 1..(m + b) : Tree(st)[i] = [parent |-> st.parent[i], round |-> st.round[i],
                                              score |-> Score(i, Development)]
  BY DEF Tree, Extended
<1>2. \A i \in 1..m : Tree(st)[i] = Tree(now)[i] /\ Tree(now)[i].round \in Nat
  <2> TAKE i \in 1..m
  <2>1. i \in 1..(m + b) /\ st.parent[i] = now.parent[i] /\ st.round[i] = now.round[i]
    BY Halves DEF Extended
  <2> QED BY <1>1, <2>1
<1>3. \A k \in 1..b : Tree(st)[m + k].round = now.rounds + 1 /\ Tree(st)[m + k].parent = batch[k]
  <2> TAKE k \in 1..b
  <2>1. m + k \in 1..(m + b) /\ st.parent[m + k] = batch[k] /\ st.round[m + k] = now.rounds + 1
    BY Halves DEF Extended
  <2> QED BY <1>1, <2>1
<1>4. CandidateLimit \in Nat
  BY PlanAssumption
<1>5. Enlarges(Tree(st), Tree(now), m, b, batch, now.rounds, Strategy, MaxParallelism, CandidateLimit)
  BY <1>1, <1>2, <1>3, <1>4 DEF Enlarges
<1> QED BY <1>5, ExploredGrows

ExtendsTree(st, now, m, b, batch, gens) ==
  /\ m \in Nat \ {0} /\ b \in Nat \ {0} /\ Extended(st, now, m, b, batch, gens) /\ now.rounds \in Nat
  /\ DOMAIN now.evaluated = 1..m /\ Len(now.evaluated) = m /\ DOMAIN now.round = 1..m /\ now.evaluated # <<>>
  /\ \A i \in 1..m : now.round[i] \in Nat
  /\ \A c \in 1..b : batch[c] \in 1..m
  /\ \A c \in 1..b : intent[Proposal(m + c - 2)] = now.evaluated[batch[c]]
  /\ TreeFits(now)
  /\ Explored(Tree(st), now.rounds + 1, Strategy, MaxParallelism, CandidateLimit)
LEMMA ExtendedTree ==
  ASSUME NEW st, NEW now, NEW m, NEW b, NEW batch, NEW gens, ExtendsTree(st, now, m, b, batch, gens)
  PROVE  TreeFits(st)
<1>0. /\ m \in Nat \ {0} /\ b \in Nat \ {0} /\ Extended(st, now, m, b, batch, gens) /\ now.rounds \in Nat
      /\ DOMAIN now.evaluated = 1..m /\ Len(now.evaluated) = m /\ DOMAIN now.round = 1..m /\ now.evaluated # <<>>
      /\ \A i \in 1..m : now.round[i] \in Nat
      /\ \A c \in 1..b : batch[c] \in 1..m
      /\ \A c \in 1..b : intent[Proposal(m + c - 2)] = now.evaluated[batch[c]]
      /\ TreeFits(now)
      /\ Explored(Tree(st), now.rounds + 1, Strategy, MaxParallelism, CandidateLimit)
  BY DEF ExtendsTree
<1> USE <1>0
<1>1. /\ \A i \in 2..m : /\ now.parent[i] \in 1..(i-1) /\ now.round[i] \in 1..now.rounds
                         /\ intent[Proposal(i - 2)] = now.evaluated[now.parent[i]]
      /\ now.parent[1] = 0 /\ now.round[1] = 0
      /\ \A i, j \in 1..m : i <= j => now.round[i] <= now.round[j]
  BY DEF TreeFits
<1>2. \A l \in 1..m : now.round[l] \in Nat /\ now.round[l] <= now.rounds
  <2> TAKE l \in 1..m
  <2>1. l = 1 \/ l \in 2..m
    OBVIOUS
  <2>2. CASE l = 1
    BY <1>1, <2>2
  <2>3. CASE l \in 2..m
    BY <1>1, <2>3
  <2> QED BY <2>1, <2>2, <2>3
<1>3. ASSUME NEW i \in 2..(m + b)
      PROVE  /\ st.parent[i] \in 1..(i - 1) /\ st.round[i] \in 1..(now.rounds + 1)
             /\ intent[Proposal(i - 2)] = st.evaluated[st.parent[i]]
  <2>1. CASE i \in 2..m
    <3>1. /\ now.parent[i] \in 1..(i - 1) /\ now.round[i] \in 1..now.rounds
          /\ intent[Proposal(i - 2)] = now.evaluated[now.parent[i]]
      BY <1>1, <2>1
    <3>2. now.parent[i] \in 1..m /\ now.round[i] \in 1..(now.rounds + 1) /\ i \in 1..m
      BY <2>1, <3>1
    <3>3. st.parent[i] = now.parent[i] /\ st.round[i] = now.round[i]
          /\ st.evaluated[now.parent[i]] = now.evaluated[now.parent[i]]
      BY <3>2 DEF Extended
    <3> QED BY <3>1, <3>2, <3>3
  <2>2. CASE i \notin 2..m
    <3>1. PICK c \in 1..b : m + c = i /\ i - 2 = m + c - 2 /\ m <= i - 1
      <4>1. i - m \in 1..b /\ m + (i - m) = i /\ i - 2 = m + (i - m) - 2 /\ m <= i - 1
        BY <2>2
      <4> QED BY <4>1
    <3>2. st.parent[i] = batch[c] /\ st.round[i] = now.rounds + 1 /\ batch[c] \in 1..m
      BY <3>1 DEF Extended
    <3>3. intent[Proposal(i - 2)] = now.evaluated[batch[c]]
      BY <3>1
    <3>4. st.evaluated[batch[c]] = now.evaluated[batch[c]]
      BY <3>2 DEF Extended
    <3>5. batch[c] \in 1..(i - 1) /\ now.rounds + 1 \in 1..(now.rounds + 1)
      BY <3>1, <3>2
    <3> QED BY <3>2, <3>3, <3>4, <3>5
  <2> QED BY <2>1, <2>2
<1>4. st.parent[1] = 0 /\ st.round[1] = 0
  <2>1. 1 \in 1..m
    OBVIOUS
  <2> QED BY <1>1, <2>1 DEF Extended
<1>5. \A i \in 1..(m + b) : IF i \in 1..m THEN st.round[i] = now.round[i] ELSE st.round[i] = now.rounds + 1
  <2> TAKE i \in 1..(m + b)
  <2>1. CASE i \in 1..m
    BY <2>1 DEF Extended
  <2>2. CASE i \notin 1..m
    <3>1. PICK c \in 1..b : m + c = i
      <4>1. i - m \in 1..b /\ m + (i - m) = i
        BY <2>2
      <4> QED BY <4>1
    <3>2. st.round[m + c] = now.rounds + 1
      BY DEF Extended
    <3> QED BY <2>2, <3>1, <3>2
  <2> QED BY <2>1, <2>2
<1>6. ASSUME NEW i \in 1..(m + b), NEW j \in 1..(m + b), i <= j
      PROVE  st.round[i] <= st.round[j]
  <2>1. CASE j \in 1..m
    <3>1. i \in 1..m
      BY <1>6, <2>1
    <3> QED BY <1>1, <1>5, <1>6, <2>1, <3>1
  <2>2. CASE j \notin 1..m
    <3>1. st.round[j] = now.rounds + 1
      BY <1>5, <2>2
    <3>2. CASE i \in 1..m
      <4>1. st.round[i] = now.round[i] /\ now.round[i] \in Nat /\ now.round[i] <= now.rounds
        BY <1>2, <1>5, <3>2
      <4> QED BY <3>1, <4>1
    <3>3. CASE i \notin 1..m
      <4>1. st.round[i] = now.rounds + 1
        BY <1>5, <3>3
      <4> QED BY <3>1, <4>1
    <3> QED BY <3>2, <3>3
  <2> QED BY <2>1, <2>2
<1> QED
  <2>1. /\ DOMAIN st.round = 1..(m + b) /\ Len(st.evaluated) = m + b
        /\ st.phase = "search" /\ st.rounds = now.rounds + 1
    BY DEF Extended
  <2>2. Explored(Tree(st), st.rounds, Strategy, MaxParallelism, CandidateLimit)
    BY <2>1
  <2>3. \A i \in 2..Len(st.evaluated) :
          /\ st.parent[i] \in 1..(i-1) /\ st.round[i] \in 1..st.rounds
          /\ intent[Proposal(i - 2)] = st.evaluated[st.parent[i]]
    BY <1>3, <2>1
  <2>4. \A i, j \in DOMAIN st.round : i <= j => st.round[i] <= st.round[j]
    BY <1>6, <2>1
  <2> HIDE <1>0
  <2> QED BY <1>4, <2>1, <2>2, <2>3, <2>4 DEF TreeFits

LEMMA ExtendedSearched ==
  ASSUME NEW st, NEW now, NEW m \in Nat \ {0}, NEW b \in Nat \ {0}, NEW batch, NEW gens,
         Extended(st, now, m, b, batch, gens), now.rounds \in Nat, now.rounds < MaxRounds,
         Len(now.evaluated) = m, now.evaluated # <<>>, now.evaluated[1] = Base,
         m + b <= CandidateLimit + 1
  PROVE  Searched(st) /\ Candidates(st) >= Candidates(now)
<1>1. MaxRounds \in Nat /\ CandidateLimit \in Nat /\ 1 \in 1..m
  BY PlanAssumption
<1>2. /\ Len(st.evaluated) = m + b /\ DOMAIN st.evaluated = 1..(m + b) /\ DOMAIN st.parent = 1..(m + b)
      /\ DOMAIN st.round = 1..(m + b) /\ st.evaluated[1] = Base /\ st.phase = "search"
      /\ st.rounds = now.rounds + 1
  BY <1>1 DEF Extended
<1>3. st.evaluated # <<>>
  <2>1. 1 \in 1..(m + b)
    OBVIOUS
  <2> QED BY <1>2, <2>1
<1>4. now.rounds + 1 <= MaxRounds
  BY <1>1
<1>5. m + b - 1 >= m - 1
  OBVIOUS
<1>6. Searched(st)
  BY <1>2, <1>3, <1>4 DEF Searched
<1> QED BY <1>2, <1>3, <1>5, <1>6 DEF Candidates

LEMMA SearchSaves ==
  ASSUME CampaignInv, history # <<>>, run.at = "expand", BatchEnded, SaveState(SearchState, "round")
  PROVE  Saved(SearchState, "round")
<1> DEFINE st == SearchState
           gens == [c \in 1..Ended |-> chain[c].gen]
           rounds == [c \in 1..Ended |-> Now.rounds + 1]
<1>1. /\ Now \in LiveState /\ Searched(Now) /\ Reviewed(Now) /\ Retains(Now) /\ Holds(Now, Len(history))
  BY NowHolds DEF Shape
<1>2. PICK m, b, batch : m = Len(Now.evaluated) /\ b = Ended /\ batch = Batch
  OBVIOUS
<1>3. /\ Now.phase \in {"baseline", "search"} /\ Now.evaluated # <<>> /\ Now.rounds < MaxRounds
      /\ b \in Nat \ {0} /\ FirstOf(Batch, b) = batch /\ b = Len(batch)
      /\ batch \in Seq(1..m) /\ batch # <<>> /\ DOMAIN batch = 1..b
      /\ b <= CandidateLimit - Candidates(Now)
  BY <1>2, BatchEnds
<1>4. /\ \A c \in 1..b : chain[c].gen \in Generation /\ chain[c].gen \in stored
      /\ \A c \in 1..b : /\ intent[Proposal(Candidates(Now) + c - 1)] = Now.evaluated[batch[c]]
                         /\ \A k \in Cases : GradedAs(<<"candidate", Candidates(Now) + c - 1, k>>, chain[c].gen)
  BY <1>2, BatchEnds
<1>5. /\ m \in Nat \ {0} /\ Candidates(Now) = m - 1 /\ DOMAIN Now.evaluated = 1..m
      /\ CandidateLimit \in Nat /\ Now.rounds \in Nat
  <2>1. CandidateLimit \in Nat /\ Now.rounds \in Nat
    BY <1>1, PlanAssumption DEF LiveState
  <2> QED BY <1>1, <1>2, <1>3, <2>1, TreeCompares
<1>6. gens \in Seq(Generation) /\ Len(gens) = b /\ \A c \in 1..b : gens[c] = chain[c].gen /\ gens[c] \in stored
  <2>1. gens \in [1..b -> Generation] /\ \A c \in 1..b : gens[c] = chain[c].gen
    BY <1>2, <1>4
  <2>2. gens \in Seq(Generation) /\ Len(gens) = b
    <3> HIDE DEF gens
    <3> QED BY <1>3, <2>1, Listed
  <2> QED BY <1>4, <2>1, <2>2
<1>7. rounds \in Seq(Nat) /\ Len(rounds) = b /\ \A c \in 1..b : rounds[c] = Now.rounds + 1
  <2>1. rounds \in [1..b -> Nat] /\ \A c \in 1..b : rounds[c] = Now.rounds + 1
    BY <1>2, <1>5
  <2>2. rounds \in Seq(Nat) /\ Len(rounds) = b
    <3> HIDE DEF rounds
    <3> QED BY <1>3, <2>1, Listed
  <2> QED BY <2>1, <2>2
<1>8. st = [Now EXCEPT !.phase = "search", !.rounds = Now.rounds + 1, !.evaluated = Now.evaluated \o gens,
                       !.parent = Now.parent \o batch, !.round = Now.round \o rounds]
  BY <1>1, <1>2, <1>3 DEF SearchState, LiveState
<1> HIDE DEF gens, rounds
<1>9. /\ st.phase = "search" /\ st.active = Now.active /\ st.error = Now.error /\ st.review = Now.review
      /\ st.retained = Now.retained /\ st.evaluated = Now.evaluated \o gens
      /\ st.parent = Now.parent \o batch /\ st.round = Now.round \o rounds /\ st.rounds = Now.rounds + 1
  BY <1>1, <1>8 DEF LiveState
<1>10. st \in LiveState
  <2>1. /\ Now.evaluated \in Seq(Generation) /\ Now.parent \in Seq(Nat) /\ Now.round \in Seq(Nat)
    BY <1>1 DEF LiveState
  <2>2. batch \in Seq(Nat)
    BY <1>3, Positions
  <2>5. /\ InRow(Generation, Now.evaluated, gens, Len(Now.evaluated), Len(gens))
        /\ InRow(Nat, Now.parent, batch, Len(Now.parent), Len(batch))
        /\ InRow(Nat, Now.round, rounds, Len(Now.round), Len(rounds))
    BY <1>6, <1>7, <2>1, <2>2 DEF InRow
  <2>3. /\ Now.evaluated \o gens \in Seq(Generation) /\ Now.parent \o batch \in Seq(Nat)
        /\ Now.round \o rounds \in Seq(Nat)
    BY <2>5, InARow DEF Joined
  <2>4. Now.rounds + 1 \in Nat
    BY <1>5
  <2> QED BY <1>1, <1>8, <2>3, <2>4 DEF LiveState, Searching
<1> HIDE DEF st
<1>11. Now.review = None
  BY <1>1, <1>3 DEF Reviewed, Searching
<1>12. Now.retained = <<Base>> /\ Now.active = Base /\ Base \in stored /\ ToSet(Now.retained) = {Base}
      /\ Proven(Base) /\ served \subseteq {Base}
  BY <1>1, <1>3, BaseRetained DEF Searching
<1>13. Reviewed(st) /\ Retains(st) /\ Backed(st, Len(history) + 1)
  BY <1>9, <1>11, <1>12 DEF Reviewed, Retains, Backed, Searching
<1>14. \A c \in 1..b : /\ intent[Proposal(m + c - 2)] = Now.evaluated[batch[c]]
                       /\ \A k \in Cases : GradedAs(<<"candidate", m + c - 2, k>>, gens[c])
  <2>1. \A c \in 1..b : Candidates(Now) + c - 1 = m + c - 2
    BY <1>5
  <2> QED BY <1>4, <1>6, <2>1
<1>15. m + b <= CandidateLimit + 1
  BY <1>3, <1>5
<1>16. batch = FirstOf(SelectBatch(Tree(Now), 1..m, Strategy, MaxParallelism), CandidateLimit + 1 - m)
  <2>1. CandidateLimit - Candidates(Now) = CandidateLimit + 1 - m
    BY <1>5
  <2> QED BY <1>2, <1>5, <2>1 DEF Batch
<1>17. IsGraded(Now) /\ TreeFits(Now) /\ ToSet(Now.evaluated) \subseteq stored
  BY <1>1 DEF Holds
<1>18. /\ Searched(st) /\ IsGraded(st) /\ TreeFits(st) /\ ToSet(st.evaluated) \subseteq stored
       /\ Candidates(st) >= Candidates(Now)
  <2>1. /\ Now.evaluated \in Seq(Generation) /\ Now.parent \in Seq(Nat) /\ Now.round \in Seq(Nat)
        /\ Len(Now.evaluated) = m /\ Len(Now.parent) = m /\ Len(Now.round) = m /\ Now.evaluated[1] = Base
        /\ DOMAIN Now.round = 1..m /\ \A i \in 1..m : Now.round[i] \in Nat
    <3>1. /\ Now.evaluated \in Seq(Generation) /\ Now.parent \in Seq(Nat) /\ Now.round \in Seq(Nat)
          /\ DOMAIN Now.parent = DOMAIN Now.evaluated /\ DOMAIN Now.round = DOMAIN Now.evaluated
          /\ Now.evaluated[1] = Base
      BY <1>1, <1>3 DEF LiveState, Searched
    <3>2. Len(Now.parent) = m /\ Len(Now.round) = m
      BY <1>2, <1>5, <3>1
    <3> QED BY <1>2, <1>5, <3>1, <3>2
  <2>2. batch \in Seq(Nat) /\ Len(batch) = b /\ DOMAIN batch = 1..b /\ batch # <<>>
        /\ \A c \in 1..b : batch[c] \in 1..m
    <3>1. batch \in Seq(Nat)
      BY <1>3, Positions
    <3>2. \A c \in 1..b : batch[c] \in 1..m
      BY <1>3, Positions
    <3> QED BY <1>3, <3>1, <3>2
  <2>3. Extended(st, Now, m, b, batch, gens)
    <3>1. Appends(st, Now, m, b, batch, gens, rounds)
      BY <1>6, <1>7, <1>9, <2>1, <2>2 DEF Appends, InRow, Joined
    <3> QED BY <3>1, RoundExtends
  <2>4. IsGraded(st) /\ ToSet(st.evaluated) \subseteq stored
    BY <1>3, <1>5, <1>6, <1>14, <1>17, <2>3, ExtendedGraded
  <2>5. Explored(Tree(Now), Now.rounds, Strategy, MaxParallelism, CandidateLimit)
    BY <1>17 DEF TreeFits
  <2>6. Explored(Tree(st), Now.rounds + 1, Strategy, MaxParallelism, CandidateLimit)
    BY <1>3, <1>5, <1>16, <2>1, <2>2, <2>3, <2>5, ExtendedExplored
  <2>7. TreeFits(st)
    <3>1. /\ DOMAIN Now.evaluated = 1..m /\ Len(Now.evaluated) = m /\ DOMAIN Now.round = 1..m
          /\ Now.evaluated # <<>> /\ m \in Nat \ {0} /\ b \in Nat \ {0} /\ Now.rounds \in Nat
      BY <1>3, <1>5, <2>1
    <3>2. \A c \in 1..b : intent[Proposal(m + c - 2)] = Now.evaluated[batch[c]]
      BY <1>14
    <3>3. \A i \in 1..m : Now.round[i] \in Nat
      BY <2>1
    <3>4. \A c \in 1..b : batch[c] \in 1..m
      BY <2>2
    <3>5. TreeFits(Now)
      BY <1>17
    <3>6. ExtendsTree(st, Now, m, b, batch, gens)
      BY <2>3, <2>6, <3>1, <3>2, <3>3, <3>4, <3>5, Zenon DEF ExtendsTree
    <3> QED BY <3>6, ExtendedTree
  <2>8. Searched(st) /\ Candidates(st) >= Candidates(Now)
    BY <1>3, <1>5, <1>15, <2>1, <2>3, ExtendedSearched
  <2> QED BY <2>4, <2>7, <2>8
<1>19. Holds(st, Len(history) + 1)
  BY <1>9, <1>10, <1>12, <1>13, <1>18 DEF Holds, Shape
<1> QED BY <1>3, <1>9, <1>12, <1>18, <1>19 DEF Saved, Follows, st

-------------------------------------------------------------------------------
(* The invariant over the steps of a supervisor.                           *)

(* Chains that do not call may be forgotten. *)
Retired == DOMAIN chain' = Caller /\ \A c \in Caller : \/ chain'[c] = chain[c]
                                                       \/ chain'[c] = NoChain /\ chain[c].kind \notin Calling
Walks == /\ \A c \in Caller : Progresses(chain[c], call[c])
         /\ \A c \in Caller : chain[c].kind = "task" => Proven(chain[c].gen)
         /\ \A t \in TaskName : intent[<<"task", 0, t>>] # None => Proven(intent[<<"task", 0, t>>])

LEMMA ChainsRetire ==
  ASSUME CampaignInv, UNCHANGED <<intent, receipt, call>>, Retired
  PROVE  Chains' /\ Walks' /\ Answered' /\ Funds'
<1>0. Chains /\ Walks /\ Answered /\ Funds
  BY DEF CampaignInv, Grades, Walks
<1>1. Chains'
  <2>1. DOMAIN chain' = Caller
    BY DEF Retired
  <2>2. ASSUME NEW c \in Caller
        PROVE  DOMAIN chain'[c] = {"kind", "index", "gen", "todo"} /\ ChainFits(chain'[c], call'[c])
    <3>1. CASE chain'[c] = chain[c]
      BY <1>0, <3>1 DEF Chains
    <3>2. CASE chain'[c] = NoChain /\ chain[c].kind \notin Calling
      <4>1. call'[c] = Idle
        BY <1>0, <3>2 DEF Chains, ChainFits
      <4> QED BY <3>2, <4>1 DEF NoChain, ChainFits, Calling, Expanding, Alone
    <3> QED BY <3>1, <3>2 DEF Retired
  <2>3. ASSUME NEW c \in Caller, NEW d \in Caller, c # d, chain'[c].kind # "none", chain'[d].kind # "none"
        PROVE  chain'[c].index # chain'[d].index /\ chain'[c].kind \notin Alone
    BY <1>0, <2>3 DEF Chains, Retired, NoChain
  <2>4. \A c \in Caller : ChainFits(chain[c], call[c])'
    BY <2>2 DEF ChainFits
  <2> QED BY <2>1, <2>2, <2>3, <2>4 DEF Chains
<1>2. \A g : Proven(g)' <=> Proven(g)
  BY DEF Proven
<1>3. Walks'
  <2>1. ASSUME NEW c \in Caller
        PROVE  Progresses(chain[c], call[c])'
    <3>1. CASE chain'[c] = chain[c]
      BY <1>0, <3>1 DEF Walks, Progresses, GradedAs
    <3>2. CASE chain'[c] = NoChain
      BY <3>2 DEF NoChain, Progresses
    <3> QED BY <3>1, <3>2 DEF Retired
  <2>2. ASSUME NEW c \in Caller, chain'[c].kind = "task"
        PROVE  Proven(chain[c].gen)'
    <3>1. chain'[c] = chain[c]
      BY <2>2 DEF Retired, NoChain
    <3> QED BY <1>0, <1>2, <2>2, <3>1 DEF Walks, Proven
  <2>3. \A t \in TaskName : (intent[<<"task", 0, t>>] # None => Proven(intent[<<"task", 0, t>>]))'
    BY <1>0 DEF Walks, Proven
  <2> QED BY <2>1, <2>2, <2>3 DEF Walks
<1>4. Answered'
  BY <1>0 DEF Answered
<1>5. Funds'
  <2>1. Owed' \subseteq Owed
    BY DEF Owed, Retired, NoChain, Expanding
  <2>2. Reserved' = Reserved /\ IsFiniteSet(Reserved \cup Owed)
    BY OperationAssumption, FS_Subset DEF Reserved, Owed
  <2>3. Cardinality(Reserved' \cup Owed') <= Cardinality(Reserved \cup Owed)
        /\ Cardinality(Reserved' \cup Owed') \in Nat /\ Cardinality(Reserved \cup Owed) \in Nat
    <3>1. Reserved' \cup Owed' \subseteq Reserved \cup Owed
      BY <2>1, <2>2
    <3> QED BY <2>2, <3>1, FS_Subset, FS_CardinalityType
  <2>4. Cardinality(Reserved' \cup Owed') <= Requests
    BY <1>0, <2>3, RequestsAssumption DEF Funds
  <2>5. ASSUME NEW c \in Caller, call'[c].at = "reserve", chain'[c].kind \in Alone
        PROVE  Cardinality(Reserved') < Requests
    <3>1. chain'[c] = chain[c]
      BY <2>5 DEF Retired, NoChain, Alone
    <3> QED BY <1>0, <2>2, <2>5, <3>1 DEF Funds
  <2> QED BY <2>4, <2>5 DEF Funds
<1> QED BY <1>1, <1>3, <1>4, <1>5

(* A step that saves a snapshot. *)
LEMMA SaveKeeps ==
  ASSUME CampaignInv, CallInv', KeepsFiles, NEW st, NEW next, Saved(st, next), run.cmd # "none",
         UNCHANGED <<intent, receipt, call, approvals, lease>>, Retired,
         st.phase = "failed" \/ \A c \in Caller : chain'[c].kind = "none"
  PROVE  CampaignInv'
<1>1. Chains' /\ Walks' /\ Answered' /\ Funds'
  BY ChainsRetire
<1>2. Snapshots' /\ history' \in Seq(LiveState) /\ Len(history') = Len(history) + 1
      /\ history'[Len(history) + 1] = st
  BY SnapshotAdded DEF Saved
<1>3. /\ history' # <<>> /\ Now' = st /\ Phase(history') = st.phase /\ Len(history) \in Nat
      /\ history \in Seq(LiveState)
  BY <1>2 DEF Now, Phase, CampaignInv, Types
<1>4. /\ run' = [run EXCEPT !.at = "point", !.next = next] /\ DOMAIN run = {"cmd", "at", "next", "arg"}
      /\ UNCHANGED <<pointer, stored, reviews, decisions, served>>
  BY DEF Saved, SaveState, CampaignInv, Types
<1>5. run'.at = "point" /\ run'.next = next /\ run'.cmd = run.cmd /\ run'.arg = run.arg
      /\ DOMAIN run' = {"cmd", "at", "next", "arg"}
  BY <1>4
<1>6. Types'
  <2>1. Types
    BY DEF CampaignInv
  <2> QED BY <1>2, <1>4, <1>5, <2>1 DEF Types
<1>7. Place(run', history')
  <2>1. /\ next \in {"round", "canary", "release"}
        /\ next = "round" => st.phase \in {"baseline", "search"}
        /\ next = "canary" => st.phase = "probe"
    BY DEF Saved
  <2>2. Place(run, history)
    BY DEF CampaignInv
  <2> QED BY <1>3, <1>5, <2>1, <2>2 DEF Place
<1>8. Work'
  BY <1>3, <1>5 DEF Work
<1>9. Grades'
  BY <1>1, <1>5 DEF Grades, Walks
<1>10. Decided'
  BY <1>4, <1>5 DEF CampaignInv, Decided
<1>11. Served'
  <2>1. served \subseteq {Base} \cup Chosen(st) /\ (st.phase = "probe" => served \subseteq {Base})
    BY DEF Saved
  <2>2. pointer = None => served = {}
    BY DEF CampaignInv, Served
  <2>3. ASSUME pointer # None
        PROVE  /\ pointer.seq \in 1..Len(history') /\ pointer.gen = history'[pointer.seq].active
               /\ pointer.gen \in served
    <3>1. /\ pointer.seq \in 1..Len(history) /\ pointer.gen = history[pointer.seq].active
          /\ pointer.gen \in served
      BY <2>3 DEF CampaignInv, Served
    <3>2. history' = Append(history, st)
      BY DEF Saved, SaveState
    <3>3. pointer.seq \in DOMAIN history /\ history'[pointer.seq] = history[pointer.seq]
      BY <1>2, <1>3, <3>1, <3>2
    <3> QED BY <1>2, <1>3, <3>1, <3>3
  <2>4. Chosen(Now)' = Chosen(st)
    BY <1>3 DEF Chosen
  <2> QED BY <1>3, <1>4, <1>5, <2>1, <2>2, <2>3, <2>4 DEF Served
<1>12. Grown' /\ Stored'
  BY <1>5 DEF Grown, Stored
<1>13. Place(run, history)'
  BY <1>7
<1> QED BY <1>1, <1>2, <1>6, <1>8, <1>9, <1>10, <1>11, <1>12, <1>13 DEF CampaignInv

(* A step that publishes current.json. *)
LEMMA PublishServes ==
  ASSUME CampaignInv, history # <<>>, PublishPointer
  PROVE  Served' /\ pointer' \in Pointer /\ served' \subseteq Generation /\ pointer' = Current'
<1>1. /\ Current \in Pointer /\ Current # None /\ Current.gen = Now.active /\ Now.active \in Generation
      /\ Current.seq = Len(history)
  BY CurrentFits DEF Current
<1>2. /\ UNCHANGED <<history, stored, reviews, decisions>> /\ pointer' = Current
      /\ served' = served \cup {Now.active}
  BY DEF PublishPointer
<1>3. Now' = Now /\ Current' = Current /\ Phase(history') = Phase(history) /\ Chosen(Now)' = Chosen(Now)
  BY <1>2 DEF Now, Current, Phase, Chosen
<1>4. served \subseteq {Base} \cup Chosen(Now) /\ Retains(Now) /\ served \subseteq Generation
  BY NowHolds DEF Shape, CampaignInv, Types
<1>5. Now.active \in {Base} \cup Chosen(Now)
  <2>1. \/ Now.retained = <<Base>>
        \/ \E g \in Chosen(Now) : Now.retained = <<Base, g>>
    BY <1>4 DEF Retains
  <2>2. ToSet(Now.retained) \subseteq {Base} \cup Chosen(Now)
    BY <2>1 DEF ToSet
  <2> QED BY <1>4, <2>2 DEF Retains
<1>6. Len(history) \in 1..Len(history) /\ Now = history[Len(history)]
  BY NowFits
<1>7. Served'
  BY <1>1, <1>2, <1>3, <1>4, <1>5, <1>6 DEF Served
<1> QED BY <1>1, <1>2, <1>3, <1>4, <1>7

(* A step that moves the command on without a chain. *)
Bound == {"grade", "expand", "verify", "work"}
LEMMA MoveKeeps ==
  ASSUME CampaignInv, CallInv', KeepsFiles, Accumulates, Types',
         UNCHANGED <<history, intent, receipt, call, chain>>,
         run.at \notin Bound, run'.at \notin Bound, Place(run', history'),
         Decided', Served', Grown', run'.at = "first" => Base \in stored'
  PROVE  CampaignInv'
<1>1. Retired
  BY DEF Retired, CampaignInv, Chains
<1>2. Chains' /\ Walks' /\ Answered' /\ Funds'
  BY <1>1, ChainsRetire
<1>3. Snapshots'
  BY SnapshotsUnchanged
<1>4. Work'
  BY DEF Work, CampaignInv, Bound, Phase
<1>5. Grades'
  BY <1>2 DEF Grades, Walks, Bound
<1>6. Stored'
  BY DEF Stored, Bound
<1>7. Place(run, history)'
  OBVIOUS
<1> QED BY <1>2, <1>3, <1>4, <1>5, <1>6, <1>7 DEF CampaignInv

(* What is served stays, and so does the place of the pointer.             *)
LEMMA ServedStays ==
  ASSUME CampaignInv, UNCHANGED <<history, pointer, served>>,
         run'.at \in {"canary", "verify", "work"} => pointer = Current
  PROVE  Served'
<1>1. Now' = Now /\ Current' = Current /\ Phase(history') = Phase(history) /\ Chosen(Now)' = Chosen(Now)
  BY DEF Now, Current, Phase, Chosen
<1>2. Phase(history)' = Phase(history)
  BY <1>1 DEF Phase
<1> QED BY <1>1, <1>2 DEF CampaignInv, Served

(* Where a command may move next. *)
May(at) ==
  /\ at \in {"first", "baseline", "round", "select", "stage", "authorize", "decide", "activate", "record",
             "resume", "release"}
  /\ at = "first" => Base \in stored'
  /\ at = "baseline" => Phase(history) \in Searching
  /\ at \in {"round", "select", "stage"} => Phase(history) \in {"baseline", "search"}
  /\ at \in {"select", "stage"} => Now.rounds = MaxRounds \/ Candidates(Now) = CandidateLimit
  /\ at = "stage" => /\ Selected(Now) \notin {None, Base}
                     /\ Request(Now, Len(history), Selected(Now)) \in reviews'
  /\ at = "authorize" => Phase(history) \in {"awaiting_review", "probe"}
  /\ at \in {"decide", "activate", "record"} => Phase(history) = "awaiting_review"
  /\ at = "activate" => Decision("approved") \in decisions'
  /\ at = "record" => Decision("rejected") \in decisions'
  /\ at = "resume" => Phase(history) = "probe"

(* The decision that a command is about does not move with it. *)
LEMMA SameState ==
  ASSUME UNCHANGED <<history, receipt>>
  PROVE  /\ Now' = Now /\ Phase(history)' = Phase(history) /\ Selected(Now)' = Selected(Now)
         /\ Request(Now, Len(history), Selected(Now))' = Request(Now, Len(history), Selected(Now))
         /\ Candidates(Now)' = Candidates(Now)
         /\ \A outcome : run'.arg = run.arg => Decision(outcome)' = Decision(outcome)
<1>1. Now' = Now /\ Phase(history)' = Phase(history)
  BY DEF Now, Phase
<1>2. Selected(Now)' = Selected(Now)
  BY <1>1 DEF Selected, Winners, Eligible, Score, Passes, EvalOp
<1>3. Request(Now, Len(history), Selected(Now))' = Request(Now, Len(history), Selected(Now))
  BY <1>1, <1>2 DEF Request
<1>4. Candidates(Now)' = Candidates(Now)
  BY <1>1 DEF Candidates
<1>5. \A outcome : run'.arg = run.arg => Decision(outcome)' = Decision(outcome)
  BY <1>1 DEF Decision
<1> QED BY <1>1, <1>2, <1>3, <1>4, <1>5

LEMMA MoveOn ==
  ASSUME CampaignInv, CallInv', KeepsFiles, Accumulates, NEW at, Move(at), May(at),
         run.cmd # "none", run.at \notin Bound,
         UNCHANGED <<history, pointer, served, approvals, lease, chain, intent, receipt, call>>,
         stored' \subseteq Generation, reviews' \subseteq ReviewRequest, decisions' \subseteq ReviewDecision,
         \A d \in decisions' : approvals[d.approval].outcome = d.outcome
  PROVE  CampaignInv'
<1>1. DOMAIN run' = {"cmd", "at", "next", "arg"} /\ run'.at = at /\ run'.cmd = run.cmd /\ run'.arg = run.arg
      /\ run'.next = run.next
  BY DEF Move, CampaignInv, Types
<1>2. Types'
  BY <1>1 DEF CampaignInv, Types
<1>3. Place(run', history')
  <2>1. Place(run, history)
    BY DEF CampaignInv
  <2> QED BY <1>1, <2>1 DEF Place, May
<1>4. /\ Now' = Now /\ Phase(history)' = Phase(history) /\ Selected(Now)' = Selected(Now)
      /\ Request(Now, Len(history), Selected(Now))' = Request(Now, Len(history), Selected(Now))
      /\ Candidates(Now)' = Candidates(Now)
      /\ \A outcome : Decision(outcome)' = Decision(outcome)
  BY <1>1, SameState
<1>5. Decided'
  <2>1. (\A d \in decisions : approvals[d.approval].outcome = d.outcome)'
    OBVIOUS
  <2> QED BY <1>1, <1>4, <2>1 DEF May, Decided
<1>6. Served'
  BY <1>1, ServedStays DEF May
<1>7. Grown'
  BY <1>1, <1>4 DEF Grown, May
<1>8. run'.at \notin Bound /\ (run'.at = "first" => Base \in stored')
  BY <1>1 DEF May, Bound
<1> QED BY <1>2, <1>3, <1>5, <1>6, <1>7, <1>8, MoveKeeps

(* A command gives up, or goes on, without having changed a file. *)
LEMMA MoveOnly ==
  ASSUME CampaignInv, [Next]_vars, NEW at, Move(at), May(at), run.cmd # "none", run.at \notin Bound,
         UNCHANGED durable, Stay, Quiet
  PROVE  CampaignInv'
<1>1. CallInv' /\ KeepsFiles /\ Accumulates
  BY StepFacts
<1>2. /\ UNCHANGED <<history, pointer, served, stored, reviews, decisions, approvals, lease, chain>>
      /\ UNCHANGED <<intent, receipt, call>>
  BY DEF durable, Stay, Quiet, opVars
<1>3. /\ stored \subseteq Generation /\ reviews \subseteq ReviewRequest /\ decisions \subseteq ReviewDecision
      /\ \A d \in decisions : approvals[d.approval].outcome = d.outcome
  BY DEF CampaignInv, Types, Decided
<1> QED BY <1>1, <1>2, <1>3, MoveOn

(* A command that publishes current.json and goes on. *)
LEMMA PublishKeeps ==
  ASSUME CampaignInv, [Next]_vars, history # <<>>, NEW at, Move(at), run.cmd # "none", run.at \notin Bound,
         at \in {"round", "baseline", "canary", "release"},
         at = "round" => Phase(history) \in {"baseline", "search"},
         at = "baseline" => Phase(history) \in Searching,
         at = "canary" => Phase(history) = "probe",
         PublishPointer, Stay, Quiet
  PROVE  CampaignInv'
<1>1. CallInv' /\ KeepsFiles /\ Accumulates
  BY StepFacts
<1>2. /\ UNCHANGED <<history, stored, reviews, decisions, approvals, lease, chain>>
      /\ UNCHANGED <<intent, receipt, call>>
  BY DEF PublishPointer, Stay, Quiet, opVars
<1>3. DOMAIN run' = {"cmd", "at", "next", "arg"} /\ run'.at = at /\ run'.cmd = run.cmd /\ run'.arg = run.arg
      /\ run'.next = run.next
  BY DEF Move, CampaignInv, Types
<1>4. Served' /\ pointer' \in Pointer /\ served' \subseteq Generation
  BY PublishServes
<1>5. Types'
  BY <1>2, <1>3, <1>4 DEF CampaignInv, Types
<1>6. Place(run', history')
  <2>1. Place(run, history)
    BY DEF CampaignInv
  <2> QED BY <1>2, <1>3, <2>1 DEF Place
<1>7. Decided'
  <2>1. \A d \in decisions' : approvals'[d.approval].outcome = d.outcome
    BY <1>2 DEF CampaignInv, Decided
  <2> QED BY <1>3, <2>1 DEF Decided
<1>8. Grown' /\ run'.at \notin Bound /\ run'.at # "first"
  BY <1>3 DEF Grown, Bound
<1> QED BY <1>1, <1>2, <1>4, <1>5, <1>6, <1>7, <1>8, MoveKeeps

(* A saving step that leaves the chains as they are. *)
LEMMA SaveQuietly ==
  ASSUME CampaignInv, [Next]_vars, NEW st, NEW next, Saved(st, next), run.cmd # "none",
         Stay, UNCHANGED <<opVars, chain>>,
         st.phase = "failed" \/ (Phase(history) # "failed" /\ run.at \notin Bound)
  PROVE  CampaignInv'
<1>1. CallInv' /\ KeepsFiles
  BY StepFacts
<1>2. UNCHANGED <<intent, receipt, call, approvals, lease>>
  BY DEF Stay, opVars
<1>3. Retired
  BY DEF Retired, CampaignInv, Chains
<1>4. st.phase = "failed" \/ \A c \in Caller : chain'[c].kind = "none"
  BY NoChains DEF Bound
<1> QED BY <1>1, <1>2, <1>3, <1>4, SaveKeeps

(* One that forgets chains that have ended. *)
LEMMA SaveForgets ==
  ASSUME CampaignInv, [Next]_vars, NEW st, NEW next, Saved(st, next), run.cmd # "none",
         Stay, UNCHANGED opVars, Forget, \A c \in Caller : chain[c].kind \notin Calling
  PROVE  CampaignInv'
<1>1. CallInv' /\ KeepsFiles
  BY StepFacts
<1>2. UNCHANGED <<intent, receipt, call, approvals, lease>>
  BY DEF Stay, opVars
<1>3. Retired /\ \A c \in Caller : chain'[c].kind = "none"
  BY DEF Retired, Forget, NoChain
<1> QED BY <1>1, <1>2, <1>3, SaveKeeps

-------------------------------------------------------------------------------
(* The commands, one by one. *)
LEMMA PointKeeps == ASSUME CampaignInv, [Next]_vars, Point PROVE CampaignInv'
<1>1. run.at = "point" /\ run.cmd # "none" /\ history # <<>> /\ run.next \in {"round", "canary", "release"}
      /\ (run.next = "round" => Phase(history) \in {"baseline", "search"})
      /\ (run.next = "canary" => Phase(history) = "probe")
  BY DEF Point, CampaignInv, Place
<1>2. PublishPointer /\ Move(run.next) /\ Stay /\ Quiet
  BY DEF Point, Stay
<1> QED BY <1>1, <1>2, PublishKeeps DEF Bound

LEMMA UnleaseKeeps == ASSUME CampaignInv, [Next]_vars, Unlease PROVE CampaignInv'
<1>1. CallInv' /\ KeepsFiles /\ Accumulates
  BY StepFacts
<1>2. /\ UNCHANGED <<history, pointer, served, stored, reviews, decisions, approvals, chain>>
      /\ UNCHANGED <<intent, receipt, call>> /\ run.at = "release" /\ run' = NoRun /\ lease' = "free"
  BY DEF Unlease, durable, Quiet, opVars
<1>3. Types' /\ Place(run', history') /\ Decided' /\ Grown'
  BY <1>2 DEF NoRun, CampaignInv, Types, Place, Decided, Grown
<1>4. Served' /\ run'.at \notin Bound /\ run'.at # "first"
  BY <1>2, ServedStays DEF NoRun, Bound
<1> QED BY <1>1, <1>2, <1>3, <1>4, MoveKeeps DEF Bound

LEMMA StartKeeps == ASSUME CampaignInv, [Next]_vars, Command PROVE CampaignInv'
<1>1. PICK cmd, arg : /\ Start(cmd, arg) /\ cmd \in {"prepare", "run", "promote", "reject", "rollback", "task"}
                      /\ (cmd \in {"promote", "reject"} => arg \in ApprovalId) /\ (cmd = "task" => arg \in TaskName)
  <2>1. CASE \E a \in ApprovalId : Start("promote", a) \/ Start("reject", a)
    BY <2>1
  <2>2. CASE \E t \in TaskName : Start("task", t)
    BY <2>2
  <2>3. CASE Start("prepare", None) \/ Start("run", None) \/ Start("rollback", None)
    BY <2>3
  <2> QED BY <2>1, <2>2, <2>3 DEF Command, StartPrepare, StartRun, StartPromote, StartReject, StartRollback, StartTask
<1>2. CallInv' /\ KeepsFiles /\ Accumulates
  BY StepFacts
<1>3. /\ UNCHANGED <<history, pointer, served, stored, reviews, decisions, approvals, chain>>
      /\ UNCHANGED <<intent, receipt, call>> /\ lease = "free" /\ lease' = "held"
      /\ run' = [cmd |-> cmd, at |-> "load", next |-> "idle", arg |-> arg]
  BY <1>1 DEF Start, durable, Quiet, opVars
<1>4. run.cmd = "none" /\ run.at = "idle"
  BY <1>3 DEF CampaignInv, Types, Place
<1>5. Types' /\ Place(run', history') /\ Decided' /\ Grown'
  BY <1>1, <1>3 DEF CampaignInv, Types, Place, Decided, Grown
<1>6. Served' /\ run'.at \notin Bound /\ run'.at # "first"
  BY <1>3, ServedStays DEF Bound
<1> QED BY <1>2, <1>3, <1>4, <1>5, <1>6, MoveKeeps DEF Bound

LEMMA PrepareKeeps == ASSUME CampaignInv, [Next]_vars, PrepareFiles \/ PrepareState PROVE CampaignInv'
<1>1. CASE PrepareFiles
  <2>1. /\ Move("first") /\ run.cmd # "none" /\ run.at = "load" /\ stored' = stored \cup {Base}
        /\ UNCHANGED <<history, pointer, served, reviews, decisions, approvals, lease, chain, intent, receipt, call>>
    BY <1>1 DEF PrepareFiles, Busy, Stay, Quiet, opVars
  <2>2. stored' \subseteq Generation /\ reviews' \subseteq ReviewRequest /\ decisions' \subseteq ReviewDecision
        /\ \A d \in decisions' : approvals[d.approval].outcome = d.outcome
    BY <2>1, PlanAssumption DEF CampaignInv, Types, Decided
  <2>3. May("first")
    BY <2>1 DEF May
  <2>4. CallInv' /\ KeepsFiles /\ Accumulates
    BY StepFacts
  <2> QED BY <2>1, <2>2, <2>3, <2>4, MoveOn DEF Bound
<1>2. CASE PrepareState /\ history = <<>>
  <2>1. SaveState(Prepared, "release") /\ run.cmd # "none" /\ run.at = "first" /\ Stay /\ UNCHANGED <<opVars, chain>>
    BY <1>2 DEF PrepareState, Busy, Quiet
  <2>2. Saved(Prepared, "release") /\ Phase(history) # "failed"
    BY <1>2, <2>1, PreparedSaves DEF Phase
  <2> QED BY <2>1, <2>2, SaveQuietly DEF Bound
<1>3. CASE PrepareState /\ history # <<>>
  <2>1. Move("release") /\ UNCHANGED durable /\ run.cmd # "none" /\ run.at = "first" /\ Stay /\ Quiet
    BY <1>3 DEF PrepareState, Busy
  <2> QED BY <2>1, MoveOnly DEF May, Bound
<1> QED BY <1>1, <1>2, <1>3

LEMMA LoadKeeps == ASSUME CampaignInv, [Next]_vars, RunLoad PROVE CampaignInv'
<1>1. run.at = "load" /\ run.cmd # "none" /\ Stay /\ Quiet
  BY DEF RunLoad, Busy
<1>2. CASE Loads /\ Now.phase \in Searching \cup {"awaiting_review"}
  <2>1. history # <<>> /\ PublishPointer
    BY <1>2 DEF RunLoad, Loads
  <2>2. \/ Move("baseline") /\ Phase(history) \in Searching
        \/ Move("release")
    BY <1>2, <2>1, NowFits DEF RunLoad
  <2> QED BY <1>1, <2>1, <2>2, PublishKeeps DEF Bound
<1>3. CASE ~(Loads /\ Now.phase \in Searching \cup {"awaiting_review"})
  <2>1. UNCHANGED durable /\ Move("release")
    BY <1>3 DEF RunLoad
  <2> QED BY <1>1, <2>1, MoveOnly DEF May, Bound
<1> QED BY <1>2, <1>3

LEMMA StopKeeps ==
  ASSUME CampaignInv, [Next]_vars, history # <<>>, Now.phase \in Searching \cup {"probe"}, NEW code \in ErrorCode,
         Stop(code), run.cmd # "none", Stay, UNCHANGED <<opVars, chain>>
  PROVE  CampaignInv'
<1>1. PICK st : Saved(st, "release") /\ st.phase = "failed"
  BY StopSaves
<1> QED BY <1>1, SaveQuietly

LEMMA GradedKeeps == ASSUME CampaignInv, [Next]_vars, RunGraded PROVE CampaignInv'
<1>1. run.at = "grade" /\ run.cmd # "none" /\ Stay /\ UNCHANGED opVars
  BY DEF RunGraded, Busy
<1>2. history # <<>> /\ Now.phase = "prepared"
  <2>1. Phase(history) = "prepared"
    BY <1>1 DEF CampaignInv, Place
  <2> QED BY <2>1, NowFits DEF Phase
<1>3. CASE Stop("LIVE_FAILED") /\ UNCHANGED chain
  <2>1. Now.phase \in Searching \cup {"probe"} /\ "LIVE_FAILED" \in ErrorCode
    BY <1>2 DEF Searching, ErrorCode
  <2>2. Stop("LIVE_FAILED") /\ UNCHANGED <<opVars, chain>>
    BY <1>1, <1>3
  <2> QED BY <1>1, <1>2, <2>1, <2>2, StopKeeps
<1>4. CASE BatchEnded /\ Forget /\ SaveState(BaselineState, "round")
  <2>1. Saved(BaselineState, "round")
    BY <1>1, <1>2, <1>4, BaselineSaves
  <2>2. \A c \in Caller : chain[c].kind \notin Calling
    BY <1>4 DEF BatchEnded, Calling
  <2> QED BY <1>1, <1>4, <2>1, <2>2, SaveForgets
<1> QED BY <1>3, <1>4 DEF RunGraded, BaselineState

LEMMA ExpandedKeeps == ASSUME CampaignInv, [Next]_vars, RunExpanded PROVE CampaignInv'
<1>1. run.at = "expand" /\ run.cmd # "none" /\ Stay /\ UNCHANGED opVars
  BY DEF RunExpanded, Busy
<1>2. history # <<>> /\ Now.phase \in {"baseline", "search"}
  <2>1. Phase(history) \in {"baseline", "search"}
    BY <1>1 DEF CampaignInv, Place
  <2> QED BY <2>1, NowFits DEF Phase
<1>3. CASE Stop("LIVE_FAILED") /\ UNCHANGED chain
  <2>1. Now.phase \in Searching \cup {"probe"} /\ "LIVE_FAILED" \in ErrorCode
    BY <1>2 DEF Searching, ErrorCode
  <2>2. Stop("LIVE_FAILED") /\ UNCHANGED <<opVars, chain>>
    BY <1>1, <1>3
  <2> QED BY <1>1, <1>2, <2>1, <2>2, StopKeeps
<1>4. CASE BatchEnded /\ Forget /\ SaveState(SearchState, "round")
  <2>1. Saved(SearchState, "round")
    BY <1>1, <1>2, <1>4, SearchSaves
  <2>2. \A c \in Caller : chain[c].kind \notin Calling
    BY <1>4 DEF BatchEnded, Calling
  <2> QED BY <1>1, <1>4, <2>1, <2>2, SaveForgets
<1> QED BY <1>3, <1>4 DEF RunExpanded, SearchState, Ended

(* The search is over, or it goes on to its next round.                    *)
LEMMA SelectKeeps == ASSUME CampaignInv, [Next]_vars, RunSelect \/ RunStage PROVE CampaignInv'
<1>1. run.at \in {"select", "stage"} /\ run.cmd # "none" /\ Stay /\ Quiet /\ UNCHANGED <<opVars, chain>>
  BY DEF RunSelect, RunStage, Busy, Quiet
<1>2. history # <<>> /\ Phase(history) \in {"baseline", "search"}
  <2>1. Phase(history) \in {"baseline", "search"}
    BY <1>1 DEF CampaignInv, Place
  <2> QED BY <2>1, NowFits DEF Phase
<1>3. CASE RunSelect /\ Selected(Now) \in {None, Base}
  <2>1. SaveState(CompleteState, "release") /\ run.at = "select"
    BY <1>3 DEF RunSelect, CompleteState, Busy
  <2>2. Saved(CompleteState, "release")
    BY <1>2, <2>1, CompleteSaves
  <2> QED BY <1>1, <1>2, <2>2, SaveQuietly DEF Bound
<1>4. CASE RunSelect /\ Selected(Now) \notin {None, Base}
  <2>1. /\ reviews' = reviews \cup {Request(Now, Len(history), Selected(Now))} /\ Move("stage")
        /\ UNCHANGED <<history, pointer, stored, decisions, served>> /\ run.at = "select"
    BY <1>4 DEF RunSelect, Busy
  <2>2. UNCHANGED <<approvals, lease, chain, intent, receipt, call>>
    BY <1>1 DEF Stay, Quiet, opVars
  <2>3. Request(Now, Len(history), Selected(Now)) \in ReviewRequest
    BY <1>2, <1>4, SelectedFits
  <2>4. stored' \subseteq Generation /\ reviews' \subseteq ReviewRequest /\ decisions' \subseteq ReviewDecision
        /\ \A d \in decisions' : approvals[d.approval].outcome = d.outcome
    BY <2>1, <2>3 DEF CampaignInv, Types, Decided
  <2>5. May("stage")
    BY <1>2, <1>4, <2>1 DEF May, CampaignInv, Grown
  <2>6. CallInv' /\ KeepsFiles /\ Accumulates
    BY StepFacts
  <2> QED BY <1>1, <2>1, <2>2, <2>4, <2>5, <2>6, MoveOn DEF Bound
<1>5. CASE RunStage
  <2>1. SaveState(StageState, "release") /\ run.at = "stage"
    BY <1>5 DEF RunStage, StageState, Busy
  <2>2. Saved(StageState, "release")
    BY <1>2, <2>1, StageSaves
  <2> QED BY <1>1, <1>2, <2>2, SaveQuietly DEF Bound
<1> QED BY <1>3, <1>4, <1>5

(* Promotion. *)
LEMMA PromoteStays ==
  ASSUME CampaignInv, [Next]_vars, run.cmd # "none", run.at \notin Bound,
         Phase(history) \in {"awaiting_review", "probe"}, PromoteFails, Stay, Quiet
  PROVE  CampaignInv'
<1>1. history # <<>> /\ Phase(history) = Now.phase
  BY NowFits DEF Phase
<1>2. CASE Now.phase = "awaiting_review"
  BY <1>2, MoveOnly DEF PromoteFails, May
<1>3. CASE Now.phase # "awaiting_review"
  <2>1. Now.phase \in Searching \cup {"probe"} /\ "LIVE_FAILED" \in ErrorCode
    BY <1>1, <1>3 DEF ErrorCode
  <2>2. Stop("LIVE_FAILED") /\ UNCHANGED <<opVars, chain>>
    BY <1>3 DEF PromoteFails, Quiet
  <2> QED BY <1>1, <2>1, <2>2, StopKeeps
<1> QED BY <1>2, <1>3

LEMMA PromoteLoadKeeps == ASSUME CampaignInv, [Next]_vars, PromoteLoad \/ PromoteAuthorize PROVE CampaignInv'
<1>1. CASE PromoteLoad
  <2>1. run.at = "load" /\ run.cmd # "none" /\ Stay /\ Quiet /\ UNCHANGED durable
    BY <1>1 DEF PromoteLoad, Busy
  <2>2. \/ Move("authorize") /\ history # <<>> /\ Now.phase \in {"awaiting_review", "probe"}
        \/ Move("release")
    BY <1>1 DEF PromoteLoad, Loads
  <2>3. PICK at \in {"authorize", "release"} : Move(at) /\ May(at)
    BY <2>2, NowFits DEF May
  <2> QED BY <2>1, <2>3, MoveOnly DEF Bound
<1>2. CASE PromoteAuthorize
  <2>1. run.at = "authorize" /\ run.cmd # "none" /\ Stay /\ Quiet
        /\ Phase(history) \in {"awaiting_review", "probe"}
    BY <1>2 DEF PromoteAuthorize, Busy, CampaignInv, Place
  <2>2. history # <<>> /\ Phase(history) = Now.phase
    BY <2>1, NowFits DEF Phase
  <2>3. CASE PromoteFails
    BY <2>1, <2>3, PromoteStays DEF Bound
  <2>4. CASE UNCHANGED durable /\ Move(IF Now.phase = "awaiting_review" THEN "decide" ELSE "resume")
    <3>1. PICK at \in {"decide", "resume"} : Move(at) /\ May(at)
      BY <2>1, <2>2, <2>4 DEF May
    <3> QED BY <2>1, <2>4, <3>1, MoveOnly DEF Bound
  <2> QED BY <1>2, <2>3, <2>4 DEF PromoteAuthorize
<1> QED BY <1>1, <1>2

(* A decision is recorded. *)
LEMMA DecideKeeps ==
  ASSUME CampaignInv, [Next]_vars, Phase(history) = "awaiting_review", run.cmd \in {"promote", "reject"},
         run.at \notin Bound, Stay, Quiet,
         NEW outcome, NEW at,
         (outcome = "approved" /\ at = "activate") \/ (outcome = "rejected" /\ at = "record"),
         Rules(run.arg, outcome), Move(at), decisions' = decisions \cup {Decision(outcome)},
         UNCHANGED <<history, pointer, stored, reviews, served>>
  PROVE  CampaignInv'
<1>1. history # <<>> /\ Now.phase = "awaiting_review" /\ outcome \in Outcome
  BY NowFits DEF Phase, Outcome
<1>2. /\ Decision(outcome) \in ReviewDecision /\ Decision(outcome).outcome = outcome
      /\ Decision(outcome).approval = run.arg
  BY <1>1, DecisionFits
<1>3. approvals[run.arg].outcome = outcome
  BY DEF Rules
<1>4. stored' \subseteq Generation /\ reviews' \subseteq ReviewRequest /\ decisions' \subseteq ReviewDecision
      /\ \A d \in decisions' : approvals[d.approval].outcome = d.outcome
  BY <1>2, <1>3 DEF CampaignInv, Types, Decided
<1>5. UNCHANGED <<approvals, lease, chain, intent, receipt, call>>
  BY DEF Stay, Quiet, opVars
<1>6. May(at)
  BY DEF May
<1>7. CallInv' /\ KeepsFiles /\ Accumulates
  BY StepFacts
<1> QED BY <1>4, <1>5, <1>6, <1>7, MoveOn

LEMMA PromoteDecideKeeps ==
  ASSUME CampaignInv, [Next]_vars, PromoteDecide \/ RejectLoad
  PROVE  CampaignInv'
<1>1. CASE PromoteDecide
  <2>1. run.at = "decide" /\ run.cmd = "promote" /\ Stay /\ Quiet /\ Phase(history) = "awaiting_review"
    BY <1>1 DEF PromoteDecide, Busy, CampaignInv, Place
  <2>2. CASE PromoteFails
    BY <2>1, <2>2, PromoteStays DEF Bound
  <2>3. CASE ~PromoteFails
    <3>1. /\ Rules(run.arg, "approved") /\ Move("activate") /\ decisions' = decisions \cup {Decision("approved")}
          /\ UNCHANGED <<history, pointer, stored, reviews, served>>
      BY <1>1, <2>3 DEF PromoteDecide
    <3> QED BY <2>1, <3>1, DecideKeeps DEF Bound
  <2> QED BY <2>2, <2>3
<1>2. CASE RejectLoad
  <2>1. run.at = "load" /\ run.cmd = "reject" /\ Stay /\ Quiet
    BY <1>2 DEF RejectLoad, Busy
  <2>2. CASE Loads /\ Now.phase = "awaiting_review" /\ Rules(run.arg, "rejected")
    <3>1. /\ Move("record") /\ decisions' = decisions \cup {Decision("rejected")}
          /\ UNCHANGED <<history, pointer, stored, reviews, served>> /\ Rules(run.arg, "rejected")
          /\ Phase(history) = "awaiting_review"
      BY <1>2, <2>2, NowFits DEF RejectLoad, Loads
    <3> QED BY <2>1, <3>1, DecideKeeps DEF Bound
  <2>3. CASE ~(Loads /\ Now.phase = "awaiting_review" /\ Rules(run.arg, "rejected"))
    <3>1. Move("release") /\ UNCHANGED durable
      BY <1>2, <2>3 DEF RejectLoad
    <3> QED BY <2>1, <3>1, MoveOnly DEF May, Bound
  <2> QED BY <2>2, <2>3
<1> QED BY <1>1, <1>2

(* A decision is applied: the candidate is activated, or refused.          *)
LEMMA ApplyKeeps == ASSUME CampaignInv, [Next]_vars, PromoteActivate \/ RejectRecord PROVE CampaignInv'
<1>1. /\ Phase(history) = "awaiting_review" /\ run.at \notin Bound /\ run.cmd \in {"promote", "reject"}
      /\ Stay /\ UNCHANGED <<opVars, chain>>
  BY DEF PromoteActivate, RejectRecord, Busy, CampaignInv, Place, Bound, Quiet
<1>2. history # <<>> /\ Now.phase = "awaiting_review"
  BY <1>1, NowFits DEF Phase
<1>3. /\ Now \in LiveState /\ Now.review \in ReviewState
  BY <1>1, <1>2, NowFits, DecisionFits DEF Outcome
<1>4. CASE PromoteActivate
  <2>1. Decision("approved") \in decisions
    BY <1>4 DEF PromoteActivate, Busy, CampaignInv, Decided
  <2>2. SaveState(DecidedState("probe", Now.review.request.candidate, Now.error, "approved"), "canary")
    BY <1>3, <1>4 DEF PromoteActivate, DecidedState, LiveState
  <2>3. Saved(DecidedState("probe", Now.review.request.candidate, Now.error, "approved"), "canary")
    BY <1>1, <1>2, <2>1, <2>2, DecisionSaves
  <2> QED BY <1>1, <2>3, SaveQuietly
<1>5. CASE RejectRecord
  <2>1. Decision("rejected") \in decisions
    BY <1>5 DEF RejectRecord, Busy, CampaignInv, Decided
  <2>2. SaveState(DecidedState("rejected", Now.active, "LIVE_REVIEW_REJECTED", "rejected"), "release")
    BY <1>3, <1>5 DEF RejectRecord, DecidedState, LiveState
  <2>3. Saved(DecidedState("rejected", Now.active, "LIVE_REVIEW_REJECTED", "rejected"), "release")
    <3>1. "LIVE_REVIEW_REJECTED" \in ErrorCode
      BY DEF ErrorCode
    <3> QED BY <1>1, <1>2, <2>1, <2>2, <3>1, DecisionSaves
  <2> QED BY <1>1, <2>3, SaveQuietly
<1> QED BY <1>4, <1>5

LEMMA PromoteResumeKeeps == ASSUME CampaignInv, [Next]_vars, PromoteResume PROVE CampaignInv'
<1>1. run.at = "resume" /\ run.cmd # "none" /\ Stay /\ Quiet /\ Phase(history) = "probe" /\ history # <<>>
  BY DEF PromoteResume, Busy, CampaignInv, Place, Phase
<1>2. CASE PromoteFails
  BY <1>1, <1>2, PromoteStays DEF Bound
<1>3. CASE PublishPointer /\ Move("canary")
  BY <1>1, <1>3, PublishKeeps DEF Bound
<1> QED BY <1>2, <1>3 DEF PromoteResume

(* One prompt is retained, or two. *)
Lists(S, x, y, one, two) == x \in S /\ y \in S /\ one = <<x>> /\ two = <<x, y>>
Added(s, y) == Append(s, y)
Lowest(s) == SubSeq(s, 1, 1)
LEMMA OneOrTwo ==
  ASSUME NEW S, NEW x, NEW y, NEW one, NEW two, Lists(S, x, y, one, two)
  PROVE  /\ Len(one) = 1 /\ Len(two) = 2 /\ one[1] = x /\ two[1] = x
         /\ Added(one, y) = two /\ Lowest(one) = one /\ Lowest(two) = one
<1>0. x \in S /\ y \in S /\ one = <<x>> /\ two = <<x, y>>
  BY DEF Lists
<1>1. /\ <<x>> \in Seq(S) /\ Len(<<x>>) = 1 /\ <<x>>[1] = x
      /\ <<x, y>> \in Seq(S) /\ Len(<<x, y>>) = 2 /\ <<x, y>>[1] = x /\ <<x, y>>[2] = y
  BY <1>0
<1>3. /\ one \in Seq(S) /\ Len(one) = 1 /\ one[1] = x
      /\ two \in Seq(S) /\ Len(two) = 2 /\ two[1] = x /\ two[2] = y
  BY <1>0, <1>1
<1>4. Append(one, y) = two
  <2>1. PICK s : s = Append(one, y)
    OBVIOUS
  <2>2. s \in Seq(S) /\ Len(s) = 2 /\ s[1] = x /\ s[2] = y
    BY <1>0, <1>3, <2>1
  <2>3. \A i \in 1..Len(s) : s[i] = two[i]
    BY <1>3, <2>2
  <2>4. s = two
    BY <1>3, <2>2, <2>3, SeqEqual
  <2> QED BY <2>1, <2>4
<1>5. ASSUME NEW s \in Seq(S), s[1] = x, Len(s) \in 1..2
      PROVE  SubSeq(s, 1, 1) = one
  <2>1. PICK t : t = SubSeq(s, 1, 1)
    OBVIOUS
  <2>2. t \in Seq(S) /\ Len(t) = 1 /\ t[1] = x
    BY <1>5, <2>1
  <2>3. \A i \in 1..Len(t) : t[i] = one[i]
    BY <1>3, <2>2
  <2>4. t = one
    BY <1>3, <2>2, <2>3, SeqEqual
  <2> QED BY <2>1, <2>4
<1>6. SubSeq(one, 1, 1) = one /\ SubSeq(two, 1, 1) = one
  BY <1>3, <1>5
<1> QED BY <1>3, <1>4, <1>6 DEF Added, Lowest

(* The canary is over. *)
LEMMA VerifyKeeps == ASSUME CampaignInv, [Next]_vars, PromoteVerify PROVE CampaignInv'
<1>1. run.at = "verify" /\ run.cmd # "none" /\ Stay /\ UNCHANGED opVars /\ Forget
      /\ Phase(history) = "probe" /\ history # <<>>
  BY DEF PromoteVerify, Busy, CampaignInv, Place, Phase
<1>2. /\ Now \in LiveState /\ Retains(Now) /\ Reviewed(Now) /\ Holds(Now, Len(history)) /\ Now.phase = "probe"
      /\ Now.retained = <<Base>> /\ Last(Now.retained) = Base /\ ToSet(Now.retained) = {Base}
      /\ Now.error \in ErrorCode \cup {None}
  BY <1>1, NowFits, NowHolds, BaseRetained DEF Shape, LiveState
<1>3. /\ 1 \in Caller /\ chain[1].kind \in {"probe", "ended", "missed", "failed"}
      /\ \A c \in Caller : c # 1 => chain[c].kind = "none"
  BY <1>1, PlanAssumption DEF CampaignInv, Work, Single
<1>4. CASE BatchFailed /\ Stop("LIVE_FAILED")
  <2>1. \A c \in Caller : chain[c].kind \notin Calling
    BY <1>3, <1>4 DEF BatchFailed, Calling
  <2>2. Now.phase \in Searching \cup {"probe"} /\ "LIVE_FAILED" \in ErrorCode
    BY <1>2 DEF ErrorCode
  <2>3. PICK st : Saved(st, "release")
    BY <1>1, <1>4, <2>2, StopSaves
  <2> QED BY <1>1, <2>1, <2>3, SaveForgets
<1>5. CASE chain[1].kind = "missed" /\ SaveState([Now EXCEPT !.phase = "rolled_back", !.active = Last(Now.retained),
                                                           !.error = "LIVE_CANARY_REGRESSION"], "release")
  <2>1. \A c \in Caller : chain[c].kind \notin Calling
    BY <1>3, <1>5 DEF Calling
  <2>2. SaveState(SettledState("rolled_back", Base, <<Base>>, "LIVE_CANARY_REGRESSION"), "release")
    <3>1. [Now EXCEPT !.phase = "rolled_back", !.active = Last(Now.retained), !.error = "LIVE_CANARY_REGRESSION"]
            = SettledState("rolled_back", Base, <<Base>>, "LIVE_CANARY_REGRESSION")
      BY <1>2 DEF SettledState, LiveState
    <3> QED BY <1>5, <3>1
  <2>3. Saved(SettledState("rolled_back", Base, <<Base>>, "LIVE_CANARY_REGRESSION"), "release")
    <3>1. "LIVE_CANARY_REGRESSION" \in ErrorCode \cup {None}
      BY DEF ErrorCode
    <3> QED BY <1>1, <1>2, <2>2, <3>1, SettledSaves
  <2> QED BY <1>1, <2>1, <2>3, SaveForgets
<1>6. CASE BatchEnded
  <2>1. \A c \in Caller : chain[c].kind \notin Calling
    BY <1>6 DEF BatchEnded, Calling
  <2>2. CASE Stop("LIVE_FAILED")
    <3>1. Now.phase \in Searching \cup {"probe"} /\ "LIVE_FAILED" \in ErrorCode
      BY <1>2 DEF ErrorCode
    <3>2. PICK st : Saved(st, "release")
      BY <1>1, <2>2, <3>1, StopSaves
    <3> QED BY <1>1, <2>1, <3>2, SaveForgets
  <2>3. CASE SaveState([Now EXCEPT !.phase = "complete",
                           !.retained = IF Now.active \in ToSet(@) THEN @ ELSE Append(@, Now.active)], "release")
    <3>1. Now.active \in Chosen(Now) /\ Now.active # Base /\ Now.active \in stored /\ Now.active \in Generation
      BY <1>2 DEF Retains, Chosen, Reviewed, Holds, LiveState
    <3>2. Proven(Now.active)
      <4>1. chain[1].kind = "ended"
        BY <1>3, <1>6 DEF BatchEnded
      <4>2. Proven(None) /\ None # Base
        BY <1>1, <4>1, ValueAssumption, PlanAssumption DEF CampaignInv, Grades
      <4> QED BY <4>2 DEF Proven
    <3>3. Added(Now.retained, Now.active) = <<Base, Now.active>>
      <4>1. Lists(Generation, Base, Now.active, Now.retained, <<Base, Now.active>>)
        BY <1>2, <3>1, PlanAssumption DEF Lists
      <4> QED BY <4>1, OneOrTwo
    <3>4. [Now EXCEPT !.phase = "complete",
                      !.retained = IF Now.active \in ToSet(@) THEN @ ELSE Append(@, Now.active)]
            = SettledState("complete", Now.active, <<Base, Now.active>>, Now.error)
      BY <1>2, <3>1, <3>3 DEF SettledState, LiveState, Added
    <3>5. Saved(SettledState("complete", Now.active, <<Base, Now.active>>, Now.error), "release")
      BY <1>1, <1>2, <2>3, <3>1, <3>2, <3>4, SettledSaves
    <3> QED BY <1>1, <2>1, <3>5, SaveForgets
  <2> QED BY <1>1, <1>3, <1>4, <1>5, <1>6, <2>2, <2>3 DEF PromoteVerify, BatchFailed, BatchEnded
<1> QED BY <1>4, <1>5, <1>6 DEF PromoteVerify

(* The operator rolls back. *)
LEMMA RollbackKeeps == ASSUME CampaignInv, [Next]_vars, Rollback PROVE CampaignInv'
<1>1. run.at = "load" /\ run.cmd # "none" /\ Stay /\ Quiet /\ UNCHANGED <<opVars, chain>>
  BY DEF Rollback, Busy, Quiet
<1>2. CASE Serving
  <2>1. history # <<>> /\ Now.phase \in {"complete", "rolled_back"} /\ Now \in LiveState /\ Retains(Now)
        /\ Phase(history) = Now.phase
    BY <1>2, NowFits DEF Serving, Loads, Shape
  <2>2. Now.retained = <<Base>> \/ \E g \in Chosen(Now) : Now.retained = <<Base, g>>
    BY <2>1 DEF Retains
  <2>3. PICK below : below = IF Len(Now.retained) > 1 THEN Len(Now.retained) - 1 ELSE 1
    OBVIOUS
  <2>4. below = 1 /\ Now.retained[1] = Base /\ SubSeq(Now.retained, 1, 1) = <<Base>>
    <3>1. PICK g \in Generation : Now.retained = <<Base>> \/ Now.retained = <<Base, g>>
      BY <2>2, PlanAssumption DEF Chosen
    <3>2. /\ Len(Now.retained) \in 1..2 /\ Now.retained[1] = Base
          /\ Lowest(Now.retained) = <<Base>>
      <4>1. PICK one, two : Lists(Generation, Base, g, one, two)
        BY PlanAssumption DEF Lists
      <4>2. one = <<Base>> /\ (Now.retained = one \/ Now.retained = two)
        BY <3>1, <4>1 DEF Lists
      <4>3. /\ Len(one) = 1 /\ Len(two) = 2 /\ one[1] = Base /\ two[1] = Base
            /\ Lowest(one) = one /\ Lowest(two) = one
        BY <4>1, OneOrTwo
      <4>4. CASE Now.retained = one
        <5>1. Len(Now.retained) = 1 /\ Now.retained[1] = Base /\ Lowest(Now.retained) = one
          BY <4>3, <4>4
        <5> QED BY <4>2, <5>1
      <4>5. CASE Now.retained = two
        <5>1. Len(Now.retained) = 2 /\ Now.retained[1] = Base /\ Lowest(Now.retained) = one
          BY <4>3, <4>5
        <5> QED BY <4>2, <5>1
      <4>6. Now.retained = one \/ Now.retained = two
        BY <4>2
      <4> QED BY <4>4, <4>5, <4>6, Zenon
    <3>3. Len(Now.retained) \in 1..2
      BY <3>2
    <3>4. below = 1
      BY <2>3, <3>3
    <3> QED BY <3>2, <3>4, Zenon DEF Lowest
  <2>5. SaveState([Now EXCEPT !.phase = "rolled_back", !.active = Now.retained[below],
                              !.retained = SubSeq(Now.retained, 1, below), !.error = None], "release")
    BY <1>2, <2>3 DEF Rollback
  <2>6. SaveState(SettledState("rolled_back", Base, <<Base>>, None), "release")
    BY <2>4, <2>5 DEF SettledState
  <2>7. Saved(SettledState("rolled_back", Base, <<Base>>, None), "release")
    BY <2>1, <2>6, SettledSaves
  <2> QED BY <1>1, <2>1, <2>7, SaveQuietly DEF Bound
<1>3. CASE ~Serving
  <2>1. Move("release") /\ UNCHANGED durable
    BY <1>3 DEF Rollback
  <2> QED BY <1>1, <2>1, MoveOnly DEF May, Bound
<1> QED BY <1>2, <1>3

(* A task is done. *)
LEMMA TaskDoneKeeps == ASSUME CampaignInv, [Next]_vars, TaskDone PROVE CampaignInv'
<1>1. /\ run.at = "work" /\ run.cmd = "task" /\ Forget /\ Move("release")
      /\ UNCHANGED <<history, pointer, served, stored, reviews, decisions, approvals, lease, intent, receipt, call>>
  BY DEF TaskDone, Busy, Stay, durable, opVars
<1>2. DOMAIN run' = {"cmd", "at", "next", "arg"} /\ run'.at = "release" /\ run'.cmd = run.cmd /\ run'.arg = run.arg
      /\ run'.next = run.next
  BY <1>1 DEF Move, CampaignInv, Types
<1>3. Retired
  <2>1. \A c \in Caller : chain[c].kind \notin Calling
    BY DEF TaskDone, Working, Calling
  <2> QED BY <1>1, <2>1 DEF Retired, Forget
<1>4. Chains' /\ Walks' /\ Answered' /\ Funds'
  BY <1>1, <1>3, ChainsRetire
<1>5. CallInv' /\ KeepsFiles /\ Accumulates
  BY StepFacts
<1>6. Snapshots'
  BY <1>1, <1>5, SnapshotsUnchanged
<1>7. Types' /\ Place(run', history') /\ Decided' /\ Grown'
  BY <1>1, <1>2 DEF CampaignInv, Types, Place, Decided, Grown
<1>8. Served'
  BY <1>1, <1>2, ServedStays
<1>9. Work' /\ Grades' /\ Stored'
  <2>1. \A c \in Caller : chain'[c].kind = "none"
    BY <1>1 DEF Forget, NoChain
  <2> QED BY <1>2, <1>4, <2>1 DEF Work, Grades, Walks, Stored
<1>10. Place(run, history)'
  BY <1>7
<1> QED BY <1>4, <1>5, <1>6, <1>7, <1>8, <1>9, <1>10 DEF CampaignInv

-------------------------------------------------------------------------------
(* Steps that start chains. *)

(* What remains to show of a step that starts chains and writes no file.   *)
LEMMA BindKeeps ==
  ASSUME CampaignInv, [Next]_vars, NEW at \in Bound, Move(at), run.cmd # "none",
         UNCHANGED durable, Stay, UNCHANGED <<intent, receipt>>,
         at = "grade" => Phase(history) = "prepared",
         at = "expand" => /\ Phase(history) \in {"baseline", "search"}
                          /\ Now.rounds < MaxRounds /\ Candidates(Now) < CandidateLimit,
         at = "verify" => Phase(history) = "probe" /\ pointer = Current,
         at = "work" => Phase(history) \in {"complete", "rolled_back"} /\ pointer = Current,
         Chains', Work', Answered', Grades', Funds', Stored'
  PROVE  CampaignInv'
<1>1. CallInv' /\ KeepsFiles /\ Accumulates
  BY StepFacts
<1>2. /\ UNCHANGED <<history, pointer, served, stored, reviews, decisions, approvals, lease>>
  BY DEF durable, Stay
<1>3. DOMAIN run' = {"cmd", "at", "next", "arg"} /\ run'.at = at /\ run'.cmd = run.cmd /\ run'.arg = run.arg
      /\ run'.next = run.next
  BY DEF Move, CampaignInv, Types
<1>4. Types'
  BY <1>2, <1>3 DEF CampaignInv, Types
<1>5. Place(run', history')
  <2>1. Place(run, history)
    BY DEF CampaignInv
  <2> QED BY <1>2, <1>3, <2>1 DEF Place, Bound
<1>6. Decided'
  BY <1>2, <1>3 DEF CampaignInv, Decided, Bound
<1>7. Served'
  BY <1>2, <1>3, ServedStays DEF Bound
<1>8. Grown'
  BY <1>2, <1>3 DEF Grown, Now, Candidates, Bound
<1>9. Snapshots'
  BY <1>1, <1>2, SnapshotsUnchanged
<1>10. Place(run, history)'
  BY <1>5
<1> QED BY <1>1, <1>4, <1>6, <1>7, <1>8, <1>9, <1>10 DEF CampaignInv

(* The cases of a chain that starts.                                       *)
Begins(kind, cases) ==
  /\ Head(cases) \in CasesOf(kind) /\ Tail(cases) \in Seq(CasesOf(kind))
  /\ kind # "task" => CasesOf(kind) \subseteq {Head(cases)} \cup ToSet(Tail(cases))

LEMMA BeginsFit ==
  ASSUME NEW kind \in Calling, NEW g \in Generation, NEW cases, Begins(kind, cases),
         NEW index \in Nat, kind \in Alone => index = 0, kind \notin Alone => index < CandidateLimit
  PROVE  /\ ChainFits(ChainFor(kind, index, g, cases), CallFor(kind, index, g, cases))
         /\ Progresses(ChainFor(kind, index, g, cases), CallFor(kind, index, g, cases))
         /\ ChainFor(kind, index, g, cases).kind = kind /\ ChainFor(kind, index, g, cases).index = index
         /\ ChainFor(kind, index, g, cases).gen = g
         /\ DOMAIN ChainFor(kind, index, g, cases) = {"kind", "index", "gen", "todo"}
<1>1. PICK x, k, head, tail : /\ x = ChainFor(kind, index, g, cases) /\ k = CallFor(kind, index, g, cases)
                              /\ head = Head(cases) /\ tail = Tail(cases)
  OBVIOUS
<1>2. /\ DOMAIN x = {"kind", "index", "gen", "todo"} /\ x.kind = kind /\ x.index = index /\ x.gen = g
      /\ x.todo = tail
      /\ k.at = "admit" /\ k.op = <<OpKind(kind), index, head>> /\ k.gen = g
  BY <1>1 DEF ChainFor, CallFor
<1>3. /\ head \in CasesOf(kind) /\ tail \in Seq(CasesOf(kind))
      /\ kind # "task" => CasesOf(kind) \subseteq {head} \cup ToSet(tail)
  BY <1>1 DEF Begins
<1>4. ChainFits(x, k)
  BY <1>2, <1>3 DEF ChainFits, Calling, Expanding, Alone
<1>5. Progresses(x, k)
  BY <1>2, <1>3 DEF Progresses, OpKind
<1> QED BY <1>1, <1>2, <1>4, <1>5

(* Without chains nothing is owed. *)
LEMMA NothingOwed ==
  ASSUME CampaignInv, \A c \in Caller : chain[c].kind \notin Expanding
  PROVE  Owed = {} /\ Cardinality(Reserved) <= Requests
<1>1. Owed = {}
  BY DEF Owed
<1> QED BY <1>1 DEF CampaignInv, Funds

LEMMA AloneKeeps ==
  ASSUME CampaignInv, [Next]_vars, \A c \in Caller : chain[c].kind = "none",
         NEW kind \in Alone, NEW g \in Generation, NEW cases, Begins(kind, cases),
         StartAlone(kind, g, cases), NEW at, Move(at), run.cmd # "none", UNCHANGED durable, Stay,
         kind = "baseline" => at = "grade" /\ g = Base /\ Phase(history) = "prepared",
         kind = "probe" => at = "verify" /\ Phase(history) = "probe" /\ pointer = Current,
         kind = "task" => /\ at = "work" /\ Phase(history) \in {"complete", "rolled_back"}
                          /\ pointer = Current /\ Proven(g)
  PROVE  CampaignInv'
<1>1. PICK x, k : x = ChainFor(kind, 0, g, cases) /\ k = CallFor(kind, 0, g, cases)
  OBVIOUS
<1>2. /\ ChainFits(x, k) /\ Progresses(x, k) /\ x.kind = kind /\ x.index = 0 /\ x.gen = g
      /\ DOMAIN x = {"kind", "index", "gen", "todo"}
  BY <1>1, BeginsFit DEF Alone, Calling
<1>3. /\ chain' = [c \in Caller |-> IF c = 1 THEN x ELSE NoChain]
      /\ call' = [c \in Caller |-> IF c = 1 THEN k ELSE Idle]
      /\ UNCHANGED <<intent, receipt>> /\ 1 \in Caller
  BY <1>1, PlanAssumption DEF StartAlone
<1>4. /\ at \in Bound /\ run'.at = at
  BY DEF Move, CampaignInv, Types, Alone, Bound
<1>5. Chains'
  <2>1. \A c \in Caller : /\ DOMAIN chain'[c] = {"kind", "index", "gen", "todo"}
                          /\ ChainFits(chain'[c], call'[c])
    <3>1. ChainFits(NoChain, Idle) /\ DOMAIN NoChain = {"kind", "index", "gen", "todo"}
      BY DEF ChainFits, NoChain, Calling, Expanding, Alone
    <3> QED BY <1>2, <1>3, <3>1
  <2>2. \A c, d \in Caller : c # d => chain'[c].kind = "none" \/ chain'[d].kind = "none"
    BY <1>3 DEF NoChain
  <2>3. DOMAIN chain' = Caller
    BY <1>3
  <2> QED BY <2>1, <2>2, <2>3 DEF Chains, ChainFits
<1>6. Work'
  <2>1. Single({kind})'
    BY <1>2, <1>3 DEF Single, NoChain
  <2>2. chain'[1].gen = g
    BY <1>2, <1>3
  <2> QED BY <1>4, <2>1, <2>2 DEF Work, Single, Alone, Phase
<1>7. Answered'
  <2>1. \A c \in Caller : call'[c].at \notin {"answer", "done"}
    BY <1>1, <1>3 DEF CallFor, Idle
  <2> QED BY <1>3, <2>1 DEF CampaignInv, Answered
<1>8. \A p : Proven(p)' <=> Proven(p)
  BY <1>3 DEF Proven
<1>9. Grades'
  <2>1. ASSUME NEW c \in Caller
        PROVE  Progresses(chain[c], call[c])'
    <3>1. CASE c = 1
      <4>1. chain'[c] = x /\ call'[c] = k
        BY <1>3, <3>1
      <4> QED BY <1>2, <1>3, <4>1 DEF Progresses, GradedAs
    <3>2. CASE c # 1
      BY <1>3, <3>2 DEF Progresses, NoChain
    <3> QED BY <3>1, <3>2
  <2>2. \A c \in Caller : chain'[c].kind # "ended" /\ (chain'[c].kind = "task" => Proven(chain'[c].gen))
    BY <1>2, <1>3 DEF NoChain, Alone
  <2>3. run'.at = "work" => Proven(chain'[1].gen)
    BY <1>2, <1>3, <1>4 DEF Alone
  <2>4. \A t \in TaskName : intent'[<<"task", 0, t>>] # None => Proven(intent'[<<"task", 0, t>>])
    BY <1>3 DEF CampaignInv, Grades
  <2>5. \A c \in Caller : chain'[c].kind = "task" => Proven(chain[c].gen)'
    BY <1>8, <2>2 DEF Proven
  <2>6. run'.at = "work" => Proven(chain[1].gen)'
    BY <1>8, <2>3 DEF Proven
  <2>7. \A t \in TaskName : intent'[<<"task", 0, t>>] # None => Proven(intent[<<"task", 0, t>>])'
    BY <1>8, <2>4 DEF Proven
  <2>8. \A c \in Caller : chain'[c].kind # "ended"
    BY <2>2
  <2>9. chain'[1].kind # "ended"
    BY <1>3, <2>8
  <2> QED BY <2>1, <2>5, <2>6, <2>7, <2>8, <2>9 DEF Grades
<1>10. Funds'
  <2>1. Cardinality(Reserved) <= Requests
    BY NothingOwed DEF Expanding
  <2>2. Owed' = {} /\ Reserved' = Reserved
    BY <1>2, <1>3 DEF Owed, Reserved, Expanding, NoChain, Alone
  <2>3. \A c \in Caller : call'[c].at # "reserve"
    BY <1>1, <1>3 DEF CallFor, Idle
  <2> QED BY <2>1, <2>2, <2>3 DEF Funds
<1>11. Stored'
  BY <1>2, <1>3, <1>4 DEF Stored, NoChain, Alone, Bound
<1>12. /\ at = "grade" => Phase(history) = "prepared"
       /\ at # "expand"
       /\ at = "verify" => Phase(history) = "probe" /\ pointer = Current
       /\ at = "work" => Phase(history) \in {"complete", "rolled_back"} /\ pointer = Current
  BY DEF Alone
<1> QED BY <1>3, <1>4, <1>5, <1>6, <1>7, <1>9, <1>10, <1>11, <1>12, BindKeeps

LEMMA BeginsOfPlan == /\ Begins("baseline", EvaluatedCases) /\ Begins("candidate", EvaluatedCases)
                      /\ Begins("probe", CanaryCases)
                      /\ \A t \in TaskName : Begins("task", <<t>>)
                      /\ Begins("expand", <<NoCase>>)
<1>1. /\ CasesOf("baseline") = Cases /\ CasesOf("candidate") = Cases /\ CasesOf("probe") = Canaries
      /\ CasesOf("task") = TaskName /\ CasesOf("expand") = {NoCase}
  BY DEF CasesOf
<1>2. Begins("baseline", EvaluatedCases) /\ Begins("candidate", EvaluatedCases) /\ Begins("probe", CanaryCases)
  BY <1>1, PlanCases DEF Begins
<1>3. ASSUME NEW S, NEW t \in S
      PROVE  Head(<<t>>) = t /\ Tail(<<t>>) \in Seq(S)
  OBVIOUS
<1>4. \A t \in TaskName : Begins("task", <<t>>)
  BY <1>1, <1>3 DEF Begins
<1>5. Begins("expand", <<NoCase>>)
  BY <1>1, <1>3 DEF Begins
<1> QED BY <1>2, <1>4, <1>5

LEMMA BaselineKeeps == ASSUME CampaignInv, [Next]_vars, RunBaseline PROVE CampaignInv'
<1>1. run.at = "baseline" /\ run.cmd # "none" /\ Stay /\ UNCHANGED durable
  BY DEF RunBaseline, Busy
<1>2. history # <<>> /\ Phase(history) \in Searching
  <2>1. Phase(history) \in Searching
    BY <1>1 DEF CampaignInv, Place
  <2> QED BY <2>1 DEF Phase, Searching
<1>3. Searched(Now) /\ Phase(history) = Now.phase /\ Now \in LiveState
  BY <1>2, NowFits DEF Shape
<1>4. CASE Now.evaluated = <<>>
  <2>1. StartAlone("baseline", Base, EvaluatedCases) /\ Move("grade")
    BY <1>4 DEF RunBaseline
  <2>2. Phase(history) = "prepared"
    BY <1>2, <1>3, <1>4 DEF Searched, Searching
  <2>3. \A c \in Caller : chain[c].kind = "none"
    BY <1>1, <2>2, NoChains
  <2> QED BY <1>1, <2>1, <2>2, <2>3, BeginsOfPlan, PlanAssumption, AloneKeeps DEF Alone
<1>5. CASE Now.evaluated # <<>>
  <2>1. Quiet /\ Move("round")
    BY <1>5 DEF RunBaseline
  <2>2. Phase(history) \in {"baseline", "search"}
    BY <1>2, <1>3, <1>5 DEF Searched, Searching
  <2>3. May("round")
    BY <2>2 DEF May
  <2> QED BY <1>1, <2>1, <2>3, MoveOnly DEF Bound
<1> QED BY <1>4, <1>5

LEMMA CanaryKeeps == ASSUME CampaignInv, [Next]_vars, PromoteCanary PROVE CampaignInv'
<1>1. /\ run.at = "canary" /\ run.cmd # "none" /\ Stay /\ UNCHANGED durable /\ Move("verify")
      /\ StartAlone("probe", pointer.gen, CanaryCases)
  BY DEF PromoteCanary, Busy
<1>2. Phase(history) = "probe" /\ pointer = Current /\ history # <<>>
  BY <1>1 DEF CampaignInv, Place, Served, Phase
<1>3. pointer.gen \in Generation
  BY <1>2, CurrentFits
<1>4. \A c \in Caller : chain[c].kind = "none"
  BY <1>1, <1>2, NoChains
<1> QED BY <1>1, <1>2, <1>3, <1>4, BeginsOfPlan, AloneKeeps DEF Alone

LEMMA TaskLoadKeeps == ASSUME CampaignInv, [Next]_vars, TaskLoad PROVE CampaignInv'
<1>1. run.at = "load" /\ run.cmd = "task" /\ Stay /\ UNCHANGED durable /\ run.arg \in TaskName
  BY DEF TaskLoad, Busy, CampaignInv, Place
<1>2. CASE Serving
  <2>1. /\ history # <<>> /\ Now.phase \in {"complete", "rolled_back"} /\ pointer = Current
        /\ StartAlone("task", pointer.gen, <<run.arg>>) /\ Move("work")
    BY <1>2 DEF TaskLoad, Serving, Loads, PointerAgrees
  <2>2. Phase(history) = Now.phase /\ Holds(Now, Len(history))
    BY <2>1, NowFits, NowHolds
  <2>3. pointer.gen = Now.active /\ pointer.gen \in Generation
    BY <2>1, CurrentFits
  <2>4. Proven(Now.active)
    BY <2>1, <2>2 DEF Holds, Shape, Retains
  <2>5. Proven(pointer.gen)
    BY <2>3, <2>4
  <2>6. \A c \in Caller : chain[c].kind = "none"
    BY <1>1, <2>1, <2>2, NoChains
  <2> QED BY <1>1, <2>1, <2>2, <2>3, <2>5, <2>6, BeginsOfPlan, AloneKeeps DEF Alone
<1>3. CASE ~Serving
  <2>1. Quiet /\ Move("release")
    BY <1>3 DEF TaskLoad
  <2> QED BY <1>1, <2>1, MoveOnly DEF May, Bound
<1> QED BY <1>2, <1>3

(* The operations a batch owes are as many as it was charged for.          *)
OwedBy(first, n) == {o \in Operation : /\ o[1] \in {"proposal", "candidate"}
                                       /\ \E c \in 1..n : o[2] = first + c - 1}

LEMMA BatchOwes ==
  ASSUME NEW first \in Nat, NEW n \in Nat
  PROVE  /\ IsFiniteSet(OwedBy(first, n))
         /\ Cardinality(OwedBy(first, n)) <= n * (1 + Len(EvaluatedCases))
<1> DEFINE l == Len(EvaluatedCases)
           Slots == (1..n) \X (0..l)
           Op(s) == IF s[2] = 0 THEN Proposal(first + s[1] - 1)
                    ELSE <<"candidate", first + s[1] - 1, EvaluatedCases[s[2]]>>
           f == [s \in Slots |-> Op(s)]
<1>1. l \in Nat /\ EvaluatedCases \in Seq(Cases) /\ Cases = ToSet(EvaluatedCases)
  BY PlanCases DEF Cases
<1>2. IsFiniteSet(Slots) /\ Cardinality(Slots) = n * (1 + l)
  <2>1. IsFiniteSet(1..n) /\ Cardinality(1..n) = n
    BY FS_Interval
  <2>2. IsFiniteSet(0..l) /\ Cardinality(0..l) = 1 + l
    BY <1>1, FS_Interval
  <2>3. PICK A, B : A = 1..n /\ B = 0..l
    OBVIOUS
  <2>4. IsFiniteSet(A \X B) /\ Cardinality(A \X B) = Cardinality(A) * Cardinality(B)
    BY <2>1, <2>2, <2>3, FS_Product
  <2>5. Cardinality(A) = n /\ Cardinality(B) = 1 + l
    BY <2>1, <2>2, <2>3
  <2>6. Cardinality(A) * Cardinality(B) = n * (1 + l)
    BY <2>5, Zenon
  <2>7. Slots = A \X B
    BY <2>3
  <2> QED BY <2>4, <2>6, <2>7, Zenon
<1>3. OwedBy(first, n) \subseteq Range(f)
  <2>1. ASSUME NEW o \in OwedBy(first, n)
        PROVE  \E s \in Slots : o = f[s]
    <3>1. PICK c \in 1..n : o[2] = first + c - 1 /\ o[1] \in {"proposal", "candidate"} /\ o \in Operation
      BY DEF OwedBy
    <3>2. CASE o[1] = "proposal"
      <4>1. PICK i \in 0..(CandidateLimit - 1) : o = <<"proposal", i, NoCase>>
        BY <3>1, <3>2, PlanAssumption DEF LiveOperation
      <4>2. o = Proposal(first + c - 1)
        BY <3>1, <4>1 DEF Proposal
      <4>3. <<c, 0>> \in Slots /\ Op(<<c, 0>>) = Proposal(first + c - 1)
        BY <1>1
      <4> QED BY <4>2, <4>3
    <3>3. CASE o[1] = "candidate"
      <4>1. PICK i \in 0..(CandidateLimit - 1), k \in Cases : o = <<"candidate", i, k>>
        BY <3>1, <3>3, PlanAssumption DEF LiveOperation, Cases
      <4>2. PICK j \in 1..l : k = EvaluatedCases[j]
        BY <1>1 DEF ToSet
      <4>3. o = <<"candidate", first + c - 1, EvaluatedCases[j]>>
        BY <3>1, <4>1, <4>2
      <4>4. <<c, j>> \in Slots /\ Op(<<c, j>>) = <<"candidate", first + c - 1, EvaluatedCases[j]>>
        BY <1>1
      <4> QED BY <4>3, <4>4
    <3> QED BY <3>1, <3>2, <3>3
  <2> QED BY <2>1 DEF Range
<1>4. f \in Surjection(Slots, Range(f))
  BY DEF Surjection, Range
<1>5. IsFiniteSet(Range(f)) /\ Cardinality(Range(f)) <= Cardinality(Slots)
  BY <1>2, <1>4, FS_Surjection
<1>6. IsFiniteSet(OwedBy(first, n)) /\ Cardinality(OwedBy(first, n)) <= Cardinality(Range(f))
  BY <1>3, <1>5, FS_Subset
<1>7. Cardinality(OwedBy(first, n)) \in Nat /\ Cardinality(Range(f)) \in Nat /\ Cardinality(Slots) \in Nat
  BY <1>2, <1>5, <1>6, FS_CardinalityType
<1>8. Cardinality(OwedBy(first, n)) <= Cardinality(Slots)
  BY <1>5, <1>6, <1>7
<1> QED BY <1>2, <1>6, <1>8

(* A batch that is funded takes its chains up. *)
LEMMA BatchKeeps ==
  ASSUME CampaignInv, [Next]_vars, run.at = "round", run.cmd # "none", history # <<>>,
         Phase(history) \in {"baseline", "search"},
         Candidates(Now) < CandidateLimit, Now.rounds < MaxRounds, Funded(Batch), StartBatch(Batch),
         Move("expand"), UNCHANGED durable, Stay
  PROVE  CampaignInv'
<1>1. /\ Now \in LiveState /\ Searched(Now) /\ Now.evaluated # <<>> /\ Phase(history) = Now.phase
  BY NowFits DEF Shape, Searched
<1>2. PICK n, first : n = Len(Batch) /\ first = Candidates(Now)
  OBVIOUS
<1>3. /\ Batch \in Seq(DOMAIN Now.evaluated) /\ DOMAIN Batch = 1..n /\ n \in Nat
      /\ n <= CandidateLimit - first /\ DOMAIN Batch \subseteq Caller
  BY <1>1, <1>2, BatchFits
<1>4. first \in Nat /\ CandidateLimit \in Nat
  <2>1. first = Len(Now.evaluated) - 1 /\ Len(Now.evaluated) \in Nat \ {0}
    BY <1>1, <1>2 DEF Candidates, LiveState
  <2> QED BY <2>1, PlanAssumption
<1>5. UNCHANGED <<intent, receipt, call, history, stored>>
  BY DEF StartBatch, opVars, durable
<1>6. KeepsFiles
  BY StepFacts
<1>7. Batch' = Batch /\ Now' = Now /\ Candidates(Now)' = first /\ Phase(history)' = Phase(history)
  BY <1>2, <1>5, <1>6, BatchStays DEF Now, Candidates, Phase
<1>8. \A c \in Caller : call[c] = Idle
  <2>1. \A c \in Caller : chain[c].kind = "none"
    BY NoChains
  <2> QED BY <2>1 DEF CampaignInv, Chains, ChainFits, Calling
<1>9. /\ DOMAIN chain' = Caller
      /\ \A c \in Caller : c \notin 1..n => chain'[c] = NoChain
      /\ \A c \in 1..n : /\ c \in Caller /\ DOMAIN chain'[c] = {"kind", "index", "gen", "todo"}
                         /\ chain'[c].kind = "open" /\ chain'[c].index = first + c - 1
                         /\ chain'[c].gen = Now.evaluated[Batch[c]]
  <2>1. chain' = [c \in Caller |-> IF c \in 1..n
                                   THEN [NoChain EXCEPT !.kind = "open", !.gen = Now.evaluated[Batch[c]],
                                                        !.index = first + c - 1]
                                   ELSE NoChain]
    BY <1>2, <1>3 DEF StartBatch
  <2> QED BY <1>3, <2>1 DEF NoChain
<1>10. \A c \in 1..n : /\ Now.evaluated[Batch[c]] \in Generation
                       /\ first + c - 1 \in Nat /\ first + c - 1 < CandidateLimit
  <2>1. ASSUME NEW c \in 1..n
        PROVE  Now.evaluated[Batch[c]] \in Generation
    <3>1. Batch[c] \in DOMAIN Now.evaluated
      BY <1>3
    <3> QED BY <1>1, <3>1 DEF LiveState
  <2> QED BY <1>3, <1>4, <2>1
<1>11. Chains'
  <2>1. ASSUME NEW c \in Caller
        PROVE  DOMAIN chain'[c] = {"kind", "index", "gen", "todo"} /\ ChainFits(chain'[c], call'[c])
    <3>1. CASE c \in 1..n
      <4>1. PICK x : x = chain'[c]
        OBVIOUS
      <4>2. /\ DOMAIN x = {"kind", "index", "gen", "todo"} /\ x.kind = "open" /\ x.index \in Nat
            /\ x.index < CandidateLimit /\ x.gen \in Generation /\ call'[c] = Idle
        BY <1>5, <1>8, <1>9, <1>10, <3>1, <4>1
      <4> QED BY <4>1, <4>2 DEF ChainFits, Calling, Expanding, Alone
    <3>2. CASE c \notin 1..n
      <4>1. chain'[c] = NoChain /\ call'[c] = Idle
        BY <1>5, <1>8, <1>9, <3>2
      <4> QED BY <4>1 DEF NoChain, ChainFits, Calling, Expanding, Alone
    <3> QED BY <3>1, <3>2
  <2>2. ASSUME NEW c \in Caller, NEW d \in Caller, c # d, chain'[c].kind # "none", chain'[d].kind # "none"
        PROVE  chain'[c].index # chain'[d].index /\ chain'[c].kind \notin Alone
    <3>1. c \in 1..n /\ d \in 1..n
      BY <1>9, <2>2 DEF NoChain
    <3> QED BY <1>4, <1>9, <2>2, <3>1 DEF Alone
  <2>3. \A c \in Caller : ChainFits(chain[c], call[c])'
    BY <2>1 DEF ChainFits
  <2> QED BY <1>9, <2>1, <2>2, <2>3 DEF Chains
<1>12. run'.at = "expand"
  BY DEF Move, CampaignInv, Types
<1>13. Work'
  <2>1. ASSUME NEW c \in Caller
        PROVE  Batched(c)'
    <3>1. c \in 1..n <=> c \in DOMAIN Batch'
      BY <1>3, <1>7
    <3>2. CASE c \in 1..n
      <4>1. /\ chain'[c].kind = "open" /\ chain'[c].index = Candidates(Now)' + c - 1
            /\ chain'[c].gen = Now'.evaluated[Batch'[c]]
        BY <1>7, <1>9, <3>2
      <4> QED BY <3>1, <3>2, <4>1 DEF Batched, Expanding
    <3>3. CASE c \notin 1..n
      <4>1. chain'[c].kind = "none"
        BY <1>9, <3>3 DEF NoChain
      <4> QED BY <3>1, <3>3, <4>1 DEF Batched
    <3> QED BY <3>2, <3>3
  <2> QED BY <1>12, <2>1 DEF Work
<1>14. Answered'
  BY <1>5 DEF CampaignInv, Answered
<1>15. \A c \in Caller : chain'[c].kind \in {"open", "none"}
  BY <1>9 DEF NoChain
<1>16. Grades'
  <2>1. \A t \in TaskName : (intent[<<"task", 0, t>>] # None => Proven(intent[<<"task", 0, t>>]))'
    BY <1>5 DEF CampaignInv, Grades, Proven
  <2>2. \A c \in Caller : Progresses(chain[c], call[c])'
    BY <1>15 DEF Progresses
  <2> QED BY <1>12, <1>15, <2>1, <2>2 DEF Grades
<1>17. Funds'
  <2>1. Reserved' = Reserved
    BY <1>5 DEF Reserved
  <2>2. Owed' = OwedBy(first, n)
    <3>1. \A c \in Caller : chain'[c].kind \in Expanding => c \in 1..n
      BY <1>9 DEF NoChain, Expanding
    <3>2. \A c \in 1..n : c \in Caller /\ chain'[c].kind \in Expanding /\ chain'[c].index = first + c - 1
      BY <1>9 DEF Expanding
    <3>3. ASSUME NEW i
          PROVE  (\E c \in Caller : chain'[c].kind \in Expanding /\ i = chain'[c].index)
                   <=> \E c \in 1..n : i = first + c - 1
      BY <3>1, <3>2
    <3> QED BY <3>3 DEF Owed, OwedBy
  <2>3. IsFiniteSet(OwedBy(first, n)) /\ Cardinality(OwedBy(first, n)) <= n * (1 + Len(EvaluatedCases))
    BY <1>3, <1>4, BatchOwes
  <2>4. PICK cost : cost = n * (1 + Len(EvaluatedCases))
    OBVIOUS
  <2>5. cost \in Nat
    BY <1>3, <2>4, PlanCases
  <2>6. Cardinality(Reserved) + cost <= Requests
    BY <1>2, <2>4 DEF Funded, BatchCost
  <2>7. PICK A, B : A = Reserved /\ B = OwedBy(first, n)
    OBVIOUS
  <2>8. IsFiniteSet(A) /\ Cardinality(A) \in Nat /\ IsFiniteSet(B) /\ Cardinality(B) \in Nat
    BY <2>3, <2>7, ReservedFinite, FS_CardinalityType
  <2>9. Cardinality(A \cup B) <= Cardinality(A) + Cardinality(B)
    <3>1. Cardinality(A \cup B) = Cardinality(A) + Cardinality(B) - Cardinality(A \cap B)
      BY <2>8, FS_Union
    <3>2. Cardinality(A \cap B) \in Nat
      BY <2>8, FS_Subset, FS_CardinalityType
    <3> QED BY <2>8, <3>1, <3>2
  <2>10. Cardinality(A \cup B) \in Nat
    BY <2>8, FS_Union, FS_CardinalityType
  <2>11. Cardinality(B) <= cost
    BY <2>3, <2>4, <2>7
  <2>12. Cardinality(A \cup B) <= Requests
    BY <2>5, <2>6, <2>7, <2>8, <2>9, <2>10, <2>11, RequestsAssumption
  <2>13. Cardinality(Reserved' \cup Owed') <= Requests
    BY <2>1, <2>2, <2>7, <2>12
  <2> QED BY <1>15, <2>13 DEF Funds, Alone
<1>18. Stored'
  BY <1>12, <1>15 DEF Stored
<1>19. "expand" \in Bound /\ Phase(history) # "prepared"
  BY DEF Bound
<1> QED BY <1>5, <1>11, <1>13, <1>14, <1>16, <1>17, <1>18, <1>19, BindKeeps

LEMMA RoundKeeps == ASSUME CampaignInv, [Next]_vars, RunRound PROVE CampaignInv'
<1>1. run.at = "round" /\ run.cmd # "none" /\ Stay
  BY DEF RunRound, Busy
<1>2. history # <<>> /\ Phase(history) \in {"baseline", "search"} /\ Phase(history) = Now.phase
  <2>1. Phase(history) \in {"baseline", "search"}
    BY <1>1 DEF CampaignInv, Place
  <2> QED BY <2>1, NowFits DEF Phase
<1>3. CASE ~Funded(Batch) /\ Stop("LIVE_BUDGET_EXHAUSTED") /\ Quiet
  <2>1. Now.phase \in Searching \cup {"probe"} /\ "LIVE_BUDGET_EXHAUSTED" \in ErrorCode
    BY <1>2 DEF Searching, ErrorCode
  <2>2. UNCHANGED <<opVars, chain>>
    BY <1>3 DEF Quiet
  <2> QED BY <1>1, <1>2, <1>3, <2>1, <2>2, StopKeeps
<1>4. CASE /\ Candidates(Now) < CandidateLimit /\ Now.rounds < MaxRounds
           /\ Funded(Batch) /\ StartBatch(Batch) /\ Move("expand") /\ UNCHANGED durable
  BY <1>1, <1>2, <1>4, BatchKeeps
<1>5. CASE /\ Candidates(Now) = CandidateLimit \/ Now.rounds = MaxRounds
           /\ Move("select") /\ UNCHANGED durable /\ Quiet
  <2>1. May("select")
    BY <1>2, <1>5 DEF May
  <2> QED BY <1>1, <1>5, <2>1, MoveOnly DEF Bound
<1> QED BY <1>3, <1>4, <1>5 DEF RunRound

(* A step that leaves the command, its chains and the files as they are.   *)
LEMMA StillKeeps ==
  ASSUME CampaignInv, [Next]_vars, UNCHANGED <<durable, run, chain, intent, receipt, call>>,
         approvals' \in [ApprovalId -> [outcome : Outcome \cup {None}, valid : BOOLEAN]],
         lease' \in {"free", "held"}, lease' = "free" => run.cmd = "none",
         \A d \in decisions : approvals'[d.approval].outcome = d.outcome
  PROVE  CampaignInv'
<1>1. CallInv' /\ KeepsFiles /\ Accumulates
  BY StepFacts
<1>2. UNCHANGED <<history, pointer, stored, reviews, decisions, served, run, chain, intent, receipt, call>>
  BY DEF durable
<1>3. Types'
  BY <1>2 DEF CampaignInv, Types
<1>4. Snapshots'
  BY <1>1, <1>2, SnapshotsUnchanged
<1>5. Place(run, history)'
  <2>1. Place(run', history')
    BY <1>2 DEF CampaignInv
  <2> QED BY <2>1
<1>6. Retired
  BY <1>2 DEF Retired, CampaignInv, Chains
<1>7. Chains' /\ Walks' /\ Answered' /\ Funds'
  BY <1>2, <1>6, ChainsRetire
<1>8. Work'
  <2>1. Work
    BY DEF CampaignInv
  <2>2. run.at = "expand" => \A c \in Caller : Batched(c)'
    <3>1. CASE run.at = "expand"
      <4>1. history # <<>>
        BY <3>1 DEF CampaignInv, Place, Phase
      <4>2. Batch' = Batch
        BY <1>1, <1>2, <4>1, BatchStays
      <4> QED BY <1>2, <2>1, <3>1, <4>2 DEF Work, Batched, Now, Candidates
    <3> QED BY <3>1
  <2>3. \A kinds : Single(kinds)' <=> Single(kinds)
    BY <1>2 DEF Single
  <2>4. Phase(history)' = Phase(history)
    BY <1>2 DEF Phase
  <2>5. (run.at = "grade" => Single({"baseline", "ended", "failed"})') /\ (run.at = "grade" => chain'[1].gen = Base)
    BY <1>2, <2>1, <2>3 DEF Work, Single
  <2>6. run.at = "verify" => Single({"probe", "ended", "missed", "failed"})'
    BY <1>2, <2>1, <2>3 DEF Work, Single
  <2>7. run.at = "work" => Single({"task", "ended", "failed"})'
    BY <1>2, <2>1, <2>3 DEF Work, Single
  <2> QED BY <1>2, <2>1, <2>2, <2>4, <2>5, <2>6, <2>7 DEF Work
<1>9. Grades'
  BY <1>2, <1>7 DEF CampaignInv, Grades, Walks, GradedAs, Proven
<1>10. Decided'
  <2>1. /\ Now' = Now /\ Selected(Now)' = Selected(Now)
        /\ Request(Now, Len(history), Selected(Now))' = Request(Now, Len(history), Selected(Now))
        /\ \A outcome : Decision(outcome)' = Decision(outcome)
    BY <1>2, SameState
  <2> QED BY <1>2, <2>1 DEF CampaignInv, Decided
<1>11. Served'
  BY <1>2, ServedStays DEF CampaignInv, Served
<1>12. Grown'
  BY <1>2 DEF CampaignInv, Grown, Now, Candidates
<1>13. Stored'
  BY <1>2 DEF CampaignInv, Stored
<1> QED BY <1>1, <1>3, <1>4, <1>5, <1>7, <1>8, <1>9, <1>10, <1>11, <1>12, <1>13 DEF CampaignInv

LEMMA OutsideKeeps ==
  ASSUME CampaignInv, [Next]_vars, Review \/ Authority \/ Recover \/ UNCHANGED vars
  PROVE  CampaignInv'
<1>1. /\ approvals \in [ApprovalId -> [outcome : Outcome \cup {None}, valid : BOOLEAN]]
      /\ lease \in {"free", "held"} /\ (lease = "free" => run.cmd = "none")
      /\ \A d \in decisions : approvals[d.approval].outcome = d.outcome
      /\ decisions \subseteq ReviewDecision
  BY DEF CampaignInv, Types, Decided
<1>2. CASE Review
  <2>1. UNCHANGED <<durable, run, chain, intent, receipt, call, lease>>
    BY <1>2 DEF Review, Quiet, opVars
  <2>2. /\ approvals' \in [ApprovalId -> [outcome : Outcome \cup {None}, valid : BOOLEAN]]
        /\ \A a \in ApprovalId : approvals[a].outcome # None => approvals'[a].outcome = approvals[a].outcome
    <3>1. CASE \E a \in ApprovalId, outcome \in {"approved", "rejected"} :
                 /\ approvals[a].outcome = None
                 /\ approvals' = [approvals EXCEPT ![a] = [outcome |-> outcome, valid |-> TRUE]]
      BY <1>1, <3>1 DEF Outcome
    <3>2. CASE \E a \in ApprovalId : /\ approvals[a].valid
                                     /\ approvals' = [approvals EXCEPT ![a].valid = FALSE]
      <4>1. PICK a \in ApprovalId : approvals' = [approvals EXCEPT ![a].valid = FALSE]
        BY <3>2
      <4>2. PICK old, new : old = approvals[a] /\ new = [old EXCEPT !.valid = FALSE]
        OBVIOUS
      <4>3. old \in [outcome : Outcome \cup {None}, valid : BOOLEAN]
        BY <1>1, <4>2
      <4>4. new \in [outcome : Outcome \cup {None}, valid : BOOLEAN] /\ new.outcome = old.outcome
        BY <4>2, <4>3
      <4>5. approvals' = [approvals EXCEPT ![a] = new]
        BY <1>1, <4>1, <4>2
      <4> QED BY <1>1, <4>2, <4>4, <4>5
    <3> QED BY <1>2, <3>1, <3>2 DEF Review
  <2>3. ASSUME NEW d \in decisions
        PROVE  approvals'[d.approval].outcome = d.outcome
    <3>1. d.outcome \in Outcome /\ d.approval \in ApprovalId
      BY <1>1 DEF ReviewDecision
    <3>2. approvals[d.approval].outcome # None
      BY <1>1, <3>1, NoneIsNothing
    <3> QED BY <1>1, <2>2, <3>1, <3>2
  <2> QED BY <1>1, <2>1, <2>2, <2>3, StillKeeps
<1>3. CASE Authority
  <2>1. UNCHANGED <<durable, run, chain, intent, receipt, call, lease, approvals>>
    BY <1>3 DEF Authority, Elsewhere, Revoke, Regrant
  <2> QED BY <1>1, <2>1, StillKeeps
<1>4. CASE Recover
  <2>1. UNCHANGED <<durable, run, chain, intent, receipt, call, approvals>> /\ lease' = "free" /\ run.cmd = "none"
    BY <1>4 DEF Recover, Quiet, opVars
  <2> QED BY <1>1, <2>1, StillKeeps
<1>5. CASE UNCHANGED vars
  <2>1. UNCHANGED <<durable, run, chain, intent, receipt, call, lease, approvals>>
    BY <1>5 DEF vars, opVars
  <2> QED BY <1>1, <2>1, StillKeeps
<1> QED BY <1>2, <1>3, <1>4, <1>5

(* The supervisor dies.                                                    *)
LEMMA CrashKeeps == ASSUME CampaignInv, [Next]_vars, Crash PROVE CampaignInv'
<1>1. CallInv' /\ KeepsFiles /\ Accumulates
  BY StepFacts
<1>2. /\ UNCHANGED <<history, pointer, stored, reviews, decisions, served, approvals, lease, intent, receipt>>
      /\ run' = NoRun /\ chain' = [c \in Caller |-> NoChain] /\ call' = [c \in Caller |-> Idle]
  BY DEF Crash, Forget, OpCrash, durable
<1>3. Types' /\ Decided' /\ Grown' /\ Stored' /\ Place(run', history')
  BY <1>2 DEF NoRun, CampaignInv, Types, Decided, Grown, Stored, Place
<1>4. Snapshots'
  BY <1>1, <1>2, SnapshotsUnchanged
<1>5. Chains'
  BY <1>2 DEF Chains, ChainFits, NoChain, Calling, Expanding, Alone
<1>6. Work'
  BY <1>2 DEF NoRun, NoChain, Work
<1>7. Answered'
  BY <1>2 DEF CampaignInv, Answered, Idle
<1>8. Grades'
  <2>1. \A t \in TaskName : (intent[<<"task", 0, t>>] # None => Proven(intent[<<"task", 0, t>>]))'
    BY <1>2 DEF CampaignInv, Grades, Proven
  <2>2. \A c \in Caller : Progresses(chain[c], call[c])'
    BY <1>2 DEF NoChain, Progresses
  <2>3. \A c \in Caller : chain'[c].kind = "none"
    BY <1>2 DEF NoChain
  <2> QED BY <1>2, <2>1, <2>2, <2>3 DEF Grades, NoRun
<1>9. Funds'
  <2>1. Owed' = {} /\ Reserved' = Reserved
    BY <1>2 DEF NoChain, Owed, Reserved, Expanding
  <2>2. Cardinality(Reserved) <= Requests
    <3>1. Cardinality(Reserved \cup Owed) <= Requests
      BY DEF CampaignInv, Funds
    <3>2. IsFiniteSet(Reserved \cup Owed)
      BY OperationAssumption, FS_Subset DEF Reserved, Owed
    <3>3. Cardinality(Reserved) <= Cardinality(Reserved \cup Owed) /\ Cardinality(Reserved) \in Nat
          /\ Cardinality(Reserved \cup Owed) \in Nat
      BY <3>2, FS_Subset, FS_CardinalityType
    <3> QED BY <3>1, <3>3, RequestsAssumption
  <2>3. \A c \in Caller : call'[c].at # "reserve"
    BY <1>2 DEF Idle
  <2> QED BY <2>1, <2>2, <2>3 DEF Funds
<1>10. Served'
  BY <1>2, ServedStays DEF NoRun
<1>11. Place(run, history)'
  BY <1>3
<1> QED BY <1>1, <1>3, <1>4, <1>5, <1>6, <1>7, <1>8, <1>9, <1>10, <1>11 DEF CampaignInv

(* Every step of a supervisor.                                             *)
LEMMA SuperviseKeeps == ASSUME CampaignInv, [Next]_vars, Supervise PROVE CampaignInv'
<1>1. CASE \/ Point \/ Unlease \/ PrepareFiles \/ PrepareState \/ RunLoad \/ RunBaseline \/ RunGraded
           \/ RunRound \/ RunExpanded \/ RunSelect \/ RunStage
  BY <1>1, PointKeeps, UnleaseKeeps, PrepareKeeps, LoadKeeps, BaselineKeeps, GradedKeeps, RoundKeeps,
     ExpandedKeeps, SelectKeeps
<1>2. CASE \/ PromoteLoad \/ PromoteAuthorize \/ PromoteDecide \/ PromoteActivate
           \/ PromoteResume \/ PromoteCanary \/ PromoteVerify
           \/ RejectLoad \/ RejectRecord
  BY <1>2, PromoteLoadKeeps, PromoteDecideKeeps, ApplyKeeps, PromoteResumeKeeps, CanaryKeeps, VerifyKeeps
<1>3. CASE Rollback \/ TaskLoad \/ TaskDone
  BY <1>3, RollbackKeeps, TaskLoadKeeps, TaskDoneKeeps
<1> QED BY <1>1, <1>2, <1>3 DEF Supervise

-------------------------------------------------------------------------------
(* The invariant over the steps of the chains. *)

(* What a chain's step leaves alone. *)
LEMMA ChainRest ==
  ASSUME CampaignInv, [Next]_vars, stored' \subseteq Generation,
         UNCHANGED <<history, pointer, reviews, decisions, served, approvals, lease, run>>
  PROVE  /\ CallInv' /\ KeepsFiles /\ Accumulates /\ Types' /\ Snapshots' /\ Place(run, history)'
         /\ Served' /\ Decided' /\ Grown'
<1>1. CallInv' /\ KeepsFiles /\ Accumulates
  BY StepFacts
<1>2. Types'
  BY DEF CampaignInv, Types
<1>3. Snapshots'
  BY <1>1, SnapshotsUnchanged
<1>4. Place(run, history)'
  <2>1. Place(run', history')
    BY DEF CampaignInv
  <2> QED BY <2>1
<1>5. Served'
  BY ServedStays DEF CampaignInv, Served
<1>6. Now' = Now /\ \A outcome : Decision(outcome)' = Decision(outcome)
  BY DEF Now, Decision
<1>7. Decided'
  <2>1. CASE run.at = "stage"
    <3>1. history # <<>>
      BY <2>1 DEF CampaignInv, Place, Phase
    <3>2. PICK st : st = history[Len(history)]
      OBVIOUS
    <3>3. Winners(st)' = Winners(st) /\ Now = st /\ Now' = st
      BY <1>1, <1>6, <3>1, <3>2, NowFits, SnapshotsKeep DEF Now
    <3>4. Selected(Now)' = Selected(Now)
      <4>1. Winners(Now) = Winners(st)
        BY <3>3
      <4>2. Winners(Now)' = Winners(st)'
        BY <3>3 DEF Winners
      <4> QED BY <3>3, <4>1, <4>2 DEF Selected
    <3>5. Request(Now, Len(history), Selected(Now))' = Request(Now, Len(history), Selected(Now))
      BY <1>6, <3>4 DEF Request
    <3> QED BY <2>1, <3>4, <3>5 DEF CampaignInv, Decided
  <2>2. CASE run.at # "stage"
    BY <1>6, <2>2 DEF CampaignInv, Decided
  <2> QED BY <2>1, <2>2
<1>8. Grown'
  BY <1>6 DEF CampaignInv, Grown, Candidates
<1> QED BY <1>1, <1>2, <1>3, <1>4, <1>5, <1>7, <1>8

(* What a chain turns into. *)
Turns(old, new) ==
  \/ old = "open" /\ new = "expand"
  \/ old = "expand" /\ new \in {"candidate", "publish", "failed"}
  \/ old = "publish" /\ new \in {"candidate", "failed"}
  \/ old = "candidate" /\ new \in {"candidate", "ended", "failed"}
  \/ old = "baseline" /\ new \in {"baseline", "ended", "failed"}
  \/ old = "probe" /\ new \in {"probe", "ended", "missed", "failed"}
  \/ old = "task" /\ new \in {"task", "ended", "failed"}

(* Chain c, which was x, becomes y, and its caller k.                      *)
Becomes(x, y, k) ==
  /\ DOMAIN y = {"kind", "index", "gen", "todo"} /\ y.index = x.index
  /\ Turns(x.kind, y.kind) /\ ChainFits(y, k) /\ Progresses(y, k)
  /\ k.at \notin {"reserve", "answer", "done"}
  /\ x.kind # "expand" => y.gen = x.gen
  /\ x.kind = "expand" /\ y.kind # "failed" => intent[Proposal(x.index)] = x.gen
  /\ y.kind = "ended" /\ x.kind \in {"baseline", "candidate"} =>
       \A case \in Cases : GradedAs(<<x.kind, x.index, case>>, x.gen)
  /\ y.kind = "ended" /\ x.kind = "probe" => Proven(None)

LEMMA WalkKeeps ==
  ASSUME CampaignInv, [Next]_vars, UNCHANGED <<intent, receipt>>, stored' \subseteq Generation,
         UNCHANGED <<history, pointer, reviews, decisions, served, approvals, lease, run>>,
         NEW c \in Caller, NEW y, NEW k, Becomes(chain[c], y, k),
         chain' = [chain EXCEPT ![c] = y], call' = [call EXCEPT ![c] = k],
         y.kind = "candidate" /\ chain[c].kind # "candidate" => y.gen \in stored'
  PROVE  CampaignInv'
<1>0. /\ CallInv' /\ KeepsFiles /\ Accumulates /\ Types' /\ Snapshots' /\ Place(run, history)'
      /\ Served' /\ Decided' /\ Grown'
  BY ChainRest
<1>1. PICK x : x = chain[c]
  OBVIOUS
<1>2. /\ DOMAIN chain' = Caller /\ chain'[c] = y /\ call'[c] = k
      /\ \A d \in Caller : d # c => chain'[d] = chain[d] /\ call'[d] = call[d]
  BY DEF CampaignInv, Chains, CallInv, OpTypeOK
<1>3. /\ DOMAIN y = {"kind", "index", "gen", "todo"} /\ y.index = x.index
      /\ Turns(x.kind, y.kind) /\ ChainFits(y, k) /\ Progresses(y, k)
      /\ k.at \notin {"reserve", "answer", "done"}
      /\ x.kind # "expand" => y.gen = x.gen
      /\ x.kind = "expand" /\ y.kind # "failed" => intent[Proposal(x.index)] = x.gen
      /\ y.kind = "ended" /\ x.kind \in {"baseline", "candidate"} =>
           \A case \in Cases : GradedAs(<<x.kind, x.index, case>>, x.gen)
      /\ y.kind = "ended" /\ x.kind = "probe" => Proven(None)
  BY <1>1 DEF Becomes
<1>4. /\ x.kind # "none" /\ y.kind # "none" /\ x.kind \notin {"ended", "missed", "failed"}
      /\ y.kind \in Alone => x.kind = y.kind
      /\ y.kind \in Expanding => x.kind \in Expanding
  BY <1>3 DEF Turns, Alone, Expanding
<1>5. Chains'
  <2>1. \A d \in Caller : DOMAIN chain'[d] = {"kind", "index", "gen", "todo"} /\ ChainFits(chain'[d], call'[d])
    BY <1>2, <1>3 DEF CampaignInv, Chains
  <2>2. ASSUME NEW d \in Caller, NEW e \in Caller, d # e, chain'[d].kind # "none", chain'[e].kind # "none"
        PROVE  chain'[d].index # chain'[e].index /\ chain'[d].kind \notin Alone
    <3>1. /\ chain[d].kind # "none" /\ chain[e].kind # "none"
          /\ chain'[d].index = chain[d].index /\ chain'[e].index = chain[e].index
          /\ chain'[d].kind \in Alone => chain[d].kind \in Alone
      BY <1>1, <1>2, <1>3, <1>4, <2>2
    <3> QED BY <2>2, <3>1 DEF CampaignInv, Chains
  <2>3. \A d \in Caller : ChainFits(chain[d], call[d])'
    BY <2>1 DEF ChainFits
  <2> QED BY <1>2, <2>1, <2>2, <2>3 DEF Chains
<1>6. ASSUME NEW kinds, Single(kinds)
      PROVE  c = 1 /\ x.kind \in kinds /\ x.index = 0
             /\ \A others : y.kind \in others => Single(others)'
  <2>1. c = 1 /\ x.kind \in kinds /\ x.index = 0
    BY <1>1, <1>4, <1>6 DEF Single
  <2>2. ASSUME NEW others, y.kind \in others
        PROVE  Single(others)'
    BY <1>2, <1>3, <1>6, <2>1, <2>2 DEF Single
  <2> QED BY <2>1, <2>2
<1>7. Work'
  <2>0. Work /\ Phase(history)' = Phase(history)
    BY DEF CampaignInv, Phase
  <2>1. run.at \in {"grade", "expand", "verify", "work"} \/ Phase(history) = "failed"
    BY <1>1, <1>4, <2>0 DEF Work
  <2>2. CASE run.at = "grade"
    <3>1. Single({"baseline", "ended", "failed"}) /\ chain[1].gen = Base
      BY <2>0, <2>2 DEF Work
    <3>2. c = 1 /\ x.kind = "baseline"
      BY <1>4, <1>6, <3>1
    <3>3. y.kind \in {"baseline", "ended", "failed"} /\ y.gen = x.gen
      BY <1>3, <3>2 DEF Turns
    <3>4. Single({"baseline", "ended", "failed"})' /\ chain'[1].gen = Base
      BY <1>1, <1>2, <1>6, <3>1, <3>2, <3>3
    <3> QED BY <2>2, <3>4 DEF Work
  <2>3. CASE run.at = "verify"
    <3>1. Single({"probe", "ended", "missed", "failed"})
      BY <2>0, <2>3 DEF Work
    <3>2. x.kind = "probe"
      BY <1>4, <1>6, <3>1
    <3>3. y.kind \in {"probe", "ended", "missed", "failed"}
      BY <1>3, <3>2 DEF Turns
    <3>4. Single({"probe", "ended", "missed", "failed"})'
      BY <1>6, <3>1, <3>3
    <3> QED BY <2>3, <3>4 DEF Work
  <2>4. CASE run.at = "work"
    <3>1. Single({"task", "ended", "failed"})
      BY <2>0, <2>4 DEF Work
    <3>2. x.kind = "task"
      BY <1>4, <1>6, <3>1
    <3>3. y.kind \in {"task", "ended", "failed"}
      BY <1>3, <3>2 DEF Turns
    <3>4. Single({"task", "ended", "failed"})'
      BY <1>6, <3>1, <3>3
    <3> QED BY <2>4, <3>4 DEF Work
  <2>5. CASE run.at = "expand"
    <3>1. history # <<>>
      BY <2>5 DEF CampaignInv, Place, Phase
    <3>2. Batch' = Batch /\ Now' = Now /\ Candidates(Now)' = Candidates(Now)
      BY <1>0, <3>1, BatchStays DEF Now, Candidates
    <3>3. \A d \in Caller : Batched(d)
      BY <2>0, <2>5 DEF Work
    <3>4. Batched(c)'
      <4>1. /\ c \in DOMAIN Batch /\ x.kind \in Expanding /\ x.index = Candidates(Now) + c - 1
            /\ x.kind \in {"open", "expand"} => x.gen = Now.evaluated[Batch[c]]
            /\ x.kind \in {"publish", "candidate"} => intent[Proposal(x.index)] = Now.evaluated[Batch[c]]
        BY <1>1, <1>4, <3>3 DEF Batched
      <4>2. y.kind \in Expanding \cup {"ended", "failed"}
        BY <1>3, <4>1 DEF Turns, Expanding
      <4>3. y.kind \in {"open", "expand"} => x.kind = "open" /\ y.gen = x.gen
        BY <1>3 DEF Turns
      <4>4. y.kind \in {"publish", "candidate", "ended"} => intent[Proposal(x.index)] = Now.evaluated[Batch[c]]
        BY <1>3, <4>1 DEF Turns, Expanding
      <4>5. /\ chain'[c].kind = y.kind /\ chain'[c].index = x.index /\ chain'[c].gen = y.gen
            /\ Proposal(chain'[c].index) = Proposal(x.index)
        BY <1>2, <1>3
      <4> QED BY <1>4, <3>2, <4>1, <4>2, <4>3, <4>4, <4>5 DEF Batched, Proposal
    <3>5. ASSUME NEW d \in Caller, d # c
          PROVE  Batched(d)'
      <4>1. chain'[d] = chain[d] /\ Batched(d)
        BY <1>2, <3>3, <3>5
      <4> QED BY <3>2, <4>1 DEF Batched, Proposal
    <3> QED BY <2>5, <3>4, <3>5 DEF Work
  <2>6. CASE run.at \notin {"grade", "expand", "verify", "work"}
    BY <2>0, <2>1, <2>6 DEF Work
  <2> QED BY <2>2, <2>3, <2>4, <2>5, <2>6
<1>8. Answered'
  BY <1>2, <1>3 DEF CampaignInv, Answered
<1>9. Grades'
  <2>0. Grades /\ Work
    BY DEF CampaignInv
  <2>1. \A g : Proven(g)' <=> Proven(g)
    BY DEF Proven
  <2>2. ASSUME NEW d \in Caller
        PROVE  Progresses(chain[d], call[d])'
    <3>1. Progresses(chain'[d], call'[d])
      BY <1>2, <1>3, <2>0 DEF Grades
    <3> QED BY <3>1 DEF Progresses, GradedAs
  <2>3. ASSUME NEW d \in Caller, NEW case \in Cases, run.at = "grade", chain'[d].kind = "ended"
        PROVE  GradedAs(<<"baseline", 0, case>>, Base)'
    <3>1. Single({"baseline", "ended", "failed"}) /\ chain[1].gen = Base
      BY <2>0, <2>3 DEF Work
    <3>2. c = 1 /\ x.kind = "baseline" /\ x.index = 0 /\ x.gen = Base
      BY <1>1, <1>4, <1>6, <3>1
    <3>3. d = c
      BY <1>2, <2>3, <3>1, <3>2 DEF Single
    <3>4. GradedAs(<<"baseline", 0, case>>, Base)
      BY <1>2, <1>3, <2>3, <3>2, <3>3
    <3> QED BY <3>4 DEF GradedAs
  <2>4. ASSUME NEW d \in Caller, NEW case \in Cases, run.at = "expand", chain'[d].kind = "ended"
        PROVE  GradedAs(<<"candidate", chain[d].index, case>>, chain[d].gen)'
    <3>1. CASE d = c
      <4>1. x.kind \in Expanding
        BY <1>1, <1>4, <2>0, <2>4 DEF Work, Batched
      <4>2. x.kind = "candidate" /\ y.gen = x.gen
        BY <1>2, <1>3, <2>4, <3>1, <4>1 DEF Turns, Expanding
      <4>3. GradedAs(<<"candidate", x.index, case>>, x.gen)
        BY <1>2, <1>3, <2>4, <3>1, <4>2
      <4>4. chain'[d].index = x.index /\ chain'[d].gen = x.gen
        BY <1>2, <1>3, <3>1, <4>2
      <4> QED BY <4>3, <4>4 DEF GradedAs
    <3>2. CASE d # c
      <4>1. GradedAs(<<"candidate", chain[d].index, case>>, chain[d].gen) /\ chain'[d] = chain[d]
        BY <1>2, <2>0, <2>4, <3>2 DEF Grades
      <4> QED BY <4>1 DEF GradedAs
    <3> QED BY <3>1, <3>2
  <2>5. ASSUME run.at = "verify", chain'[1].kind = "ended"
        PROVE  Proven(None)'
    <3>1. Single({"probe", "ended", "missed", "failed"})
      BY <2>0, <2>5 DEF Work
    <3>2. c = 1 /\ x.kind = "probe"
      BY <1>4, <1>6, <3>1
    <3>3. Proven(None)
      BY <1>2, <1>3, <2>5, <3>2
    <3> QED BY <2>1, <3>3 DEF Proven
  <2>6. ASSUME run.at = "work"
        PROVE  Proven(chain[1].gen)'
    <3>1. Single({"task", "ended", "failed"})
      BY <2>0, <2>6 DEF Work
    <3>2. c = 1 /\ x.kind = "task"
      BY <1>4, <1>6, <3>1
    <3>3. Proven(chain[1].gen) /\ chain'[1].gen = chain[1].gen
      BY <1>1, <1>2, <1>3, <2>0, <2>6, <3>2 DEF Grades
    <3> QED BY <2>1, <3>3 DEF Proven
  <2>7. \A t \in TaskName : (intent[<<"task", 0, t>>] # None => Proven(intent[<<"task", 0, t>>]))'
    BY <2>0 DEF Grades, Proven
  <2>8. ASSUME NEW d \in Caller, chain'[d].kind = "task"
        PROVE  Proven(chain[d].gen)'
    <3>1. chain[d].kind = "task" /\ chain'[d].gen = chain[d].gen
      BY <1>1, <1>2, <1>3, <1>4, <2>8 DEF Alone
    <3>2. Proven(chain[d].gen)
      BY <2>0, <3>1 DEF Grades
    <3> QED BY <3>1, <3>2 DEF Proven
  <2> QED BY <2>2, <2>3, <2>4, <2>5, <2>6, <2>7, <2>8 DEF Grades
<1>10. Funds'
  <2>1. Owed' \subseteq Owed
    <3>1. \A d \in Caller : chain'[d].kind \in Expanding => chain[d].kind \in Expanding /\ chain'[d].index = chain[d].index
      BY <1>1, <1>2, <1>3, <1>4
    <3> QED BY <3>1 DEF Owed
  <2>2. Reserved' = Reserved /\ IsFiniteSet(Reserved \cup Owed)
    BY OperationAssumption, FS_Subset DEF Reserved, Owed
  <2>3. Cardinality(Reserved' \cup Owed') <= Cardinality(Reserved \cup Owed)
        /\ Cardinality(Reserved' \cup Owed') \in Nat /\ Cardinality(Reserved \cup Owed) \in Nat
    <3>1. Reserved' \cup Owed' \subseteq Reserved \cup Owed
      BY <2>1, <2>2
    <3> QED BY <2>2, <3>1, FS_Subset, FS_CardinalityType
  <2>4. Cardinality(Reserved' \cup Owed') <= Requests
    BY <2>3, RequestsAssumption DEF CampaignInv, Funds
  <2>5. ASSUME NEW d \in Caller, call'[d].at = "reserve", chain'[d].kind \in Alone
        PROVE  Cardinality(Reserved') < Requests
    <3>1. d # c
      BY <1>2, <1>3, <2>5
    <3> QED BY <1>2, <2>2, <2>5, <3>1 DEF CampaignInv, Funds
  <2> QED BY <2>4, <2>5 DEF Funds
<1>11. Stored'
  <2>1. ASSUME NEW d \in Caller, chain'[d].kind \in {"candidate", "ended"}, run.at = "expand"
        PROVE  chain'[d].gen \in stored'
    <3>1. Stored /\ stored \subseteq stored' /\ Work
      BY <1>0 DEF CampaignInv, Accumulates
    <3>2. CASE d # c
      BY <1>2, <2>1, <3>1, <3>2 DEF Stored
    <3>3. CASE d = c /\ x.kind = "candidate"
      <4>1. chain[c].gen \in stored /\ y.gen = x.gen
        BY <1>1, <1>3, <2>1, <3>1, <3>3 DEF Stored
      <4> QED BY <1>1, <1>2, <3>1, <3>3, <4>1
    <3>4. CASE d = c /\ x.kind # "candidate"
      <4>1. x.kind \in Expanding
        BY <1>1, <1>4, <2>1, <3>1 DEF Work, Batched
      <4>2. y.kind = "candidate"
        BY <1>2, <1>3, <2>1, <3>4, <4>1 DEF Turns, Expanding
      <4> QED BY <1>1, <1>2, <3>4, <4>2
    <3> QED BY <3>2, <3>3, <3>4
  <2>2. run.at = "first" => Base \in stored'
    BY <1>0 DEF CampaignInv, Stored, Accumulates
  <2> QED BY <2>1, <2>2 DEF Stored
<1> QED BY <1>0, <1>5, <1>7, <1>8, <1>9, <1>10, <1>11 DEF CampaignInv

LEMMA HeadOrTail ==
  ASSUME NEW S, NEW s \in Seq(S), s # <<>>
  PROVE  Head(s) \in S /\ Tail(s) \in Seq(S) /\ ToSet(s) \subseteq {Head(s)} \cup ToSet(Tail(s))
<1>1. Head(s) \in S /\ Tail(s) \in Seq(S) /\ Head(s) = s[1]
  OBVIOUS
<1>2. ASSUME NEW i \in DOMAIN s, i # 1
      PROVE  s[i] \in ToSet(Tail(s))
  <2>1. i - 1 \in 1..Len(Tail(s)) /\ Tail(s)[i - 1] = s[i]
    BY <1>2
  <2>2. i - 1 \in DOMAIN Tail(s)
    BY <1>1, <2>1
  <2> QED BY <2>1, <2>2 DEF ToSet
<1> QED BY <1>1, <1>2 DEF ToSet

(* What a chain that calls is about. *)
LEMMA ChainKnows ==
  ASSUME CampaignInv, NEW c \in Caller, call[c].at # "idle"
  PROVE  /\ chain[c].kind \in Calling /\ chain[c].gen \in Generation /\ chain[c].index \in Nat
         /\ call[c].gen = chain[c].gen
         /\ chain[c].kind \in Alone => chain[c].index = 0
         /\ chain[c].kind \notin Alone => chain[c].index < CandidateLimit
         /\ call[c].op \in Operation
         /\ \E case \in CasesOf(chain[c].kind) : call[c].op = <<OpKind(chain[c].kind), chain[c].index, case>>
<1>1. ChainFits(chain[c], call[c])
  BY DEF CampaignInv, Chains
<1>2. call[c] # Idle
  BY DEF Idle
<1>3. chain[c].kind \in Calling
  BY <1>1, <1>2 DEF ChainFits
<1>4. call[c].op \in Operation
  BY DEF CampaignInv, CallInv, CallerKnows
<1> QED BY <1>1, <1>3, <1>4 DEF ChainFits, Calling, Alone, Expanding

(* A chain whose call has an answer has graded its case.                   *)
LEMMA DoneIsGraded ==
  ASSUME CampaignInv, NEW c \in Caller, call[c].at = "done"
  PROVE  /\ intent[call[c].op] = chain[c].gen /\ Result(c) # Failed
         /\ chain[c].kind = "expand" => /\ call[c].op = Proposal(chain[c].index)
                                        /\ Result(c) \in Generation \cup {Invalid}
         /\ chain[c].kind # "expand" => /\ GradedAs(call[c].op, chain[c].gen)
                                        /\ OpKind(chain[c].kind) = chain[c].kind
<1>1. PICK case \in CasesOf(chain[c].kind) : call[c].op = <<OpKind(chain[c].kind), chain[c].index, case>>
  BY ChainKnows
<1>2. call[c].gen = chain[c].gen /\ call[c].op \in Operation /\ chain[c].kind \in Calling
  BY ChainKnows
<1>3. intent[call[c].op] = chain[c].gen /\ Result(c) \in Answer /\ Result(c) \in Replies(call[c].op)
  BY <1>2, ValueAssumption DEF CampaignInv, Answered, Result
<1>4. Result(c) # Failed
  BY <1>3, ValueAssumption
<1>5. CASE chain[c].kind = "expand"
  BY <1>1, <1>3, <1>4, <1>5 DEF OpKind, CasesOf, Proposal, Replies
<1>6. CASE chain[c].kind # "expand"
  <2>1. call[c].op[1] # "proposal" /\ OpKind(chain[c].kind) = chain[c].kind
    BY <1>1, <1>2, <1>6 DEF OpKind, Calling
  <2>2. Result(c) \in Verdict
    BY <1>3, <1>4, <2>1 DEF Replies
  <2> QED BY <1>3, <1>4, <1>6, <2>1, <2>2 DEF GradedAs, Result
<1> QED BY <1>3, <1>4, <1>5, <1>6

(* A chain that fails, or that a miss stops. *)
LEMMA EndsFit ==
  ASSUME CampaignInv, NEW c \in Caller, NEW kind \in {"ended", "missed", "failed"},
         Turns(chain[c].kind, kind), kind = "ended" => chain[c].gen \in Generation
  PROVE  LET y == [chain[c] EXCEPT !.kind = kind]
         IN  /\ ChainFits(y, Idle) /\ Progresses(y, Idle) /\ y.kind = kind /\ y.index = chain[c].index
             /\ y.gen = chain[c].gen /\ DOMAIN y = {"kind", "index", "gen", "todo"}
<1>1. PICK x, y : x = chain[c] /\ y = [x EXCEPT !.kind = kind]
  OBVIOUS
<1>2. DOMAIN x = {"kind", "index", "gen", "todo"} /\ x.index \in Nat
  BY <1>1 DEF CampaignInv, Chains, ChainFits
<1>3. y.kind = kind /\ y.index = x.index /\ y.gen = x.gen /\ DOMAIN y = {"kind", "index", "gen", "todo"}
  BY <1>1, <1>2
<1>4. ChainFits(y, Idle)
  BY <1>1, <1>2, <1>3 DEF ChainFits, Calling, Expanding, Alone
<1>5. Progresses(y, Idle)
  BY <1>3 DEF Progresses
<1> QED BY <1>1, <1>3, <1>4, <1>5

LEMMA EndKeeps ==
  ASSUME CampaignInv, [Next]_vars, NEW c \in Caller, NEW kind \in {"ended", "missed", "failed"},
         EndChain(c, kind), stored' \subseteq Generation,
         UNCHANGED <<history, pointer, reviews, decisions, served, approvals, lease, run>>,
         Turns(chain[c].kind, kind), kind = "ended" => chain[c].gen \in Generation,
         kind # "failed" => chain[c].kind # "expand",
         kind = "ended" /\ chain[c].kind \in {"baseline", "candidate"} =>
           \A case \in Cases : GradedAs(<<chain[c].kind, chain[c].index, case>>, chain[c].gen),
         kind = "ended" /\ chain[c].kind = "probe" => Proven(None)
  PROVE  CampaignInv'
<1>1. PICK y : y = [chain[c] EXCEPT !.kind = kind]
  OBVIOUS
<1>2. /\ ChainFits(y, Idle) /\ Progresses(y, Idle) /\ y.kind = kind /\ y.index = chain[c].index
      /\ y.gen = chain[c].gen /\ DOMAIN y = {"kind", "index", "gen", "todo"}
  BY <1>1, EndsFit
<1>3. Becomes(chain[c], y, Idle)
  BY <1>2 DEF Becomes, Idle
<1>4. chain' = [chain EXCEPT ![c] = y] /\ call' = [call EXCEPT ![c] = Idle] /\ UNCHANGED <<intent, receipt>>
  BY <1>1 DEF EndChain, CampaignInv, Chains
<1> QED BY <1>2, <1>3, <1>4, WalkKeeps

(* A chain that begins the evaluation of a candidate, or its proposal.     *)
LEMMA NextKeeps ==
  ASSUME CampaignInv, [Next]_vars, NEW c \in Caller, NEW kind \in {"expand", "candidate"}, NEW g \in Generation,
         NEW cases, Begins(kind, cases), NextOperation(c, kind, chain[c].index, g, cases),
         stored' \subseteq Generation,
         UNCHANGED <<history, pointer, reviews, decisions, served, approvals, lease, run>>,
         Turns(chain[c].kind, kind), chain[c].kind \in Expanding \ {"candidate"},
         chain[c].kind # "expand" => g = chain[c].gen,
         chain[c].kind = "expand" => intent[Proposal(chain[c].index)] = chain[c].gen,
         kind = "candidate" => g \in stored'
  PROVE  CampaignInv'
<1>1. PICK y, k : y = ChainFor(kind, chain[c].index, g, cases) /\ k = CallFor(kind, chain[c].index, g, cases)
  OBVIOUS
<1>2. chain[c].index \in Nat /\ chain[c].index < CandidateLimit
  BY DEF CampaignInv, Chains, ChainFits, Expanding
<1>3. /\ ChainFits(y, k) /\ Progresses(y, k) /\ y.kind = kind /\ y.index = chain[c].index
      /\ y.gen = g /\ DOMAIN y = {"kind", "index", "gen", "todo"} /\ k.at = "admit"
  BY <1>1, <1>2, BeginsFit DEF Calling, Alone, CallFor
<1>4. Becomes(chain[c], y, k)
  BY <1>3 DEF Becomes
<1>5. chain' = [chain EXCEPT ![c] = y] /\ call' = [call EXCEPT ![c] = k] /\ UNCHANGED <<intent, receipt>>
  BY <1>1 DEF NextOperation
<1> QED BY <1>3, <1>4, <1>5, WalkKeeps

LEMMA OpenKeeps == ASSUME CampaignInv, [Next]_vars, NEW c \in Caller, Open(c) PROVE CampaignInv'
<1>1. /\ chain[c].kind = "open" /\ NextOperation(c, "expand", chain[c].index, chain[c].gen, <<NoCase>>)
      /\ UNCHANGED <<history, pointer, reviews, decisions, served, approvals, lease, run, stored>>
  BY DEF Open, Elsewhere, durable
<1>2. chain[c].gen \in Generation /\ stored' \subseteq Generation
  BY <1>1 DEF CampaignInv, Chains, ChainFits, Expanding, Types
<1>3. Turns(chain[c].kind, "expand") /\ chain[c].kind \in Expanding \ {"candidate"}
  BY <1>1 DEF Turns, Expanding
<1> QED BY <1>1, <1>2, <1>3, BeginsOfPlan, NextKeeps

LEMMA BrokenKeeps == ASSUME CampaignInv, [Next]_vars, NEW c \in Caller, Broken(c) PROVE CampaignInv'
<1>1. /\ EndChain(c, "failed") /\ call[c].at # "idle"
      /\ UNCHANGED <<history, pointer, reviews, decisions, served, approvals, lease, run, stored>>
  BY DEF Broken, Elsewhere, durable
<1>2. chain[c].kind \in Calling /\ stored' \subseteq Generation
  BY <1>1, ChainKnows DEF CampaignInv, Types
<1>3. Turns(chain[c].kind, "failed")
  BY <1>2 DEF Turns, Calling
<1> QED BY <1>1, <1>2, <1>3, EndKeeps

LEMMA StoreKeeps == ASSUME CampaignInv, [Next]_vars, NEW c \in Caller, StoreGeneration(c) PROVE CampaignInv'
<1>1. /\ chain[c].kind = "publish" /\ stored' = stored \cup {chain[c].gen}
      /\ UNCHANGED <<history, pointer, reviews, decisions, served, approvals, lease, run>>
  BY DEF StoreGeneration
<1>2. chain[c].gen \in Generation /\ stored' \subseteq Generation
  BY <1>1 DEF CampaignInv, Chains, ChainFits, Expanding, Types
<1>3. CASE NextOperation(c, "candidate", chain[c].index, chain[c].gen, EvaluatedCases)
  <2>1. Turns(chain[c].kind, "candidate") /\ chain[c].kind \in Expanding \ {"candidate"} /\ chain[c].kind # "expand"
    BY <1>1 DEF Turns, Expanding
  <2> QED BY <1>1, <1>2, <1>3, <2>1, BeginsOfPlan, NextKeeps
<1>4. CASE EndChain(c, "failed")
  <2>1. Turns(chain[c].kind, "failed")
    BY <1>1 DEF Turns
  <2> QED BY <1>1, <1>2, <1>4, <2>1, EndKeeps
<1> QED BY <1>3, <1>4 DEF StoreGeneration

LEMMA ProposedKeeps == ASSUME CampaignInv, [Next]_vars, NEW c \in Caller, Proposed(c) PROVE CampaignInv'
<1>1. /\ call[c].at = "done" /\ chain[c].kind = "expand"
      /\ UNCHANGED <<history, pointer, reviews, decisions, served, approvals, lease, run, stored>>
  BY DEF Proposed, Elsewhere, durable
<1>2. /\ intent[Proposal(chain[c].index)] = chain[c].gen /\ Result(c) \in Generation \cup {Invalid}
      /\ stored \subseteq Generation /\ stored' \subseteq Generation
  BY <1>1, DoneIsGraded DEF CampaignInv, Types
<1>3. chain[c].index \in Nat /\ chain[c].index < CandidateLimit /\ DOMAIN chain[c] = {"kind", "index", "gen", "todo"}
  BY <1>1 DEF CampaignInv, Chains, ChainFits, Expanding
<1>4. CASE EndChain(c, "failed")
  <2>1. Turns(chain[c].kind, "failed")
    BY <1>1 DEF Turns
  <2> QED BY <1>1, <1>2, <1>4, <2>1, EndKeeps
<1>5. CASE Result(c) \in stored /\ NextOperation(c, "candidate", chain[c].index, Result(c), EvaluatedCases)
  <2>1. Turns(chain[c].kind, "candidate") /\ chain[c].kind \in Expanding \ {"candidate"}
    BY <1>1 DEF Turns, Expanding
  <2> QED BY <1>1, <1>2, <1>5, <2>1, BeginsOfPlan, NextKeeps
<1>6. CASE /\ Result(c) # Invalid
           /\ chain' = [chain EXCEPT ![c] = [@ EXCEPT !.kind = "publish", !.gen = Result(c)]]
           /\ call' = [call EXCEPT ![c] = Idle]
           /\ UNCHANGED <<intent, receipt>>
  <2>1. PICK x, g, y : x = chain[c] /\ g = Result(c) /\ y = [x EXCEPT !.kind = "publish", !.gen = g]
    OBVIOUS
  <2>2. /\ y.kind = "publish" /\ y.gen = g /\ y.index = x.index /\ DOMAIN y = {"kind", "index", "gen", "todo"}
        /\ g \in Generation
    BY <1>2, <1>3, <1>6, <2>1
  <2>3. ChainFits(y, Idle) /\ Progresses(y, Idle)
    BY <1>3, <2>1, <2>2 DEF ChainFits, Progresses, Calling, Expanding, Alone
  <2>4. Becomes(x, y, Idle)
    BY <1>1, <1>2, <2>1, <2>2, <2>3 DEF Becomes, Turns, Idle
  <2>5. chain' = [chain EXCEPT ![c] = y]
    BY <1>6, <2>1 DEF CampaignInv, Chains
  <2> QED BY <1>1, <1>2, <1>6, <2>1, <2>2, <2>4, <2>5, WalkKeeps
<1> QED BY <1>4, <1>5, <1>6 DEF Proposed

LEMMA GradedStepKeeps == ASSUME CampaignInv, [Next]_vars, NEW c \in Caller, Graded(c) PROVE CampaignInv'
<1>1. /\ call[c].at = "done" /\ chain[c].kind \in {"baseline", "candidate", "probe", "task"}
      /\ UNCHANGED <<history, pointer, reviews, decisions, served, approvals, lease, run, stored>>
      /\ stored' \subseteq Generation
  BY DEF Graded, Elsewhere, durable, CampaignInv, Types
<1>2. PICK x, o : x = chain[c] /\ o = call[c].op
  OBVIOUS
<1>3. /\ x.gen \in Generation /\ x.index \in Nat /\ (x.kind \in Alone => x.index = 0)
      /\ (x.kind \notin Alone => x.index < CandidateLimit) /\ x.kind \in Calling
      /\ x.todo \in Seq(CasesOf(x.kind)) /\ DOMAIN x = {"kind", "index", "gen", "todo"}
  <2>1. ChainFits(x, call[c]) /\ DOMAIN x = {"kind", "index", "gen", "todo"} /\ x.kind \in Calling
    BY <1>1, <1>2 DEF CampaignInv, Chains, Calling
  <2> QED BY <1>1, <1>2, <2>1, ChainKnows DEF ChainFits
<1>4. GradedAs(o, x.gen)
  BY <1>1, <1>2, DoneIsGraded
<1>5. Progresses(x, call[c])
  BY <1>2 DEF CampaignInv, Grades
<1>6. CASE x.kind = "probe" /\ EndChain(c, "missed")
  <2>1. Turns(chain[c].kind, "missed")
    BY <1>2, <1>6 DEF Turns
  <2> QED BY <1>1, <1>2, <1>6, <2>1, EndKeeps
<1>7. ASSUME NEW case \in CasesOf(x.kind), case \notin ToSet(x.todo), x.kind \in {"baseline", "candidate", "probe"},
             x.kind = "probe" => receipt[o] # "miss"
      PROVE  /\ GradedAs(<<x.kind, x.index, case>>, x.gen)
             /\ x.kind = "probe" => receipt[<<x.kind, x.index, case>>] = "pass"
  <2>1. CASE o = <<x.kind, x.index, case>>
    BY <1>4, <1>7, <2>1 DEF GradedAs, Verdict
  <2>2. CASE o # <<x.kind, x.index, case>>
    BY <1>2, <1>5, <1>7, <2>2 DEF Progresses
  <2> QED BY <2>1, <2>2
<1>8. CASE x.todo = <<>> /\ EndChain(c, "ended") /\ ~(x.kind = "probe" /\ Result(c) = "miss")
  <2>1. Turns(chain[c].kind, "ended") /\ chain[c].kind # "expand"
    BY <1>1 DEF Turns
  <2>2. ToSet(x.todo) = {}
    BY <1>8 DEF ToSet
  <2>3. x.kind = "probe" => receipt[o] # "miss"
    BY <1>2, <1>8 DEF Result
  <2>4. x.kind \in {"baseline", "candidate"} => \A case \in Cases : GradedAs(<<x.kind, x.index, case>>, x.gen)
    BY <1>7, <2>2 DEF CasesOf
  <2>5. x.kind = "probe" => Proven(None)
    <3>1. CASE x.kind = "probe"
      <4>1. x.index = 0 /\ CasesOf(x.kind) = ToSet(CanaryCases)
        BY <1>3, <3>1 DEF Alone, CasesOf, Canaries
      <4>2. \A case \in ToSet(CanaryCases) : receipt[<<"probe", 0, case>>] = "pass"
        BY <1>7, <2>2, <2>3, <3>1, <4>1
      <4> QED BY <4>2 DEF Proven
    <3> QED BY <3>1
  <2> QED BY <1>1, <1>2, <1>3, <1>8, <2>1, <2>4, <2>5, EndKeeps
<1>9. CASE /\ x.todo # <<>> /\ NextOperation(c, x.kind, x.index, x.gen, x.todo)
           /\ ~(x.kind = "probe" /\ Result(c) = "miss")
  <2>1. PICK y, k, head, tail : /\ y = ChainFor(x.kind, x.index, x.gen, x.todo)
                                /\ k = CallFor(x.kind, x.index, x.gen, x.todo)
                                /\ head = Head(x.todo) /\ tail = Tail(x.todo)
    OBVIOUS
  <2>2. /\ y.kind = x.kind /\ y.index = x.index /\ y.gen = x.gen /\ y.todo = tail
        /\ DOMAIN y = {"kind", "index", "gen", "todo"}
        /\ k.at = "admit" /\ k.op = <<x.kind, x.index, head>> /\ k.gen = x.gen
    <3>1. OpKind(x.kind) = x.kind
      BY <1>1, <1>2 DEF OpKind
    <3> QED BY <2>1, <3>1 DEF ChainFor, CallFor
  <2>3. head \in CasesOf(x.kind) /\ tail \in Seq(CasesOf(x.kind)) /\ ToSet(x.todo) \subseteq {head} \cup ToSet(tail)
    BY <1>3, <1>9, <2>1, HeadOrTail
  <2>4. ChainFits(y, k)
    <3>1. k.op = <<OpKind(y.kind), y.index, head>>
      BY <1>1, <1>2, <2>2 DEF OpKind
    <3> QED BY <1>3, <2>2, <2>3, <3>1 DEF ChainFits, Calling, Alone, Expanding
  <2>5. Progresses(y, k)
    <3>1. x.kind = "probe" => receipt[o] # "miss"
      BY <1>2, <1>9 DEF Result
    <3>2. ASSUME NEW case \in CasesOf(x.kind), x.kind \in {"baseline", "candidate", "probe"}
          PROVE  \/ case \in ToSet(tail)
                 \/ case = head
                 \/ /\ GradedAs(<<x.kind, x.index, case>>, x.gen)
                    /\ x.kind = "probe" => receipt[<<x.kind, x.index, case>>] = "pass"
      BY <1>7, <2>3, <3>1, <3>2
    <3> QED BY <2>2, <3>2 DEF Progresses
  <2>6. Becomes(x, y, k)
    BY <1>1, <1>2, <2>2, <2>4, <2>5 DEF Becomes, Turns
  <2>7. chain' = [chain EXCEPT ![c] = y] /\ call' = [call EXCEPT ![c] = k] /\ UNCHANGED <<intent, receipt>>
    BY <1>9, <2>1 DEF NextOperation
  <2> QED BY <1>1, <1>2, <2>2, <2>6, <2>7, WalkKeeps
<1> QED BY <1>1, <1>2, <1>6, <1>8, <1>9 DEF Graded

(* What a step of a call changes.                                          *)
Effect(c) ==
  /\ call'[c].at # "idle" /\ call'[c].op = call[c].op /\ call'[c].gen = call[c].gen
  /\ \A d \in Caller : d # c => call'[d] = call[d]
  /\ \/ intent' = intent
     \/ /\ call[c].at = "reserve" /\ call'[c].at = "recheck"
        /\ intent' = [intent EXCEPT ![call[c].op] = call[c].gen]
  /\ \A o \in Operation : receipt'[o] # None => receipt'[o] \in Replies(o)
  /\ call'[c].at \in {"answer", "done"} => intent'[call[c].op] = call[c].gen
  /\ call'[c].at = "done" => receipt'[call[c].op] \in Answer
  /\ call'[c].at = "reserve" => intent' = intent /\ Cardinality(Reserved) < Requests

LEMMA CallEffect == ASSUME CampaignInv, NEW c \in Caller, Call(c) PROVE Effect(c)
<1> DEFINE o == call[c].op
           g == call[c].gen
<1>1. /\ o \in Operation /\ g \in Generation /\ call[c].at # "idle"
      /\ call \in [Caller -> [at : Step, op : Operation \cup {None}, gen : Generation \cup {None}]]
      /\ intent \in [Operation -> Generation \cup {None}]
      /\ receipt \in [Operation -> Answer \cup {Failed, None}]
      /\ \A p \in Operation : receipt[p] # None => receipt[p] \in Replies(p)
  BY DEF Call, CampaignInv, CallInv, CallerKnows, OpTypeOK, Answered
<1>2. ASSUME NEW step, Goto(c, step), step # "idle"
      PROVE  /\ call'[c].at = step /\ call'[c].op = o /\ call'[c].gen = g
             /\ \A d \in Caller : d # c => call'[d] = call[d]
             /\ call'[c].at # "idle"
  BY <1>1, <1>2 DEF Goto
<1>3. CASE Admit(c)
  <2>1. PICK step : step = Admission(o, g)
    OBVIOUS
  <2>2. Goto(c, step) /\ UNCHANGED <<intent, receipt>>
    BY <1>3, <2>1 DEF Admit
  <2>3. /\ step \in {"error", "done", "reserve"}
        /\ step = "done" => intent[o] = g /\ receipt[o] \in Answer
        /\ step = "reserve" => Cardinality(Reserved) < Requests
    BY <2>1 DEF Admission
  <2>4. step # "idle"
    BY <2>3
  <2>5. /\ call'[c].at = step /\ call'[c].op = o /\ call'[c].gen = g
        /\ \A d \in Caller : d # c => call'[d] = call[d]
    BY <1>2, <2>2, <2>4
  <2> QED BY <1>1, <2>2, <2>3, <2>5 DEF Effect
<1>4. CASE Reserve(c)
  <2>1. intent[o] = None /\ call[c].at = "reserve"
    BY <1>4 DEF Reserve, CampaignInv, CallInv, CallerKnows
  <2>2. intent' = [intent EXCEPT ![o] = g] /\ Goto(c, "recheck") /\ UNCHANGED receipt
    BY <1>4, <2>1 DEF Reserve
  <2>3. /\ call'[c].at = "recheck" /\ call'[c].op = o /\ call'[c].gen = g
        /\ \A d \in Caller : d # c => call'[d] = call[d]
    BY <1>2, <2>2
  <2> QED BY <1>1, <2>1, <2>2, <2>3 DEF Effect
<1>5. CASE Recheck(c)
  <2>1. PICK step \in {"send", "error"} : Goto(c, step) /\ UNCHANGED <<intent, receipt>>
    BY <1>5 DEF Recheck
  <2>2. /\ call'[c].at = step /\ call'[c].op = o /\ call'[c].gen = g
        /\ \A d \in Caller : d # c => call'[d] = call[d]
    BY <1>2, <2>1
  <2> QED BY <1>1, <2>1, <2>2 DEF Effect
<1>6. CASE Send(c)
  <2>1. intent[o] = g
    BY <1>6 DEF Send, CampaignInv, CallInv, CallerKnows
  <2>2. Goto(c, "answer") /\ UNCHANGED <<intent, receipt>>
    BY <1>6 DEF Send
  <2>3. /\ call'[c].at = "answer" /\ call'[c].op = o /\ call'[c].gen = g
        /\ \A d \in Caller : d # c => call'[d] = call[d]
    BY <1>2, <2>2
  <2> QED BY <1>1, <2>1, <2>2, <2>3 DEF Effect
<1>7. ASSUME NEW answer \in Replies(o), Settle(c, answer)
      PROVE  Effect(c)
  <2>1. receipt[o] = None /\ intent[o] = g
    BY <1>7 DEF Settle, CampaignInv, CallInv, CallerKnows, Answered
  <2>2. PICK step \in {"done", "error"} : Goto(c, step) /\ (step = "done" => answer \in Answer)
    BY <1>7 DEF Settle
  <2>3. receipt' = [receipt EXCEPT ![o] = answer] /\ UNCHANGED intent
    BY <1>7, <2>1 DEF Settle
  <2>4. /\ call'[c].at = step /\ call'[c].op = o /\ call'[c].gen = g
        /\ \A d \in Caller : d # c => call'[d] = call[d]
    BY <1>2, <2>2
  <2>5. receipt'[o] = answer /\ \A p \in Operation : p # o => receipt'[p] = receipt[p]
    BY <1>1, <2>3
  <2> QED BY <1>1, <1>7, <2>1, <2>2, <2>3, <2>4, <2>5 DEF Effect
<1>8. CASE Unrecorded(c)
  <2>1. Goto(c, "error") /\ UNCHANGED <<intent, receipt>>
    BY <1>8 DEF Unrecorded
  <2>2. /\ call'[c].at = "error" /\ call'[c].op = o /\ call'[c].gen = g
        /\ \A d \in Caller : d # c => call'[d] = call[d]
    BY <1>2, <2>1
  <2> QED BY <1>1, <2>1, <2>2 DEF Effect
<1> QED BY <1>3, <1>4, <1>5, <1>6, <1>7, <1>8 DEF Call, CallStep

LEMMA CallKeeps == ASSUME CampaignInv, [Next]_vars, NEW c \in Caller, Call(c) PROVE CampaignInv'
<1>0. /\ UNCHANGED <<history, pointer, reviews, decisions, served, approvals, lease, run, stored, chain>>
      /\ Effect(c) /\ call[c].at # "idle"
  BY CallEffect DEF Call, Elsewhere, durable
<1>1. stored' \subseteq Generation
  BY <1>0 DEF CampaignInv, Types
<1>2. /\ CallInv' /\ KeepsFiles /\ Accumulates /\ Types' /\ Snapshots' /\ Place(run, history)'
      /\ Served' /\ Decided' /\ Grown'
  BY <1>0, <1>1, ChainRest
<1>3. PICK x, o, g : x = chain[c] /\ o = call[c].op /\ g = call[c].gen
  OBVIOUS
<1>4. /\ x.kind \in Calling /\ x.gen \in Generation /\ g = x.gen /\ o \in Operation
      /\ \E case \in CasesOf(x.kind) : o = <<OpKind(x.kind), x.index, case>>
  BY <1>0, <1>3, ChainKnows
<1>5. /\ call'[c].at # "idle" /\ call'[c].op = o /\ call'[c].gen = g
      /\ \A d \in Caller : d # c => call'[d] = call[d]
  BY <1>0, <1>3 DEF Effect
<1>6. \A d \in Caller : call'[d].op = call[d].op
  BY <1>3, <1>5
<1>7. Chains'
  <2>1. ASSUME NEW d \in Caller
        PROVE  ChainFits(chain'[d], call'[d])
    <3>1. ChainFits(chain[d], call[d])
      BY DEF CampaignInv, Chains
    <3>2. CASE d = c
      BY <1>0, <1>3, <1>4, <1>5, <3>1, <3>2 DEF ChainFits
    <3> QED BY <1>0, <1>5, <3>1, <3>2
  <2>2. \A d \in Caller : ChainFits(chain[d], call[d])'
    BY <2>1 DEF ChainFits
  <2> QED BY <1>0, <2>1, <2>2 DEF CampaignInv, Chains
<1>8. Answered'
  <2>1. /\ \A p \in Operation : receipt'[p] # None => receipt'[p] \in Replies(p)
        /\ call'[c].at \in {"answer", "done"} => intent'[o] = g
        /\ call'[c].at = "done" => receipt'[o] \in Answer
    BY <1>0, <1>3 DEF Effect
  <2>2. ASSUME NEW d \in Caller, call'[d].at \in {"answer", "done"}
        PROVE  intent'[call'[d].op] = call'[d].gen /\ (call'[d].at = "done" => receipt'[call'[d].op] \in Answer)
    <3>1. CASE d = c
      BY <1>5, <2>1, <2>2, <3>1
    <3>2. CASE d # c
      <4>1. call'[d] = call[d] /\ call[d].at # "idle"
        BY <1>5, <2>2, <3>2
      <4>2. call[d].op \in Operation /\ call[d].gen \in Generation
        BY <4>1 DEF CampaignInv, CallInv, CallerKnows
      <4>3. intent[call[d].op] = call[d].gen /\ (call[d].at = "done" => receipt[call[d].op] \in Answer)
        BY <2>2, <4>1 DEF CampaignInv, Answered
      <4> QED BY <1>2, <4>1, <4>2, <4>3, ValueAssumption DEF KeepsFiles
    <3> QED BY <3>1, <3>2
  <2> QED BY <2>1, <2>2 DEF Answered, Replies
<1>9. ASSUME NEW p \in Operation, NEW q \in Generation, GradedAs(p, q)
      PROVE  GradedAs(p, q)' /\ receipt'[p] = receipt[p]
  BY <1>2, <1>9, ValueAssumption, PlanAssumption DEF KeepsFiles, GradedAs
<1>10. Work'
  <2>1. Work
    BY DEF CampaignInv
  <2>2. \A kinds : Single(kinds)' <=> Single(kinds)
    BY <1>0 DEF Single
  <2>3. Phase(history)' = Phase(history)
    BY <1>0 DEF Phase
  <2>4. ASSUME run.at = "expand", NEW d \in Caller
        PROVE  Batched(d)'
    <3>1. history # <<>> /\ Phase(history) \in {"baseline", "search"}
      BY <2>4 DEF CampaignInv, Place, Phase
    <3>2. Batch' = Batch /\ Now' = Now /\ Candidates(Now)' = Candidates(Now)
      BY <1>0, <1>2, <3>1, BatchStays DEF Now, Candidates
    <3>3. Batched(d) /\ chain'[d] = chain[d]
      BY <1>0, <2>1, <2>4 DEF Work
    <3>4. ASSUME chain[d].kind \in {"publish", "candidate", "ended"}
          PROVE  intent'[Proposal(chain[d].index)] = Now.evaluated[Batch[d]]
      <4>1. d \in DOMAIN Batch /\ chain[d].index = Candidates(Now) + d - 1
            /\ intent[Proposal(chain[d].index)] = Now.evaluated[Batch[d]]
        BY <3>3, <3>4 DEF Batched
      <4>2. /\ Now \in LiveState /\ Searched(Now) /\ Now.evaluated # <<>>
        BY <3>1, NowFits DEF Shape, Searched
      <4>3. /\ Batch \in Seq(DOMAIN Now.evaluated) /\ DOMAIN Batch = 1..Len(Batch) /\ Len(Batch) \in Nat
            /\ Len(Batch) <= CandidateLimit - Candidates(Now)
        BY <3>1, <4>2, BatchFits
      <4>4. Now.evaluated[Batch[d]] \in Generation
        <5>1. Batch[d] \in DOMAIN Now.evaluated
          BY <4>1, <4>3
        <5> QED BY <4>2, <5>1 DEF LiveState
      <4>5. Candidates(Now) \in Nat /\ CandidateLimit \in Nat
        <5>1. Len(Now.evaluated) \in Nat \ {0}
          BY <4>2 DEF LiveState
        <5> QED BY <4>2, <5>1, PlanAssumption DEF Candidates
      <4>6. chain[d].index \in Nat /\ chain[d].index < CandidateLimit
        BY <4>1, <4>3, <4>5
      <4>7. Proposal(chain[d].index) \in Operation
        BY <4>6, OperationNames DEF Proposal
      <4> QED BY <1>2, <4>1, <4>4, <4>7, ValueAssumption DEF KeepsFiles
    <3> QED BY <3>2, <3>3, <3>4 DEF Batched, Proposal
  <2>5. (run.at = "grade" => Single({"baseline", "ended", "failed"})') /\ (run.at = "grade" => chain'[1].gen = Base)
    BY <1>0, <2>1, <2>2 DEF Work, Single
  <2>6. run.at = "verify" => Single({"probe", "ended", "missed", "failed"})'
    BY <1>0, <2>1, <2>2 DEF Work, Single
  <2>7. run.at = "work" => Single({"task", "ended", "failed"})'
    BY <1>0, <2>1, <2>2 DEF Work, Single
  <2> QED BY <1>0, <2>1, <2>3, <2>4, <2>5, <2>6, <2>7 DEF Work
<1>11. Grades'
  <2>0. Grades /\ Work
    BY DEF CampaignInv
  <2>1. ASSUME NEW d \in Caller, chain[d].kind \in {"baseline", "candidate", "probe"},
               NEW case \in CasesOf(chain[d].kind)
        PROVE  <<chain[d].kind, chain[d].index, case>> \in Operation /\ chain[d].gen \in Generation
    <3>1. ChainFits(chain[d], call[d])
      BY DEF CampaignInv, Chains
    <3>2. /\ chain[d].index \in Nat /\ chain[d].gen \in Generation
          /\ chain[d].kind \in Alone => chain[d].index = 0
          /\ chain[d].kind \notin Alone => chain[d].index < CandidateLimit
      BY <2>1, <3>1 DEF ChainFits, Calling, Expanding, Alone
    <3>3. chain[d].kind \in Calling /\ OpKind(chain[d].kind) = chain[d].kind
      BY <2>1 DEF Calling, OpKind
    <3>4. <<OpKind(chain[d].kind), chain[d].index, case>> \in Operation
      BY <3>2, <3>3, NamesOfKinds
    <3> QED BY <3>2, <3>3, <3>4
  <2>2. ASSUME NEW d \in Caller
        PROVE  Progresses(chain[d], call[d])'
    <3>1. Progresses(chain[d], call[d]) /\ chain'[d] = chain[d] /\ call'[d].op = call[d].op
      BY <1>0, <1>6, <2>0 DEF Grades
    <3>2. ASSUME chain[d].kind \in {"baseline", "candidate", "probe"}, NEW case \in CasesOf(chain[d].kind),
                 GradedAs(<<chain[d].kind, chain[d].index, case>>, chain[d].gen)
          PROVE  /\ GradedAs(<<chain[d].kind, chain[d].index, case>>, chain[d].gen)'
                 /\ receipt'[<<chain[d].kind, chain[d].index, case>>] = receipt[<<chain[d].kind, chain[d].index, case>>]
      <4>1. PICK p, q : p = <<chain[d].kind, chain[d].index, case>> /\ q = chain[d].gen
        OBVIOUS
      <4>2. GradedAs(p, q)' /\ receipt'[p] = receipt[p]
        BY <1>9, <2>1, <3>2, <4>1
      <4> QED BY <3>1, <4>1, <4>2 DEF GradedAs
    <3> QED BY <3>1, <3>2 DEF Progresses, GradedAs
  <2>3. ASSUME NEW d \in Caller, NEW case \in Cases, run.at = "grade", chain[d].kind = "ended"
        PROVE  GradedAs(<<"baseline", 0, case>>, Base)'
    <3>1. GradedAs(<<"baseline", 0, case>>, Base) /\ <<"baseline", 0, case>> \in Operation /\ Base \in Generation
      BY <2>0, <2>3, OperationNames, PlanAssumption DEF Grades
    <3> QED BY <1>9, <3>1
  <2>4. ASSUME NEW d \in Caller, NEW case \in Cases, run.at = "expand", chain[d].kind = "ended"
        PROVE  GradedAs(<<"candidate", chain[d].index, case>>, chain[d].gen)'
    <3>1. GradedAs(<<"candidate", chain[d].index, case>>, chain[d].gen)
      BY <2>0, <2>4 DEF Grades
    <3>2. chain[d].gen \in Generation /\ chain[d].index \in Nat
      BY <2>4 DEF CampaignInv, Chains, ChainFits
    <3>3. chain[d].index < CandidateLimit
      <4>1. history # <<>> /\ Phase(history) \in {"baseline", "search"}
        BY <2>4 DEF CampaignInv, Place, Phase
      <4>2. /\ Now \in LiveState /\ Searched(Now) /\ Now.evaluated # <<>>
        BY <4>1, NowFits DEF Shape, Searched
      <4>3. /\ DOMAIN Batch = 1..Len(Batch) /\ Len(Batch) \in Nat
            /\ Len(Batch) <= CandidateLimit - Candidates(Now)
        BY <4>1, <4>2, BatchFits
      <4>4. Candidates(Now) \in Nat /\ CandidateLimit \in Nat
        <5>1. Len(Now.evaluated) \in Nat \ {0}
          BY <4>2 DEF LiveState
        <5> QED BY <4>2, <5>1, PlanAssumption DEF Candidates
      <4>5. d \in DOMAIN Batch /\ chain[d].index = Candidates(Now) + d - 1
        BY <2>0, <2>4 DEF Work, Batched
      <4> QED BY <4>3, <4>4, <4>5
    <3>4. PICK p, q : p = <<"candidate", chain[d].index, case>> /\ q = chain[d].gen
      OBVIOUS
    <3>5. p \in Operation
      BY <3>2, <3>3, <3>4, OperationNames
    <3>6. GradedAs(p, q)'
      BY <1>9, <3>1, <3>2, <3>4, <3>5
    <3> QED BY <1>0, <3>4, <3>6 DEF GradedAs
  <2>5. run.at = "verify" /\ chain[1].kind = "ended" => Proven(None)'
    BY <1>2, <2>0, ProvenStays DEF Grades
  <2>6. \A d \in Caller : chain[d].kind = "task" => Proven(chain[d].gen)'
    <3>1. ASSUME NEW d \in Caller, chain[d].kind = "task"
          PROVE  Proven(chain[d].gen)'
      <4>1. PICK q : q = chain[d].gen /\ Proven(q)
        BY <2>0, <3>1 DEF Grades
      <4>2. Proven(q)'
        BY <1>2, <4>1, ProvenStays
      <4> QED BY <1>0, <4>1, <4>2 DEF Proven
    <3> QED BY <3>1
  <2>7. run.at = "work" => Proven(chain[1].gen)'
    <3>1. ASSUME run.at = "work" PROVE Proven(chain[1].gen)'
      <4>1. PICK q : q = chain[1].gen /\ Proven(q)
        BY <2>0, <3>1 DEF Grades
      <4>2. Proven(q)'
        BY <1>2, <4>1, ProvenStays
      <4> QED BY <1>0, <4>1, <4>2 DEF Proven
    <3> QED BY <3>1
  <2>8. ASSUME NEW t \in TaskName, intent'[<<"task", 0, t>>] # None
        PROVE  Proven(intent[<<"task", 0, t>>])'
    <3>1. PICK p : p = <<"task", 0, t>> /\ p \in Operation
      BY OperationNames
    <3>2. intent \in [Operation -> Generation \cup {None}]
      BY DEF CampaignInv, CallInv, OpTypeOK
    <3>3. CASE intent[p] # None
      <4>1. PICK q : q = intent[p] /\ Proven(q)
        BY <2>0, <3>1, <3>3 DEF Grades
      <4>2. Proven(q)' /\ intent'[p] = q
        BY <1>2, <3>1, <3>3, <4>1, ProvenStays DEF KeepsFiles
      <4> QED BY <3>1, <4>2 DEF Proven
    <3>4. CASE intent[p] = None
      <4>1. p = o /\ intent'[p] = g
        BY <1>0, <1>3, <1>4, <2>8, <3>1, <3>2, <3>4 DEF Effect
      <4>2. x.kind = "task"
        BY <1>4, <3>1, <4>1 DEF OpKind, Calling
      <4>3. Proven(g)
        BY <1>3, <1>4, <2>0, <4>2 DEF Grades
      <4>4. Proven(g)'
        BY <1>2, <4>3, ProvenStays
      <4> QED BY <3>1, <4>1, <4>4 DEF Proven
    <3> QED BY <3>3, <3>4
  <2> QED BY <1>0, <2>2, <2>3, <2>4, <2>5, <2>6, <2>7, <2>8 DEF Grades
<1>12. Funds'
  <2>0. Funds /\ Chains
    BY DEF CampaignInv
  <2>1. Owed' = Owed
    BY <1>0 DEF Owed
  <2>2. ASSUME intent' = intent
        PROVE  Funds'
    <3>1. Reserved' = Reserved
      BY <2>2 DEF Reserved
    <3>2. ASSUME NEW d \in Caller, call'[d].at = "reserve"
          PROVE  chain[d].kind \in Alone => Cardinality(Reserved) < Requests
      <4>1. CASE d = c
        BY <1>0, <3>2, <4>1 DEF Effect
      <4>2. CASE d # c
        BY <1>5, <2>0, <3>2, <4>2 DEF Funds
      <4> QED BY <4>1, <4>2
    <3> QED BY <1>0, <2>0, <2>1, <3>1, <3>2 DEF Funds
  <2>3. ASSUME intent' = [intent EXCEPT ![o] = g], call[c].at = "reserve", call'[c].at = "recheck"
        PROVE  Funds'
    <3>1. intent \in [Operation -> Generation \cup {None}]
      BY DEF CampaignInv, CallInv, OpTypeOK
    <3>2. Reserved' = Reserved \cup {o}
      BY <1>4, <2>3, <3>1, ValueAssumption DEF Reserved
    <3>3. CASE x.kind \in Alone
      <4>1. \A d \in Caller : d # c => chain[d].kind = "none"
        BY <1>3, <1>4, <2>0, <3>3 DEF Chains, Calling
      <4>2. Owed = {}
        BY <1>3, <3>3, <4>1 DEF Owed, Expanding, Alone
      <4>3. Cardinality(Reserved) < Requests
        BY <1>3, <2>0, <2>3, <3>3 DEF Funds
      <4>4. Cardinality(Reserved \cup {o}) <= Cardinality(Reserved) + 1 /\ Cardinality(Reserved \cup {o}) \in Nat
        <5>1. PICK R : R = Reserved
          OBVIOUS
        <5>2. IsFiniteSet(R) /\ Cardinality(R) \in Nat
          BY <5>1, ReservedFinite
        <5>3. Cardinality(R \cup {o}) = IF o \in R THEN Cardinality(R) ELSE Cardinality(R) + 1
          BY <5>2, FS_AddElement
        <5>4. Cardinality(R \cup {o}) <= Cardinality(R) + 1 /\ Cardinality(R \cup {o}) \in Nat
          BY <5>2, <5>3
        <5> QED BY <5>1, <5>4
      <4>5. Cardinality(Reserved' \cup Owed') <= Requests
        BY <2>1, <3>2, <4>2, <4>3, <4>4, ReservedFinite, RequestsAssumption
      <4>6. \A d \in Caller : call'[d].at = "reserve" => chain[d].kind \notin Alone
        BY <2>3, <4>1 DEF Alone
      <4> QED BY <1>0, <4>5, <4>6 DEF Funds
    <3>4. CASE x.kind \notin Alone
      <4>1. x.kind \in Expanding /\ o[1] \in {"proposal", "candidate"} /\ o[2] = x.index
        BY <1>4, <3>4 DEF Calling, Alone, Expanding, OpKind
      <4>2. o \in Owed
        BY <1>3, <1>4, <4>1 DEF Owed
      <4>3. Reserved' \cup Owed' = Reserved \cup Owed
        BY <2>1, <3>2, <4>2
      <4>4. \A d \in Caller : chain[d].kind \notin Alone \/ d = c
        BY <1>3, <1>4, <2>0 DEF Chains, Calling, Alone
      <4>5. \A d \in Caller : call'[d].at = "reserve" => chain[d].kind \notin Alone
        BY <1>3, <3>4, <4>4
      <4> QED BY <1>0, <2>0, <4>3, <4>5 DEF Funds
    <3> QED BY <3>3, <3>4
  <2> QED BY <1>0, <1>3, <2>2, <2>3 DEF Effect
<1>13. Stored'
  BY <1>0 DEF CampaignInv, Stored
<1> QED BY <1>2, <1>7, <1>8, <1>10, <1>11, <1>12, <1>13 DEF CampaignInv

-------------------------------------------------------------------------------
(* The invariant of the campaign. *)
LEMMA CampaignInit == Init => CampaignInv
<1> SUFFICES ASSUME Init PROVE CampaignInv
  OBVIOUS
<1>1. CallInv /\ OpInit
  BY CallInvInit DEF Init
<1>2. Types
  BY ValueAssumption DEF Init, Types, NoRun
<1>3. Snapshots
  BY DEF Init, Snapshots
<1>4. Place(run, history) /\ Work /\ Decided /\ Grown
  BY DEF Init, Place, Work, Decided, Grown, NoRun, NoChain
<1>5. Chains
  BY <1>1 DEF Init, OpInit, Chains, ChainFits, NoChain, Calling, Expanding, Alone
<1>6. Answered
  BY <1>1 DEF OpInit, Answered, Idle
<1>7. Grades
  <2>1. \A t \in TaskName : intent[<<"task", 0, t>>] = None
    BY <1>1, OperationNames DEF OpInit
  <2>2. \A c \in Caller : chain[c] = NoChain /\ run.at = "idle"
    BY DEF Init, NoRun
  <2> QED BY <2>1, <2>2, PlanAssumption DEF Grades, Progresses, NoChain, Init, NoRun
<1>8. Funds
  <2>1. Reserved = {} /\ Owed = {}
    BY <1>1 DEF Init, OpInit, Reserved, Owed, NoChain, Expanding
  <2>2. \A c \in Caller : call[c].at # "reserve"
    BY <1>1 DEF OpInit, Idle
  <2> QED BY <2>1, <2>2, FS_EmptySet, RequestsAssumption DEF Funds
<1>9. Served
  BY DEF Init, Served, NoRun, Phase
<1>10. Stored
  BY DEF Init, Stored, NoRun, NoChain
<1> QED BY <1>1, <1>2, <1>3, <1>4, <1>5, <1>6, <1>7, <1>8, <1>9, <1>10 DEF CampaignInv

LEMMA CampaignNext == CampaignInv /\ [Next]_vars => CampaignInv'
<1> SUFFICES ASSUME CampaignInv, [Next]_vars PROVE CampaignInv'
  OBVIOUS
<1>1. CASE Command
  BY <1>1, StartKeeps
<1>2. CASE Supervise
  BY <1>2, SuperviseKeeps
<1>3. CASE \E c \in Caller : Chain(c)
  BY <1>3, CallKeeps, OpenKeeps, GradedStepKeeps, ProposedKeeps, StoreKeeps, BrokenKeeps DEF Chain
<1>4. CASE Review \/ Authority \/ Recover \/ UNCHANGED vars
  BY <1>4, OutsideKeeps
<1>5. CASE Crash
  BY <1>5, CrashKeeps
<1> QED BY <1>1, <1>2, <1>3, <1>4, <1>5 DEF Next

(* The inductive invariant, which has the types of all that is on the disk *)
(* and in a process in it, holds for any plan, any parallelism and however *)
(* many commands, crashes, reviews and changes of authority there are.     *)
THEOREM CampaignInvariant == Spec => []CampaignInv
BY CampaignInit, CampaignNext, PTL DEF Spec

-------------------------------------------------------------------------------
(* What the campaign keeps. *)

(* The campaign implements the call protocol: each of its steps begins an  *)
(* operation under a name that nobody holds, moves one call on, releases a *)
(* caller, or is none of the protocol's, for any plan and any parallelism. *)
THEOREM ImplementsProtocol == Spec => CallProtocol
<1>1. Init => OpInit
  BY DEF Init
<1>2. CampaignInv /\ [Next]_vars => [OpNext]_opVars
  BY CampaignCalls
<1> QED BY <1>1, <1>2, CampaignInvariant, PTL DEF Spec, OpSpec, CallProtocol

(* So no request of a campaign leaves twice, however its commands, its     *)
(* restarts and its expansions interleave.                                 *)
THEOREM CampaignSendsOnce == Spec => []AtMostOnceSend
BY CampaignInvariant, PTL DEF CampaignInv, CallInv

(* ... and what left is on the disk, as the ledger has it. *)
THEOREM CampaignKeepsLedger == Spec => LedgerSpec
BY ImplementsProtocol, ImplementsLedger DEF CallProtocol

(* What is reserved, and what the expansions in progress still have to     *)
(* reserve, stays inside the allocation of the plan.                       *)
THEOREM AllocationIsHeld == Spec => []AllocationHeld
<1>1. CampaignInv => AllocationHeld
  <2> SUFFICES ASSUME CampaignInv PROVE AllocationHeld
    OBVIOUS
  <2>1. Cardinality(Reserved \cup Owed) <= Requests
    BY DEF CampaignInv, Funds
  <2>2. IsFiniteSet(Reserved \cup Owed)
    BY OperationAssumption, FS_Subset DEF Reserved, Owed
  <2>3. Cardinality(Reserved) <= Cardinality(Reserved \cup Owed) /\ Cardinality(Reserved) \in Nat
        /\ Cardinality(Reserved \cup Owed) \in Nat
    BY <2>2, FS_Subset, FS_CardinalityType
  <2> QED BY <2>1, <2>3, RequestsAssumption DEF AllocationHeld
<1> QED BY <1>1, CampaignInvariant, PTL

(* A node's parent in the tree is the generation its proposal was asked    *)
(* for, also when a restart finished the expansion.                        *)
THEOREM TreeNamesParents == Spec => []ParentsAreTrue
<1>1. CampaignInv => ParentsAreTrue
  <2> SUFFICES ASSUME CampaignInv, history # <<>> , NEW i \in 2..Len(Now.evaluated)
               PROVE  intent[<<"proposal", i - 2, NoCase>>] = Now.evaluated[Now.parent[i]]
    BY DEF ParentsAreTrue
  <2> QED BY NowHolds DEF Holds, TreeFits, Proposal
<1> QED BY <1>1, CampaignInvariant, PTL

(* Only a prompt whose every canary passed is retained or put to work.     *)
THEOREM WorkIsProven == Spec => []OnlyProvenPromptsWork
<1>1. CampaignInv => OnlyProvenPromptsWork
  <2> SUFFICES ASSUME CampaignInv PROVE OnlyProvenPromptsWork
    OBVIOUS
  <2>1. history # <<>> => \A g \in ToSet(Now.retained) : Proven(g)
    BY NowHolds DEF Holds
  <2>2. \A t \in TaskName : intent[<<"task", 0, t>>] # None => Proven(intent[<<"task", 0, t>>])
    BY DEF CampaignInv, Grades
  <2> QED BY <2>1, <2>2 DEF OnlyProvenPromptsWork
<1> QED BY <1>1, CampaignInvariant, PTL

(* What a winner of a search is. *)
LEMMA WinnersQualify ==
  ASSUME NEW st, NEW g \in Winners(st)
  PROVE  \E i \in 2..Len(st.evaluated) : st.evaluated[i] = g /\ Eligible(i)
BY DEF Winners

(* The selection is made of the evaluations alone. *)
LEMMA SelectionIsOfEvaluations ==
  ASSUME NEW st, NEW before, st.evaluated = before.evaluated
  PROVE  Winners(st) = Winners(before) /\ Selected(st) = Selected(before)
<1>1. Winners(st) = Winners(before)
  BY DEF Winners
<1> QED BY <1>1 DEF Selected

(* Whatever served besides the base prompt was approved by a human, and    *)
(* gained without a regression.                                            *)
THEOREM HumansDecide == Spec => []HumanGate
<1>1. CampaignInv => HumanGate
  <2> SUFFICES ASSUME CampaignInv, NEW g \in served \ {Base}
               PROVE  Approved(g) /\ Qualified(g)
    BY DEF HumanGate
  <2>1. history # <<>>
    BY DEF CampaignInv, Served
  <2>2. Now \in LiveState /\ Reviewed(Now) /\ Backed(Now, Len(history)) /\ g \in Chosen(Now)
    BY <2>1, NowHolds DEF Holds, Shape
  <2>3. /\ Now.review # None /\ Now.phase \notin {"awaiting_review", "rejected"}
        /\ g = Now.review.request.candidate
    BY <2>2 DEF Chosen
  <2>4. /\ Now.review.decision # None /\ Now.review.decision.candidate = g
        /\ Now.review.decision.outcome = "approved" /\ Now.review.decision \in decisions
    BY <2>2, <2>3 DEF Reviewed, Backed
  <2>5. Approved(g)
    BY <2>4 DEF Approved, CampaignInv, Decided
  <2>6. PICK seq, before : seq = Now.review.request.seq /\ before = history[seq]
    OBVIOUS
  <2>7. before.evaluated = Now.evaluated /\ g \in Winners(before)
    BY <2>2, <2>3, <2>6 DEF Backed
  <2>8. \E i \in 2..Len(Now.evaluated) : Now.evaluated[i] = g /\ Eligible(i)
    BY <2>7, WinnersQualify, SelectionIsOfEvaluations
  <2> QED BY <2>5, <2>8 DEF Qualified
<1> QED BY <1>1, CampaignInvariant, PTL

(* The loader accepts whatever a supervisor, or a crash of one, leaves.    *)
LEMMA SnapshotAccepted ==
  ASSUME CampaignInv, NEW n \in DOMAIN history
  PROVE  SnapshotLoads(n)
<1>1. PICK st : st = history[n]
  OBVIOUS
<1>2. Holds(st, n)
  BY <1>1 DEF CampaignInv, Snapshots
<1>3. st \in LiveState /\ Searched(st) /\ Reviewed(st) /\ Retains(st) /\ IsGraded(st) /\ TreeFits(st) /\ Backed(st, n)
  BY <1>2 DEF Holds, Shape
<1>4. n = 1 => st = Prepared
  BY <1>1 DEF CampaignInv, Snapshots
<1>5. n > 1 => Candidates(st) >= Candidates(history[n-1])
  BY <1>1 DEF CampaignInv, Snapshots
<1>6. Candidates(st) <= CandidateLimit
  <2>1. Len(st.evaluated) \in Nat /\ CandidateLimit \in Nat /\ Len(st.evaluated) <= CandidateLimit + 1
    BY <1>3, PlanAssumption DEF LiveState, Searched
  <2> QED BY <2>1 DEF Candidates
<1>7. st.retained[1] = Base
  <2>1. st.retained = <<Base>> \/ \E g : st.retained = <<Base, g>>
    BY <1>3 DEF Retains
  <2> QED BY <2>1
<1>8. ToSet(st.retained) \cup ToSet(st.evaluated) \cup {st.active} \subseteq stored
  BY <1>2 DEF Holds
<1>9. \A i \in DOMAIN st.evaluated, k \in ToSet(EvaluatedCases) :
        intent[EvalOp(i, k)] = st.evaluated[i] /\ receipt[EvalOp(i, k)] \in Verdict
  BY <1>3 DEF IsGraded, GradedAs, Cases
<1>10. st.rounds <= MaxRounds /\ Explored(Tree(st), st.rounds, Strategy, MaxParallelism, CandidateLimit)
  BY <1>3 DEF Searched, TreeFits
<1>11. PICK seq, before : seq = st.review.request.seq /\ before = history[seq]
  OBVIOUS
<1>12. st.review # None =>
         /\ st.review.request \in reviews /\ seq \in 1..(n - 1) /\ before.evaluated = st.evaluated
         /\ Selected(before) = st.review.request.candidate
         /\ st.review.request = Request(before, seq, st.review.request.candidate)
         /\ st.review.decision # None => st.review.decision \in decisions
  BY <1>3, <1>11 DEF Backed
<1>13. st.active # Base => st.active = Selected(st)
  <2> SUFFICES ASSUME st.active # Base PROVE st.active = Selected(st)
    OBVIOUS
  <2>1. st.active \in Chosen(st)
    <3>1. CASE st.phase = "probe"
      BY <1>3, <3>1 DEF Retains
    <3>2. CASE st.phase # "probe"
      <4>1. st.retained = <<Base>> \/ \E g \in Chosen(st) : st.retained = <<Base, g>>
        BY <1>3, <3>2 DEF Retains
      <4>2. ToSet(st.retained) \subseteq {Base} \cup Chosen(st)
        BY <4>1 DEF ToSet
      <4> QED BY <1>3, <3>2, <4>2 DEF Retains
    <3> QED BY <3>1, <3>2
  <2>2. st.review # None /\ st.active = st.review.request.candidate
    BY <2>1 DEF Chosen
  <2> QED BY <1>12, <2>2, SelectionIsOfEvaluations
<1>14. ReviewLoads(n)
  <2>1. n \in Nat /\ (st.review # None => seq < n)
    BY <1>12 DEF CampaignInv, Types
  <2>2. st.phase = "awaiting_review" => st.review # None
    BY <1>3 DEF Reviewed
  <2>3. st.review # None =>
          /\ st.phase = "awaiting_review" => st.review.decision = None
          /\ st.phase = "rejected" => st.review.decision.outcome = "rejected"
          /\ st.phase \in {"probe", "complete", "rolled_back"} => st.review.decision.outcome = "approved"
    BY <1>3 DEF Reviewed
  <2> QED BY <1>1, <1>11, <1>12, <2>1, <2>2, <2>3 DEF ReviewLoads
<1> QED BY <1>1, <1>4, <1>5, <1>6, <1>7, <1>8, <1>9, <1>10, <1>13, <1>14 DEF SnapshotLoads

(* How far a snapshot can be from the first one: every phase is reached    *)
(* once, every round adds one, and only a rolled back campaign goes on.    *)
Young == Searching \cup {"awaiting_review", "probe"}
Latest(st) ==
  st.rounds + IF st.phase = "prepared" THEN 1
              ELSE IF st.phase \in {"baseline", "search"} THEN 2
              ELSE IF st.phase = "awaiting_review" THEN 3
              ELSE IF st.phase \in {"probe", "rejected"} THEN 4 ELSE 5

Lagging == IF run.at = "point" THEN 1 ELSE 0
Lasting ==
  /\ crashes \in Nat
  /\ \A n \in DOMAIN history : history[n].phase = "rolled_back" \/ n <= Latest(history[n])
  /\ Len(history) <= HistoryLimit
       \/ (Len(history) = HistoryLimit + 1 /\ Now.phase = "rolled_back")
  /\ Len(history) - Published <= crashes + Lagging

(* What a command appends, and what it leaves alone. *)
Extends(st) == /\ history' = Append(history, st) /\ pointer' = pointer /\ crashes' = crashes
               /\ run.at # "point" /\ run'.at = "point"
Advances(st) ==
  \/ history = <<>> /\ st = Prepared
  \/ /\ history # <<>> /\ Now.phase \in Young
     /\ st.phase = "rolled_back" \/ (Latest(st) \in Nat /\ Latest(st) >= Latest(Now) + 1)
  \/ /\ history # <<>> /\ Len(history) <= HistoryLimit /\ st.phase = "rolled_back"
Keeps == /\ history' = history
         /\ \/ pointer' = Current /\ history # <<>>
            \/ pointer' = pointer /\ run'.at = run.at
            \/ pointer' = pointer /\ run.at # "point"
            \/ pointer' = pointer /\ crashes' = crashes + 1
         /\ crashes' = crashes \/ crashes' = crashes + 1

LEMMA SavingExtends ==
  ASSUME CampaignInv, NEW st, NEW next, SaveState(st, next), Stay, run.at # "point"
  PROVE  Extends(st)
BY DEF CampaignInv, Types, SaveState, Stay, Extends

LEMMA StoppingAdvances ==
  ASSUME CampaignInv, NEW code, Stop(code), Stay, run.at # "point",
         history # <<>>, Now.phase \in Young
  PROVE  \E st : Extends(st) /\ Advances(st)
<1>1. PICK st : st = [Now EXCEPT !.phase = "failed", !.active = Last(Now.retained), !.error = code]
  OBVIOUS
<1>2. Extends(st)
  BY <1>1, SavingExtends DEF Stop
<1>3. Now \in LiveState
  BY NowHolds
<1>4. st.rounds = Now.rounds /\ st.phase = "failed" /\ Now.rounds \in Nat
  BY <1>1, <1>3 DEF LiveState
<1>5. Advances(st)
  BY <1>4 DEF Advances, Latest, Young, Searching
<1> QED BY <1>2, <1>5

(* The steps of the run command. *)
LEMMA RunAdvances ==
  ASSUME CampaignInv,
         RunGraded \/ RunRound \/ RunExpanded \/ RunSelect \/ RunStage
  PROVE  Keeps \/ \E st : Extends(st) /\ Advances(st)
<1>1. history # <<>> /\ Now.phase \in Searching /\ run.at # "point"
  BY DEF RunGraded, RunRound, RunExpanded, RunSelect, RunStage, Busy, CampaignInv, Place, Phase, Now, Searching
<1>2. Now \in LiveState /\ Now.rounds \in Nat
  BY <1>1, NowHolds DEF LiveState
<1>3. Stay
  BY DEF RunGraded, RunRound, RunExpanded, RunSelect, RunStage
<1>4. \A code : Stop(code) => \E st : Extends(st) /\ Advances(st)
  BY <1>1, <1>3, StoppingAdvances DEF Young
<1>5. \A st, next : SaveState(st, next) => Extends(st)
  BY <1>1, <1>3, SavingExtends
<1>6. CASE RunGraded
  <2>1. PICK st : st = [Now EXCEPT !.phase = "baseline", !.evaluated = <<Base>>, !.parent = <<0>>, !.round = <<0>>]
    OBVIOUS
  <2>2. st.phase = "baseline" /\ st.rounds = Now.rounds /\ Now.phase = "prepared"
    BY <1>2, <1>6, <2>1 DEF LiveState, RunGraded, Busy, CampaignInv, Place, Phase, Now
  <2>3. Advances(st)
    BY <1>1, <1>2, <2>2 DEF Advances, Latest, Young
  <2>4. (\E code : Stop(code)) \/ SaveState(st, "round")
    BY <1>6, <2>1 DEF RunGraded
  <2> QED BY <1>4, <1>5, <2>3, <2>4
<1>7. CASE RunRound
  <2>1. (\E code : Stop(code)) \/ (UNCHANGED durable /\ UNCHANGED crashes)
    BY <1>3, <1>7 DEF RunRound, Stay
  <2> QED BY <1>1, <1>4, <2>1 DEF Keeps, durable
<1>8. CASE RunExpanded
  <2>1. PICK n : n = Cardinality({c \in Caller : chain[c].kind = "ended"})
    OBVIOUS
  <2>2. PICK st : st = [Now EXCEPT !.phase = "search", !.rounds = @ + 1,
                            !.evaluated = @ \o [c \in 1..n |-> chain[c].gen],
                            !.parent = @ \o FirstOf(Batch, n),
                            !.round = @ \o [c \in 1..n |-> Now.rounds + 1]]
    OBVIOUS
  <2>3. st.phase = "search" /\ st.rounds = Now.rounds + 1
    BY <1>2, <2>2 DEF LiveState
  <2>4. Now.phase \in {"baseline", "search"}
    BY <1>8 DEF RunExpanded, Busy, CampaignInv, Place, Phase, Now
  <2>5. Advances(st)
    BY <1>1, <1>2, <2>3, <2>4 DEF Advances, Latest, Young, Searching
  <2>6. (\E code : Stop(code)) \/ SaveState(st, "round")
    BY <1>8, <2>1, <2>2 DEF RunExpanded
  <2> QED BY <1>4, <1>5, <2>5, <2>6
<1>9. CASE RunSelect
  <2>1. PICK st : st = [Now EXCEPT !.phase = "complete"]
    OBVIOUS
  <2>2. st.phase = "complete" /\ st.rounds = Now.rounds
    BY <1>2, <2>1 DEF LiveState
  <2>3. Advances(st)
    BY <1>1, <1>2, <2>2 DEF Advances, Latest, Young, Searching
  <2>4. SaveState(st, "release") \/ UNCHANGED <<history, pointer, crashes>>
    BY <1>3, <1>9, <2>1 DEF RunSelect, Stay
  <2> QED BY <1>1, <1>5, <2>3, <2>4 DEF Keeps
<1>10. CASE RunStage
  <2>1. PICK st : st = [Now EXCEPT !.phase = "awaiting_review",
                          !.review = [request |-> Request(Now, Len(history), Selected(Now)), decision |-> None]]
    OBVIOUS
  <2>2. st.phase = "awaiting_review" /\ st.rounds = Now.rounds
    BY <1>2, <2>1 DEF LiveState
  <2>3. Now.phase \in {"baseline", "search"}
    BY <1>10 DEF RunStage, Busy, CampaignInv, Place, Phase, Now
  <2>4. Advances(st)
    BY <1>1, <1>2, <2>2, <2>3 DEF Advances, Latest, Young, Searching
  <2>5. SaveState(st, "release")
    BY <1>10, <2>1 DEF RunStage
  <2> QED BY <1>5, <2>4, <2>5
<1> QED BY <1>6, <1>7, <1>8, <1>9, <1>10

(* The steps of promote, reject and rollback. *)
LEMMA DecisionAdvances ==
  ASSUME CampaignInv,
         \/ PromoteAuthorize \/ PromoteDecide \/ PromoteActivate \/ PromoteResume \/ PromoteVerify
         \/ RejectLoad \/ RejectRecord
  PROVE  Keeps \/ \E st : Extends(st) /\ Advances(st)
<1>1. run.at # "point" /\ Stay
  BY DEF PromoteAuthorize, PromoteDecide, PromoteActivate, PromoteResume, PromoteVerify, RejectLoad, RejectRecord, Busy
<1>2. RejectLoad \/ (history # <<>> /\ Now.phase \in {"awaiting_review", "probe"})
  BY DEF PromoteAuthorize, PromoteDecide, PromoteActivate, PromoteResume, PromoteVerify, RejectRecord,
         Busy, CampaignInv, Place, Phase, Now
<1>3. history # <<>> => Now \in LiveState /\ Now.rounds \in Nat
  BY NowHolds DEF LiveState
<1>4. ASSUME history # <<>>, Now.phase \in {"awaiting_review", "probe"}, NEW code, Stop(code)
      PROVE  \E st : Extends(st) /\ Advances(st)
  BY <1>1, <1>4, StoppingAdvances DEF Young
<1>5. \A st, next : SaveState(st, next) => Extends(st)
  BY <1>1, SavingExtends
<1>6. UNCHANGED <<history, pointer, crashes>> => Keeps
  BY <1>1 DEF Keeps
<1>7. ASSUME history # <<>>, Now.phase \in {"awaiting_review", "probe"}, PromoteFails
      PROVE  Keeps \/ \E st : Extends(st) /\ Advances(st)
  BY <1>1, <1>4, <1>6, <1>7 DEF PromoteFails, durable, Stay
<1>8. CASE PromoteAuthorize
  BY <1>1, <1>2, <1>6, <1>7, <1>8 DEF PromoteAuthorize, RejectLoad, Busy, durable, Stay
<1>9. CASE PromoteDecide
  BY <1>1, <1>2, <1>6, <1>7, <1>9 DEF PromoteDecide, RejectLoad, Busy, durable, Stay
<1>10. CASE PromoteResume
  <2>1. history # <<>> /\ Now.phase \in {"awaiting_review", "probe"}
    BY <1>2, <1>10 DEF PromoteResume, RejectLoad, Busy
  <2>2. PublishPointer => Keeps
    BY <1>1, <2>1 DEF PublishPointer, Keeps, Stay
  <2> QED BY <1>7, <1>10, <2>1, <2>2 DEF PromoteResume
<1>11. CASE PromoteActivate
  <2>1. PICK st : st = [Now EXCEPT !.phase = "probe", !.active = Now.review.request.candidate,
                           !.review.decision = Decision("approved")]
    OBVIOUS
  <2>2. history # <<>> /\ Now.phase = "awaiting_review"
    BY <1>11 DEF PromoteActivate, Busy, CampaignInv, Place, Phase, Now
  <2>3. st.phase = "probe" /\ st.rounds = Now.rounds
    BY <1>3, <2>1, <2>2 DEF LiveState
  <2>4. Advances(st)
    BY <1>3, <2>2, <2>3 DEF Advances, Latest, Young
  <2>5. SaveState(st, "canary")
    BY <1>11, <2>1 DEF PromoteActivate
  <2> QED BY <1>5, <2>4, <2>5
<1>12. CASE PromoteVerify
  <2>1. PICK back : back = [Now EXCEPT !.phase = "rolled_back", !.active = Last(Now.retained),
                              !.error = "LIVE_CANARY_REGRESSION"]
    OBVIOUS
  <2>2. PICK done : done = [Now EXCEPT !.phase = "complete",
                              !.retained = IF Now.active \in ToSet(@) THEN @ ELSE Append(@, Now.active)]
    OBVIOUS
  <2>3. history # <<>> /\ Now.phase = "probe"
    BY <1>12 DEF PromoteVerify, Busy, CampaignInv, Place, Phase, Now
  <2>4. back.phase = "rolled_back" /\ done.phase = "complete" /\ done.rounds = Now.rounds
    BY <1>3, <2>1, <2>2, <2>3 DEF LiveState
  <2>5. Advances(back) /\ Advances(done)
    BY <1>3, <2>3, <2>4 DEF Advances, Latest, Young
  <2>6. (\E code : Stop(code)) \/ SaveState(back, "release") \/ SaveState(done, "release")
    BY <1>12, <2>1, <2>2 DEF PromoteVerify
  <2> QED BY <1>4, <1>5, <2>3, <2>5, <2>6
<1>13. CASE RejectLoad
  BY <1>1, <1>6, <1>13 DEF RejectLoad, durable, Stay
<1>14. CASE RejectRecord
  <2>1. PICK st : st = [Now EXCEPT !.phase = "rejected", !.error = "LIVE_REVIEW_REJECTED",
                           !.review.decision = Decision("rejected")]
    OBVIOUS
  <2>2. history # <<>> /\ Now.phase = "awaiting_review"
    BY <1>14 DEF RejectRecord, Busy, CampaignInv, Place, Phase, Now
  <2>3. st.phase = "rejected" /\ st.rounds = Now.rounds
    BY <1>3, <2>1, <2>2 DEF LiveState
  <2>4. Advances(st)
    BY <1>3, <2>2, <2>3 DEF Advances, Latest, Young
  <2>5. SaveState(st, "release")
    BY <1>14, <2>1 DEF RejectRecord
  <2> QED BY <1>5, <2>4, <2>5
<1> QED BY <1>8, <1>9, <1>10, <1>11, <1>12, <1>13, <1>14

(* Every other step leaves the history, or rolls back a settled campaign.  *)
LEMMA StepAdvances ==
  ASSUME CampaignInv, [Next]_vars
  PROVE  Keeps \/ \E st : Extends(st) /\ Advances(st)
<1>1. DOMAIN run = {"cmd", "at", "next", "arg"} /\ (lease = "free" => run.at # "point")
  BY DEF CampaignInv, Types, Place
<1>2. CASE Command
  <2>1. PICK cmd, arg : Start(cmd, arg)
    BY <1>2 DEF Command, StartPrepare, StartRun, StartPromote, StartReject, StartRollback, StartTask
  <2> QED BY <1>1, <2>1 DEF Start, durable, Keeps
<1>3. CASE Supervise
  <2>1. CASE Point
    <3>1. history # <<>>
      BY <2>1 DEF Point, CampaignInv, Place
    <3> QED BY <2>1, <3>1 DEF Point, PublishPointer, Keeps
  <2>2. CASE Unlease
    BY <2>2 DEF Unlease, durable, Keeps
  <2>3. CASE PrepareFiles
    BY <2>3 DEF PrepareFiles, Busy, Stay, Keeps
  <2>4. CASE PrepareState
    <3>1. run.at # "point" /\ Stay
      BY <2>4 DEF PrepareState, Busy
    <3>2. CASE history = <<>>
      BY <2>4, <3>1, <3>2, SavingExtends DEF PrepareState, Advances
    <3>3. CASE history # <<>>
      BY <2>4, <3>1, <3>3 DEF PrepareState, durable, Stay, Keeps
    <3> QED BY <3>2, <3>3
  <2>5. CASE RunLoad
    <3>1. run.at # "point" /\ Stay
      BY <2>5 DEF RunLoad, Busy
    <3>2. (history # <<>> /\ PublishPointer) \/ UNCHANGED durable
      BY <2>5 DEF RunLoad, Loads
    <3> QED BY <3>1, <3>2 DEF PublishPointer, durable, Stay, Keeps
  <2>6. CASE RunBaseline
    BY <2>6 DEF RunBaseline, Busy, durable, Stay, Keeps
  <2>7. CASE RunGraded \/ RunRound \/ RunExpanded \/ RunSelect \/ RunStage
    BY <2>7, RunAdvances
  <2>8. CASE PromoteLoad
    BY <2>8 DEF PromoteLoad, Busy, durable, Stay, Keeps
  <2>9. CASE PromoteCanary
    BY <2>9 DEF PromoteCanary, Busy, durable, Stay, Keeps
  <2>10. CASE \/ PromoteAuthorize \/ PromoteDecide \/ PromoteActivate \/ PromoteResume \/ PromoteVerify
              \/ RejectLoad \/ RejectRecord
    BY <2>10, DecisionAdvances
  <2>11. CASE Rollback
    <3>1. run.at # "point" /\ Stay
      BY <2>11 DEF Rollback, Busy
    <3>2. PICK active, kept, st : st = [Now EXCEPT !.phase = "rolled_back", !.active = active,
                                             !.retained = kept, !.error = None]
                           /\ (Serving => SaveState(st, "release"))
      BY <2>11 DEF Rollback
    <3>3. CASE Serving
      <4>1. history # <<>> /\ Len(history) <= HistoryLimit
        BY <3>3 DEF Serving, Loads
      <4>2. st.phase = "rolled_back"
        BY <3>2, <4>1, NowHolds DEF LiveState
      <4> QED BY <3>1, <3>2, <3>3, <4>1, <4>2, SavingExtends DEF Advances
    <3>4. CASE ~Serving
      BY <2>11, <3>1, <3>4 DEF Rollback, durable, Stay, Keeps
    <3> QED BY <3>3, <3>4
  <2>12. CASE TaskLoad \/ TaskDone
    BY <2>12 DEF TaskLoad, TaskDone, Busy, durable, Stay, Keeps
  <2> QED BY <1>3, <2>1, <2>2, <2>3, <2>4, <2>5, <2>6, <2>7, <2>8, <2>9, <2>10, <2>11, <2>12 DEF Supervise
<1>4. CASE \E c \in Caller : Chain(c)
  <2>1. UNCHANGED <<history, pointer, run, crashes>>
    BY <1>4 DEF Chain, Call, Open, Graded, Proposed, StoreGeneration, Broken, Elsewhere, durable
  <2> QED BY <2>1 DEF Keeps
<1>5. CASE Review \/ Authority \/ Recover
  BY <1>5 DEF Review, Authority, Recover, Elsewhere, durable, Keeps
<1>6. CASE Crash
  BY <1>6 DEF Crash, durable, Keeps
<1>7. CASE UNCHANGED vars
  BY <1>7 DEF vars, durable, Keeps
<1> QED BY <1>2, <1>3, <1>4, <1>5, <1>6, <1>7 DEF Next

(* A step of that kind keeps what Lasting says of lengths. *)
LEMMA NowIsYoung ==
  ASSUME CampaignInv, Lasting, history # <<>>, Now.phase # "rolled_back"
  PROVE  Len(history) <= Latest(Now)
<1>1. Len(history) \in DOMAIN history
  BY DEF CampaignInv, Types
<1> QED BY <1>1 DEF Lasting, Now

LEMMA LastingAppends ==
  ASSUME CampaignInv, Lasting, NEW st, Extends(st), Advances(st)
  PROVE  Lasting'
<1>1. /\ history \in Seq(LiveState) /\ Len(history) \in Nat /\ DOMAIN history = 1..Len(history)
      /\ pointer \in Pointer \cup {None} /\ MaxRounds \in Nat /\ HistoryLimit \in Nat
      /\ MaxRounds + 5 <= HistoryLimit /\ crashes \in Nat
  BY PlanAssumption, HistoryAssumption DEF CampaignInv, Types, Lasting
<1>2. PICK len : len = Len(history)
  OBVIOUS
<1>3. /\ Len(history') = len + 1 /\ DOMAIN history' = 1..(len + 1)
      /\ \A n \in 1..len : history'[n] = history[n]
      /\ history'[len + 1] = st
  BY <1>1, <1>2 DEF Extends
<1>4. Now' = st
  BY <1>3 DEF Now
<1>5. st.phase = "rolled_back" \/ (len + 1 <= Latest(st) /\ len + 1 <= MaxRounds + 5)
  <2>1. CASE history = <<>> /\ st = Prepared
    BY <1>1, <1>2, <2>1 DEF Prepared, Latest
  <2>2. CASE history # <<>> /\ Now.phase \in Young
           /\ (st.phase = "rolled_back" \/ (Latest(st) \in Nat /\ Latest(st) >= Latest(Now) + 1))
    <3>1. Now.rounds \in Nat /\ Now.rounds <= MaxRounds
      BY <2>2, NowHolds DEF LiveState, Shape, Searched
    <3>2. Len(history) <= Latest(Now) /\ Latest(Now) \in Nat /\ Latest(Now) <= MaxRounds + 4
      BY <1>1, <2>2, <3>1, NowIsYoung DEF Latest, Young, Searching
    <3>3. CASE st.phase # "rolled_back"
      <4>1. len + 1 <= Latest(Now) + 1 /\ len + 1 <= MaxRounds + 5
        BY <1>1, <1>2, <3>2
      <4>2. PICK a, b : a = Latest(Now) /\ b = Latest(st)
        OBVIOUS
      <4> QED BY <1>1, <1>2, <2>2, <3>2, <4>1, <4>2
    <3> QED BY <3>3
  <2> QED BY <2>1, <2>2 DEF Advances
<1>6. \A n \in DOMAIN history' : history'[n].phase = "rolled_back" \/ n <= Latest(history'[n])
  <2> SUFFICES ASSUME NEW n \in 1..(len + 1)
               PROVE  history'[n].phase = "rolled_back" \/ n <= Latest(history'[n])
    BY <1>3
  <2>1. CASE n = len + 1
    BY <1>3, <1>5, <2>1
  <2>2. CASE n # len + 1
    <3>1. n \in 1..len
      BY <1>1, <1>2, <2>2
    <3> QED BY <1>1, <1>2, <1>3, <3>1 DEF Lasting
  <2> QED BY <2>1, <2>2
<1>7. len + 1 <= HistoryLimit \/ (len + 1 = HistoryLimit + 1 /\ st.phase = "rolled_back")
  <2>1. CASE st.phase # "rolled_back"
    BY <1>1, <1>2, <1>5, <2>1
  <2>2. CASE st.phase = "rolled_back" /\ history # <<>> /\ len <= HistoryLimit
    BY <1>1, <1>2, <2>2
  <2>3. CASE history # <<>> /\ Now.phase \in Young
    <3>1. Now.phase # "rolled_back"
      BY <2>3 DEF Young, Searching
    <3> QED BY <1>1, <1>2, <2>1, <2>2, <2>3, <3>1 DEF Lasting
  <2> QED BY <1>2, <2>1, <2>2, <2>3 DEF Advances, Prepared
<1>8. Len(history') - Published' <= crashes' + Lagging'
  <2>1. Published \in Nat /\ Published' = Published /\ crashes' = crashes
    BY <1>1 DEF Published, Pointer, Extends
  <2>2. len - Published <= crashes
    <3>1. Lagging = 0
      BY DEF Lagging, Extends
    <3>2. Len(history) - Published <= crashes + Lagging /\ crashes \in Nat
      BY DEF Lasting
    <3> QED BY <1>2, <2>1, <3>1, <3>2
  <2>3. Lagging' = 1
    BY DEF Lagging, Extends
  <2>4. PICK p, c, l : p = Published' /\ c = crashes' /\ l = Lagging'
    OBVIOUS
  <2>5. p \in Nat /\ c \in Nat /\ l = 1 /\ len \in Nat /\ len - p <= c
    BY <1>1, <1>2, <2>1, <2>2, <2>3, <2>4
  <2>6. PICK m : m = Len(history')
    OBVIOUS
  <2>7. m = len + 1
    BY <1>3, <2>6
  <2>8. m - p <= c + l
    BY <2>5, <2>7
  <2> QED BY <2>4, <2>6, <2>8
<1>9. crashes' \in Nat
  BY <1>1 DEF Extends
<1>10. Len(history') <= HistoryLimit \/ (Len(history') = HistoryLimit + 1 /\ Now'.phase = "rolled_back")
  BY <1>3, <1>4, <1>7
<1> QED BY <1>6, <1>8, <1>9, <1>10 DEF Lasting

LEMMA LastingStands ==
  ASSUME CampaignInv, Lasting, Keeps
  PROVE  Lasting'
<1>1. /\ Len(history) \in Nat /\ pointer \in Pointer \cup {None} /\ crashes \in Nat
      /\ history' = history
  BY DEF CampaignInv, Types, Lasting, Keeps
<1>2. crashes' \in Nat /\ crashes' >= crashes /\ Published \in Nat
  BY <1>1 DEF Keeps, Published, Pointer
<1>3. Len(history) - Published' <= crashes' + Lagging'
  <2>1. Lagging \in {0, 1} /\ Lagging' \in {0, 1}
    BY DEF Lagging
  <2>2. CASE pointer' = Current /\ history # <<>>
    <3>1. Published' = Len(history)
      <4>1. Current \in Pointer
        BY NowHolds, <1>1, <2>2 DEF Current, Pointer, LiveState
      <4>2. pointer' # None
        BY <2>2, <4>1, NoneIsNothing
      <4>3. pointer'.seq = Len(history)
        BY <2>2 DEF Current
      <4> QED BY <4>2, <4>3 DEF Published
    <3>2. PICK n, c, l : n = Len(history) /\ c = crashes' /\ l = Lagging'
      OBVIOUS
    <3>3. n \in Nat /\ c \in Nat /\ l \in {0, 1}
      BY <1>1, <1>2, <2>1, <3>2
    <3>4. n - n <= c + l
      BY <3>3
    <3> QED BY <3>1, <3>2, <3>4
  <2>3. CASE pointer' = pointer
    <3>1. Published' = Published /\ Len(history) - Published <= crashes + Lagging
      BY <2>3 DEF Published, Lasting
    <3>2. run'.at = run.at \/ run.at # "point" \/ crashes' = crashes + 1
             \/ (pointer' = Current /\ history # <<>>)
      BY DEF Keeps
    <3>3. run'.at = run.at => Lagging' = Lagging
      BY DEF Lagging
    <3>4. run.at # "point" => Lagging = 0
      BY DEF Lagging
    <3> QED BY <1>1, <1>2, <2>1, <2>2, <3>1, <3>2, <3>3, <3>4
  <2> QED BY <2>2, <2>3 DEF Keeps
<1>4. Now' = Now
  BY <1>1 DEF Now
<1> QED BY <1>1, <1>2, <1>3, <1>4 DEF Lasting

(* Of the snapshots, those that follow the first MaxRounds + 5 are roll-   *)
(* backs; the loader refuses one snapshot, which is the last of those; and *)
(* the pointer is behind by no more publications than there were crashes.  *)
(* All of it holds for any plan and any number of commands and crashes.    *)
THEOREM LoaderAccepts == Spec => []HistoryAccepted
<1>1. Init => Lasting
  BY HistoryAssumption, PlanAssumption, NoneIsNothing DEF Init, Lasting, Published, Lagging, NoRun
<1>2. CampaignInv /\ Lasting /\ [Next]_vars => Lasting'
  BY StepAdvances, LastingAppends, LastingStands
<1>3. CampaignInv /\ Lasting => HistoryAccepted
  <2> SUFFICES ASSUME CampaignInv, Lasting, run.at = "load", history # <<>>
               PROVE  HistoryLoads /\ (Len(history) <= HistoryLimit \/ OverLimit) /\ PointerFollows
    BY DEF HistoryAccepted
  <2>1. HistoryLoads
    BY SnapshotAccepted DEF HistoryLoads
  <2>2. MaxRounds \in Nat /\ HistoryLimit \in Nat /\ Len(history) \in Nat
        /\ DOMAIN history = 1..Len(history) /\ history \in Seq(LiveState) /\ crashes \in Nat
    BY PlanAssumption, HistoryAssumption DEF CampaignInv, Types, Lasting
  <2>3. ASSUME NEW n \in (Settling + 1)..Len(history)
        PROVE  history[n].phase = "rolled_back"
    <3>1. n \in DOMAIN history /\ n > MaxRounds + 5 /\ n \in Nat
      BY <2>2 DEF Settling
    <3>2. history[n].rounds \in Nat /\ history[n].rounds <= MaxRounds
      BY <3>1 DEF CampaignInv, Snapshots, Holds, Shape, Searched, LiveState
    <3>3. Latest(history[n]) <= MaxRounds + 5 /\ Latest(history[n]) \in Nat
      BY <2>2, <3>2 DEF Latest
    <3>4. n > Latest(history[n])
      BY <2>2, <3>1, <3>3
    <3> QED BY <3>1, <3>3, <3>4 DEF Lasting
  <2>4. Len(history) <= HistoryLimit \/ OverLimit
    BY <2>3 DEF Lasting, OverLimit
  <2>5. Len(history) - Published <= crashes
    <3>1. Lagging = 0
      BY DEF Lagging
    <3>2. Len(history) - Published <= crashes + Lagging
      BY DEF Lasting
    <3> QED BY <2>2, <3>1, <3>2
  <2>6. pointer # None => pointer.seq \in DOMAIN history /\ pointer.gen = history[pointer.seq].active
    BY <2>2 DEF CampaignInv, Served
  <2> QED BY <2>1, <2>4, <2>5, <2>6 DEF PointerFollows
<1> QED BY <1>1, <1>2, <1>3, CampaignInvariant, PTL DEF Spec

-------------------------------------------------------------------------------
(* The campaign implements PromptPromotion.  What the abstract variables   *)
(* stand for:                                                              *)
InUse == IF pointer = None THEN Base ELSE pointer.gen
Sanctioned == {d.candidate : d \in {e \in decisions : e.outcome = "approved"}}
Kept == {Base} \cup UNION {ToSet(history[n].retained) : n \in DOMAIN history}

LEMMA PromotionMap ==
  /\ UNCHANGED <<InUse, Sanctioned, Kept, served>> => UNCHANGED Promotion!vars
  /\ \A p \in Generation :
       /\ Sanctioned' = Sanctioned \cup {p} /\ UNCHANGED <<InUse, Kept, served>> => Promotion!Next
       /\ p \in Sanctioned \ served /\ InUse' = p /\ served' = served \cup {p}
          /\ UNCHANGED <<Sanctioned, Kept>> => Promotion!Next
       /\ p \in Kept /\ InUse' = p /\ served' = served \cup {p}
          /\ UNCHANGED <<Sanctioned, Kept>> => Promotion!Next
  /\ InUse \in Sanctioned /\ Kept' = Kept \cup {InUse}
     /\ UNCHANGED <<InUse, Sanctioned, served>> => Promotion!Next
<1>1. ASSUME UNCHANGED <<InUse, Sanctioned, Kept, served>>
      PROVE  UNCHANGED Promotion!vars
  BY <1>1 DEF Promotion!vars, InUse, Sanctioned, Kept
<1>2. ASSUME NEW p \in Generation, Sanctioned' = Sanctioned \cup {p}, UNCHANGED <<InUse, Kept, served>>
      PROVE  Promotion!Next
  <2>1. Promotion!Approve(p)
    BY <1>2 DEF Promotion!Approve, InUse, Sanctioned, Kept
  <2> QED BY <2>1 DEF Promotion!Next
<1>3. ASSUME NEW p \in Generation, p \in Sanctioned \ served, InUse' = p, served' = served \cup {p},
             UNCHANGED <<Sanctioned, Kept>>
      PROVE  Promotion!Next
  <2>1. Promotion!Activate(p)
    BY <1>3 DEF Promotion!Activate, InUse, Sanctioned, Kept
  <2> QED BY <2>1 DEF Promotion!Next
<1>4. ASSUME NEW p \in Generation, p \in Kept, InUse' = p, served' = served \cup {p},
             UNCHANGED <<Sanctioned, Kept>>
      PROVE  Promotion!Next
  <2>1. Promotion!Restore(p)
    BY <1>4 DEF Promotion!Restore, InUse, Sanctioned, Kept
  <2> QED BY <2>1 DEF Promotion!Next
<1>5. ASSUME InUse \in Sanctioned, Kept' = Kept \cup {InUse}, UNCHANGED <<InUse, Sanctioned, served>>
      PROVE  Promotion!Next
  <2>1. Promotion!Keep
    BY <1>5 DEF Promotion!Keep, InUse, Sanctioned, Kept
  <2> QED BY <2>1 DEF Promotion!Next
<1> QED BY <1>1, <1>2, <1>3, <1>4, <1>5

(* What the campaign does to the prompt in use. *)
Promotes == [Promotion!Next]_(Promotion!vars)

LEMMA NothingPromoted ==
  ASSUME UNCHANGED <<history, pointer, decisions, served>>
  PROVE  Promotes
<1>1. UNCHANGED <<InUse, Sanctioned, Kept, served>>
  BY DEF InUse, Sanctioned, Kept
<1> QED BY <1>1, PromotionMap DEF Promotes

(* What was retained by any snapshot, and by one more. *)
LEMMA NowKept == ASSUME CampaignInv, history # <<>> PROVE ToSet(Now.retained) \subseteq Kept /\ Base \in Kept
BY NowFits DEF Kept

LEMMA KeptGrows ==
  ASSUME CampaignInv, CampaignInv', NEW st, history' = Append(history, st)
  PROVE  Kept' = Kept \cup ToSet(st.retained) /\ st \in LiveState
<1>1. history \in Seq(LiveState) /\ history' \in Seq(LiveState)
  BY DEF CampaignInv, Types
<1>2. /\ DOMAIN history' = DOMAIN history \cup {Len(history) + 1}
      /\ \A n \in DOMAIN history : history'[n] = history[n]
      /\ history'[Len(history) + 1] = st
  <2>1. history \in Seq(LiveState \cup {st})
    BY <1>1
  <2>2. /\ Len(history') = Len(history) + 1 /\ DOMAIN history = 1..Len(history) /\ Len(history) \in Nat
        /\ DOMAIN history' = 1..Len(history') /\ history'[Len(history) + 1] = st
        /\ \A n \in 1..Len(history) : history'[n] = history[n]
    BY <2>1
  <2> QED BY <2>2
<1>3. st \in LiveState
  BY <1>1, <1>2
<1>4. Kept' = Kept \cup ToSet(st.retained)
  <2>1. Kept' = {Base} \cup UNION {ToSet(history'[n].retained) : n \in DOMAIN history'}
    BY DEF Kept
  <2> QED BY <1>2, <2>1 DEF Kept
<1> QED BY <1>3, <1>4

(* A snapshot that retains nothing new. *)
LEMMA SavePromotes ==
  ASSUME CampaignInv, CampaignInv', NEW st, NEW next, SaveState(st, next), ToSet(st.retained) \subseteq Kept
  PROVE  Promotes
<1>1. history' = Append(history, st) /\ UNCHANGED <<pointer, decisions, served>>
  BY DEF SaveState
<1>2. Kept' = Kept
  BY <1>1, KeptGrows
<1>3. UNCHANGED <<InUse, Sanctioned, Kept, served>>
  BY <1>1, <1>2 DEF InUse, Sanctioned
<1> QED BY <1>3, PromotionMap DEF Promotes

LEMMA SameRetained ==
  ASSUME CampaignInv, CampaignInv', history # <<>>, NEW st, NEW next, SaveState(st, next),
         st.retained = Now.retained
  PROVE  Promotes
BY NowKept, SavePromotes

LEMMA StopPromotes ==
  ASSUME CampaignInv, CampaignInv', history # <<>>, NEW code, Stop(code)
  PROVE  Promotes
<1>1. PICK st : /\ SaveState(st, "release")
                /\ st = [Now EXCEPT !.phase = "failed", !.active = Last(Now.retained), !.error = code]
  BY DEF Stop
<1>2. st.retained = Now.retained
  BY <1>1, NowFits DEF LiveState
<1> QED BY <1>1, <1>2, SameRetained

(* The pointer follows its snapshot: a retained prompt is restored, or an  *)
(* approved one that never served is activated.                            *)
LEMMA PublishPromotes ==
  ASSUME CampaignInv, history # <<>>, PublishPointer
  PROVE  Promotes
<1>1. /\ Current # None /\ Current.gen = Now.active /\ Now.active \in Generation
  BY CurrentFits DEF Current
<1>2. /\ pointer' = Current /\ served' = served \cup {Now.active}
      /\ InUse' = Now.active /\ UNCHANGED <<history, decisions, Sanctioned, Kept>>
  BY <1>1 DEF PublishPointer, InUse, Sanctioned, Kept
<1>3. /\ Holds(Now, Len(history)) /\ Retains(Now) /\ Reviewed(Now) /\ Backed(Now, Len(history))
      /\ ToSet(Now.retained) \subseteq Kept /\ Phase(history) = Now.phase
  BY NowHolds, NowKept, NowFits DEF Shape, Holds
<1>4. CASE pointer = Current
  <2>1. pointer.gen \in served
    BY <1>1, <1>4 DEF CampaignInv, Served
  <2>2. served' = served /\ InUse' = InUse
    BY <1>1, <1>2, <1>4, <2>1 DEF InUse
  <2> QED BY <1>2, <2>2, PromotionMap DEF Promotes
<1>5. CASE Now.phase # "probe"
  <2>1. Now.active \in Kept
    BY <1>3, <1>5 DEF Retains
  <2> QED BY <1>1, <1>2, <2>1, PromotionMap DEF Promotes
<1>6. CASE Now.phase = "probe" /\ pointer # Current
  <2>1. served \subseteq {Base}
    BY <1>3, <1>6 DEF CampaignInv, Served
  <2>2. /\ Now.review # None /\ Now.active = Now.review.request.candidate
        /\ Now.active # Base
    BY <1>3, <1>6 DEF Retains, Chosen, Reviewed
  <2>3. /\ Now.review.decision # None /\ Now.review.decision.candidate = Now.active
        /\ Now.review.decision.outcome = "approved" /\ Now.review.decision \in decisions
    BY <1>3, <1>6, <2>2 DEF Reviewed, Backed
  <2>4. Now.active \in Sanctioned
    BY <2>3 DEF Sanctioned
  <2>5. Now.active \in Sanctioned \ served
    BY <2>1, <2>2, <2>4
  <2> QED BY <1>1, <1>2, <2>5, PromotionMap DEF Promotes
<1> QED BY <1>4, <1>5, <1>6

(* A decision is recorded: only an approval sanctions its candidate.       *)
LEMMA DecisionPromotes ==
  ASSUME CampaignInv, Phase(history) = "awaiting_review", run.cmd \in {"promote", "reject"},
         NEW outcome \in Outcome, decisions' = decisions \cup {Decision(outcome)},
         UNCHANGED <<history, pointer, served>>
  PROVE  Promotes
<1>1. history # <<>> /\ Now.phase = "awaiting_review"
  BY NowFits DEF Phase
<1>2. PICK d : d = Decision(outcome)
  OBVIOUS
<1>3. d.candidate \in Generation /\ d.outcome = outcome /\ decisions' = decisions \cup {d}
  BY <1>1, <1>2, DecisionFits
<1>4. UNCHANGED <<InUse, Kept, served>>
  BY DEF InUse, Kept
<1>5. CASE outcome = "approved"
  <2>1. Sanctioned' = Sanctioned \cup {d.candidate}
    BY <1>3, <1>5 DEF Sanctioned
  <2> QED BY <1>3, <1>4, <2>1, PromotionMap DEF Promotes
<1>6. CASE outcome # "approved"
  <2>1. Sanctioned' = Sanctioned
    BY <1>3, <1>6 DEF Sanctioned
  <2> QED BY <1>4, <2>1, PromotionMap DEF Promotes
<1> QED BY <1>5, <1>6


(* The end of a probe is the only step that retains a prompt it did not    *)
(* retain before, and it retains the one in use.                           *)
LEMMA VerifyPromotes == ASSUME CampaignInv, CampaignInv', PromoteVerify PROVE Promotes
<1>1. /\ run.at = "verify" /\ Phase(history) = "probe" /\ history # <<>> /\ pointer = Current
  BY DEF PromoteVerify, Busy, CampaignInv, Place, Phase, Served
<1>2. /\ Now \in LiveState /\ Retains(Now) /\ Reviewed(Now) /\ Backed(Now, Len(history)) /\ Now.phase = "probe"
      /\ Now.retained = <<Base>> /\ Now.active \in Generation /\ Base \in Generation
  BY <1>1, NowFits, NowHolds, BaseRetained DEF Shape, Holds, LiveState
<1>3. CASE \E code : Stop(code)
  BY <1>1, <1>3, StopPromotes
<1>4. CASE SaveState([Now EXCEPT !.phase = "rolled_back", !.active = Last(Now.retained),
                                 !.error = "LIVE_CANARY_REGRESSION"], "release")
  <2>1. [Now EXCEPT !.phase = "rolled_back", !.active = Last(Now.retained),
                    !.error = "LIVE_CANARY_REGRESSION"].retained = Now.retained
    BY <1>2 DEF LiveState
  <2> QED BY <1>1, <1>4, <2>1, SameRetained
<1>5. CASE SaveState([Now EXCEPT !.phase = "complete",
                           !.retained = IF Now.active \in ToSet(@) THEN @ ELSE Append(@, Now.active)], "release")
  <2>1. PICK st : st = [Now EXCEPT !.phase = "complete",
                           !.retained = IF Now.active \in ToSet(@) THEN @ ELSE Append(@, Now.active)]
    OBVIOUS
  <2>2. history' = Append(history, st) /\ UNCHANGED <<pointer, decisions, served>>
    BY <1>5, <2>1 DEF SaveState
  <2>3. st.retained = IF Now.active \in ToSet(Now.retained) THEN Now.retained ELSE Added(Now.retained, Now.active)
    BY <1>2, <2>1 DEF LiveState, Added
  <2>4. ToSet(st.retained) \subseteq {Base, Now.active} /\ Now.active \in ToSet(st.retained)
    <3>1. PICK one, two : Lists(Generation, Base, Now.active, one, two)
      BY <1>2 DEF Lists
    <3>2. one = <<Base>> /\ two = <<Base, Now.active>> /\ Added(one, Now.active) = two
      BY <3>1, OneOrTwo DEF Lists
    <3>3. /\ ToSet(<<Base>>) = {Base} /\ ToSet(<<Base, Now.active>>) = {Base, Now.active}
      BY DEF ToSet
    <3>4. Now.retained = one
      BY <1>2, <3>2
    <3>5. (st.retained = one /\ Now.active \in ToSet(one)) \/ st.retained = two
      BY <2>3, <3>2, <3>4
    <3> QED BY <3>2, <3>3, <3>5
  <2>5. Kept' = Kept \cup {Now.active}
    BY <2>2, <2>4, KeptGrows DEF Kept
  <2>6. InUse = Now.active
    BY <1>1, CurrentFits DEF InUse, Current
  <2>7. Now.active \in Sanctioned
    <3>1. Now.review # None /\ Now.active = Now.review.request.candidate
      BY <1>2 DEF Retains, Chosen
    <3>2. /\ Now.review.decision.candidate = Now.active
          /\ Now.review.decision.outcome = "approved" /\ Now.review.decision \in decisions
      BY <1>2, <3>1 DEF Reviewed, Backed
    <3> QED BY <3>2 DEF Sanctioned
  <2>8. UNCHANGED <<InUse, Sanctioned, served>>
    BY <2>2 DEF InUse, Sanctioned
  <2> QED BY <2>5, <2>6, <2>7, <2>8, PromotionMap DEF Promotes
<1> QED BY <1>3, <1>4, <1>5 DEF PromoteVerify

(* The other steps of a supervisor.                                        *)
LEMMA RollbackPromotes == ASSUME CampaignInv, CampaignInv', Rollback PROVE Promotes
<1>1. CASE Serving
  <2>1. history # <<>> /\ Now \in LiveState /\ Now.retained \in Seq(Generation)
    BY <1>1, NowFits DEF Serving, Loads, LiveState
  <2>2. PICK below : below = IF Len(Now.retained) > 1 THEN Len(Now.retained) - 1 ELSE 1
    OBVIOUS
  <2>3. PICK st : /\ st = [Now EXCEPT !.phase = "rolled_back", !.active = Now.retained[below],
                                      !.retained = SubSeq(Now.retained, 1, below), !.error = None]
                  /\ SaveState(st, "release")
    BY <1>1, <2>2 DEF Rollback
  <2>4. st.retained = SubSeq(Now.retained, 1, below)
    BY <2>1, <2>3 DEF LiveState
  <2>5. Now.retained # <<>>
    <3>1. Now.retained = <<Base>> \/ \E g : Now.retained = <<Base, g>>
      BY <2>1, NowFits DEF Shape, Retains
    <3> QED BY <3>1
  <2>6. ToSet(st.retained) \subseteq ToSet(Now.retained)
    <3>1. PICK s : s = SubSeq(Now.retained, 1, below)
      OBVIOUS
    <3>2. below \in 1..Len(Now.retained)
      BY <2>1, <2>2, <2>5
    <3>3. DOMAIN s \subseteq DOMAIN Now.retained /\ \A i \in DOMAIN s : s[i] = Now.retained[i]
      BY <2>1, <3>1, <3>2
    <3> QED BY <2>4, <3>1, <3>3 DEF ToSet
  <2> QED BY <2>1, <2>3, <2>6, NowKept, SavePromotes
<1>2. CASE ~Serving
  BY <1>2, NothingPromoted DEF Rollback, durable
<1> QED BY <1>1, <1>2

LEMMA RunPromotes ==
  ASSUME CampaignInv, CampaignInv', RunLoad \/ RunBaseline \/ RunGraded \/ RunRound \/ RunExpanded
  PROVE  Promotes
<1>1. CASE RunLoad
  <2>1. CASE Loads /\ Now.phase \in Searching \cup {"awaiting_review"}
    BY <1>1, <2>1, PublishPromotes DEF RunLoad, Loads
  <2> QED BY <1>1, <2>1, NothingPromoted DEF RunLoad, durable
<1>2. CASE RunBaseline
  BY <1>2, NothingPromoted DEF RunBaseline, durable
<1>3. CASE RunGraded
  <2>1. history # <<>> /\ Now \in LiveState
    BY <1>3, NowFits DEF RunGraded, Busy, CampaignInv, Place, Phase
  <2>2. PICK st : st = [Now EXCEPT !.phase = "baseline", !.evaluated = <<Base>>, !.parent = <<0>>, !.round = <<0>>]
    OBVIOUS
  <2>3. st.retained = Now.retained
    BY <2>1, <2>2 DEF LiveState
  <2>4. Stop("LIVE_FAILED") \/ SaveState(st, "round")
    BY <1>3, <2>2 DEF RunGraded
  <2> QED BY <2>1, <2>3, <2>4, StopPromotes, SameRetained
<1>4. CASE RunRound
  <2>1. history # <<>>
    BY <1>4 DEF RunRound, Busy, CampaignInv, Place, Phase
  <2> QED BY <1>4, <2>1, StopPromotes, NothingPromoted DEF RunRound, durable
<1>5. CASE RunExpanded
  <2>1. history # <<>> /\ Now \in LiveState
    BY <1>5, NowFits DEF RunExpanded, Busy, CampaignInv, Place, Phase
  <2>2. PICK st : st = SearchState
    OBVIOUS
  <2>3. st.retained = Now.retained
    BY <2>1, <2>2 DEF LiveState, SearchState
  <2>4. Stop("LIVE_FAILED") \/ SaveState(st, "round")
    BY <1>5, <2>2 DEF RunExpanded, SearchState, Ended
  <2> QED BY <2>1, <2>3, <2>4, StopPromotes, SameRetained
<1> QED BY <1>1, <1>2, <1>3, <1>4, <1>5

LEMMA SelectPromotes == ASSUME CampaignInv, CampaignInv', RunSelect \/ RunStage PROVE Promotes
<1>1. history # <<>> /\ Now \in LiveState
  BY NowFits DEF RunSelect, RunStage, Busy, CampaignInv, Place, Phase
<1>2. CASE RunSelect
  <2>1. CompleteState.retained = Now.retained
    BY <1>1 DEF LiveState, CompleteState
  <2>2. SaveState(CompleteState, "release") \/ UNCHANGED <<history, pointer, decisions, served>>
    BY <1>2 DEF RunSelect, CompleteState
  <2> QED BY <1>1, <2>1, <2>2, SameRetained, NothingPromoted
<1>3. CASE RunStage
  <2>1. StageState.retained = Now.retained
    BY <1>1 DEF LiveState, StageState
  <2>2. SaveState(StageState, "release")
    BY <1>3 DEF RunStage, StageState
  <2> QED BY <1>1, <2>1, <2>2, SameRetained
<1> QED BY <1>2, <1>3

LEMMA FailsPromotes ==
  ASSUME CampaignInv, CampaignInv', history # <<>>, PromoteFails
  PROVE  Promotes
BY StopPromotes, NothingPromoted DEF PromoteFails, durable

LEMMA PromotePromotes ==
  ASSUME CampaignInv, CampaignInv',
         PromoteLoad \/ PromoteAuthorize \/ PromoteDecide \/ PromoteActivate \/ PromoteResume \/ PromoteCanary
  PROVE  Promotes
<1>1. CASE PromoteLoad \/ PromoteCanary
  BY <1>1, NothingPromoted DEF PromoteLoad, PromoteCanary, durable
<1>2. CASE PromoteAuthorize
  <2>1. history # <<>>
    BY <1>2 DEF PromoteAuthorize, Busy, CampaignInv, Place, Phase
  <2> QED BY <1>2, <2>1, FailsPromotes, NothingPromoted DEF PromoteAuthorize, durable
<1>3. CASE PromoteDecide
  <2>1. history # <<>> /\ Phase(history) = "awaiting_review" /\ run.cmd = "promote" /\ "approved" \in Outcome
    BY <1>3 DEF PromoteDecide, Busy, CampaignInv, Place, Phase, Outcome
  <2>2. \/ PromoteFails
        \/ decisions' = decisions \cup {Decision("approved")} /\ UNCHANGED <<history, pointer, served>>
    BY <1>3 DEF PromoteDecide
  <2> QED BY <2>1, <2>2, FailsPromotes, DecisionPromotes
<1>4. CASE PromoteActivate
  <2>1. history # <<>> /\ Now \in LiveState
    BY <1>4, NowFits DEF PromoteActivate, Busy, CampaignInv, Place, Phase
  <2>2. PICK st : st = [Now EXCEPT !.phase = "probe", !.active = Now.review.request.candidate,
                                   !.review.decision = Decision("approved")]
    OBVIOUS
  <2>3. st.retained = Now.retained
    BY <2>1, <2>2 DEF LiveState
  <2>4. SaveState(st, "canary")
    BY <1>4, <2>2 DEF PromoteActivate
  <2> QED BY <2>1, <2>3, <2>4, SameRetained
<1>5. CASE PromoteResume
  <2>1. history # <<>>
    BY <1>5 DEF PromoteResume, Busy, CampaignInv, Place, Phase
  <2> QED BY <1>5, <2>1, FailsPromotes, PublishPromotes DEF PromoteResume
<1> QED BY <1>1, <1>2, <1>3, <1>4, <1>5

LEMMA RejectPromotes == ASSUME CampaignInv, CampaignInv', RejectLoad \/ RejectRecord PROVE Promotes
<1>1. CASE RejectLoad
  <2>1. CASE Loads /\ Now.phase = "awaiting_review" /\ Rules(run.arg, "rejected")
    <3>1. Phase(history) = "awaiting_review" /\ run.cmd = "reject" /\ "rejected" \in Outcome
      BY <1>1, <2>1, NowFits DEF RejectLoad, Busy, Loads, Outcome
    <3>2. decisions' = decisions \cup {Decision("rejected")} /\ UNCHANGED <<history, pointer, served>>
      BY <1>1, <2>1 DEF RejectLoad
    <3> QED BY <3>1, <3>2, DecisionPromotes
  <2> QED BY <1>1, <2>1, NothingPromoted DEF RejectLoad, durable
<1>2. CASE RejectRecord
  <2>1. history # <<>> /\ Now \in LiveState
    BY <1>2, NowFits DEF RejectRecord, Busy, CampaignInv, Place, Phase
  <2>2. PICK st : st = [Now EXCEPT !.phase = "rejected", !.error = "LIVE_REVIEW_REJECTED",
                                   !.review.decision = Decision("rejected")]
    OBVIOUS
  <2>3. st.retained = Now.retained
    BY <2>1, <2>2 DEF LiveState
  <2>4. SaveState(st, "release")
    BY <1>2, <2>2 DEF RejectRecord
  <2> QED BY <2>1, <2>3, <2>4, SameRetained
<1> QED BY <1>1, <1>2

LEMMA PreparePromotes == ASSUME CampaignInv, CampaignInv', PrepareFiles \/ PrepareState PROVE Promotes
<1>1. CASE SaveState(Prepared, "release")
  <2>1. ToSet(Prepared.retained) \subseteq Kept
    BY DEF Prepared, Kept, ToSet
  <2> QED BY <1>1, <2>1, SavePromotes
<1> QED BY <1>1, NothingPromoted DEF PrepareFiles, PrepareState, durable

LEMMA CampaignPromotes == CampaignInv /\ CampaignInv' /\ [Next]_vars => Promotes
<1> SUFFICES ASSUME CampaignInv, CampaignInv', [Next]_vars PROVE Promotes
  OBVIOUS
<1>1. CASE Supervise
  <2>1. CASE Point
    <3>1. history # <<>> /\ PublishPointer
      BY <2>1 DEF Point, CampaignInv, Place
    <3> QED BY <3>1, PublishPromotes
  <2>2. CASE Unlease \/ TaskLoad \/ TaskDone
    BY <2>2, NothingPromoted DEF Unlease, TaskLoad, TaskDone, durable
  <2> QED
  BY <1>1, <2>1, <2>2, PreparePromotes, RunPromotes, SelectPromotes, PromotePromotes, VerifyPromotes, RejectPromotes,
     RollbackPromotes DEF Supervise
<1>2. CASE Command \/ Review \/ Authority \/ Crash \/ Recover
  BY <1>2, NothingPromoted
  DEF Command, StartPrepare, StartRun, StartPromote, StartReject, StartRollback, StartTask, Start, Review, Authority,
      Elsewhere, Crash, Recover, durable
<1>3. CASE \E c \in Caller : Chain(c)
  BY <1>3, NothingPromoted
  DEF Chain, Call, Open, Graded, Proposed, StoreGeneration, Broken, Elsewhere, durable
<1>4. CASE UNCHANGED vars
  BY <1>4, NothingPromoted DEF vars, durable
<1> QED BY <1>1, <1>2, <1>3, <1>4 DEF Next

(* What is served follows PromptPromotion: only an approved candidate that *)
(* never served is activated, only what was retained is restored, and only *)
(* what is in use with an approval is retained, whatever crashes fall      *)
(* between a snapshot and its pointer.                                     *)
THEOREM ImplementsPromotion == Spec => PromotionSpec
<1>1. Init => Promotion!Init
  BY DEF Init, Promotion!Init
<1>2. CampaignInv /\ CampaignInv' /\ [Next]_vars => [Promotion!Next]_(Promotion!vars)
  BY CampaignPromotes DEF Promotes
<1> QED BY <1>1, <1>2, CampaignInvariant, PTL DEF Spec, PromotionSpec, Promotion!Spec

-------------------------------------------------------------------------------
(* Dreaming replays the search.  A recorded tree lists its nodes in the    *)
(* order of their rounds, the root first.                                  *)
Recorded(tree, m, rounds, strategy, width, limit) ==
  /\ m \in Nat \ {0} /\ limit \in Nat /\ m <= limit + 1 /\ rounds \in Nat /\ width \in Nat \ {0}
  /\ DOMAIN tree = 1..m /\ Comparable(tree, 1..m)
  /\ tree[1].round = 0 /\ \A i \in 2..m : tree[i].round \in 1..rounds
  /\ \A i, j \in 1..m : i <= j => tree[i].round <= tree[j].round
  /\ Explored(tree, rounds, strategy, width, limit)

(* What is there after some rounds is an initial segment of the nodes.     *)
LEMMA SeenInOrder ==
  ASSUME NEW tree, NEW m, NEW rounds, NEW strategy, NEW width, NEW limit,
         Recorded(tree, m, rounds, strategy, width, limit), NEW r \in Nat
  PROVE  \E s \in 1..m : /\ Until(tree, r) = 1..s /\ Cardinality(1..s) = s /\ IsFiniteSet(1..s)
                         /\ Comparable(tree, 1..s)
<1>1. /\ m \in Nat \ {0} /\ DOMAIN tree = 1..m /\ Comparable(tree, 1..m) /\ tree[1].round = 0
      /\ \A i, j \in 1..m : i <= j => tree[i].round <= tree[j].round
  BY DEF Recorded
<1>2. \A i \in 1..m : tree[i].round \in Nat
  BY <1>1 DEF Comparable
<1>3. Until(tree, r) \in SUBSET (0..m) /\ 1 \in Until(tree, r)
  BY <1>1 DEF Until
<1>4. PICK s \in Until(tree, r) : \A i \in Until(tree, r) : i <= s
  <2>1. m \in Nat
    BY <1>1
  <2> QED BY <1>3, <2>1, GreatestNumber
<1>5. s \in 1..m /\ tree[s].round <= r
  BY <1>1, <1>4 DEF Until
<1>6. ASSUME NEW i \in 1..s
      PROVE  i \in Until(tree, r)
  <2>1. i \in 1..m /\ i <= s
    BY <1>1, <1>5
  <2>2. tree[i].round <= tree[s].round /\ tree[i].round \in Nat /\ tree[s].round \in Nat
    BY <1>1, <1>2, <1>5, <2>1
  <2>3. tree[i].round <= r
    BY <1>5, <2>2
  <2> QED BY <1>1, <2>1, <2>3 DEF Until
<1>7. ASSUME NEW i \in Until(tree, r)
      PROVE  i \in 1..s
  <2>1. i \in 1..m /\ i <= s
    BY <1>1, <1>4, <1>7 DEF Until
  <2> QED BY <1>5, <2>1
<1>8. Until(tree, r) = 1..s
  BY <1>6, <1>7
<1>9. Cardinality(1..s) = s /\ IsFiniteSet(1..s)
  BY <1>5, FS_Interval
<1>10. Comparable(tree, 1..s)
  <2>1. 1..s \subseteq 1..m
    BY <1>1, <1>5
  <2> QED BY <1>1, <2>1 DEF Comparable
<1> QED BY <1>5, <1>8, <1>9, <1>10

(* The first child of a batch's node that a replay has not revealed is the *)
(* one the search recorded for it in that round, if it recorded one.       *)
Round(tree, m, s, b, batch, limit) ==
  /\ m \in Nat /\ s \in 1..m /\ b \in Nat /\ limit \in Nat /\ DOMAIN tree = 1..m /\ m <= limit + 1 /\ s + b <= m
  /\ Len(batch) \in Nat /\ DOMAIN batch = 1..Len(batch) /\ b <= Len(batch)
  /\ b < Len(batch) => s + b = limit + 1
  /\ \A k, l \in DOMAIN batch : k # l => batch[k] # batch[l]
  /\ \A k \in 1..b : tree[s + k].parent = batch[k]

Children(tree, seen, batch) == UNION {NextChild(tree, seen, batch[k]) : k \in DOMAIN batch}

LEMMA ChildrenRevealed ==
  ASSUME NEW tree, NEW m, NEW s, NEW b, NEW batch, NEW limit, Round(tree, m, s, b, batch, limit)
  PROVE  Children(tree, 1..s, batch) = {s + k : k \in 1..b}
<1>0. /\ m \in Nat /\ s \in 1..m /\ b \in Nat /\ limit \in Nat /\ DOMAIN tree = 1..m /\ m <= limit + 1 /\ s + b <= m
      /\ Len(batch) \in Nat /\ DOMAIN batch = 1..Len(batch) /\ b <= Len(batch)
      /\ b < Len(batch) => s + b = limit + 1
      /\ \A k, l \in DOMAIN batch : k # l => batch[k] # batch[l]
      /\ \A k \in 1..b : tree[s + k].parent = batch[k]
  BY DEF Round
<1> USE <1>0
<1> DEFINE hidden(k) == {j \in DOMAIN tree \ (1..s) : tree[j].parent = batch[k]}
<1>1. \A k \in DOMAIN batch : NextChild(tree, 1..s, batch[k]) = {j \in hidden(k) : \A l \in hidden(k) : j <= l}
  BY DEF NextChild
<1>2. \A k \in DOMAIN batch : \A j \in hidden(k) :
        /\ j \in (s + 1)..m
        /\ \A l \in 1..b : j = s + l => l = k
  OBVIOUS
<1>3. ASSUME NEW k \in 1..b
      PROVE  NextChild(tree, 1..s, batch[k]) = {s + k}
  <2>1. k \in DOMAIN batch /\ s + k \in hidden(k)
    OBVIOUS
  <2>2. ASSUME NEW j \in hidden(k)
        PROVE  s + k <= j
    <3>1. SUFFICES ASSUME j < s + k PROVE FALSE
      BY <1>2, <2>1
    <3>2. j - s \in 1..b /\ j = s + (j - s) /\ j - s # k
      BY <1>2, <2>1, <3>1
    <3> QED BY <1>2, <2>1, <3>2
  <2>3. \A j \in hidden(k) : j \in Nat
    BY <1>2, <2>1
  <2> HIDE DEF hidden
  <2> QED BY <1>1, <2>1, <2>2, <2>3
<1>4. ASSUME NEW k \in DOMAIN batch, k \notin 1..b
      PROVE  NextChild(tree, 1..s, batch[k]) = {}
  <2>1. s + b = limit + 1
    BY <1>4
  <2>2. ASSUME NEW j \in hidden(k)
        PROVE  FALSE
    <3>1. j \in (s + 1)..m /\ m <= s + b
      BY <1>2, <2>1
    <3>2. j - s \in 1..b /\ j = s + (j - s)
      BY <3>1
    <3> QED BY <1>2, <1>4, <3>2
  <2> QED BY <1>1, <2>2
<1> HIDE DEF hidden
<1>5. 1..b \subseteq DOMAIN batch
  OBVIOUS
<1>6. PICK all : all = DOMAIN batch
  OBVIOUS
<1>7. PICK child : child = [k \in all |-> NextChild(tree, 1..s, batch[k])]
  OBVIOUS
<1>8. /\ \A k \in 1..b : child[k] = {s + k}
      /\ \A k \in all : k \notin 1..b => child[k] = {}
      /\ 1..b \subseteq all
  BY <1>3, <1>4, <1>5, <1>6, <1>7
<1>9. UNION {child[k] : k \in all} = {s + k : k \in 1..b}
  <2> HIDE <1>0
  <2>1. \A j \in UNION {child[k] : k \in all} : j \in {s + k : k \in 1..b}
    <3> SUFFICES ASSUME NEW k \in all, NEW j \in child[k] PROVE j \in {s + l : l \in 1..b}
      OBVIOUS
    <3>1. k \in 1..b /\ j = s + k
      BY <1>8
    <3> QED BY <3>1
  <2>2. \A k \in 1..b : s + k \in UNION {child[l] : l \in all}
    <3> TAKE k \in 1..b
    <3>1. s + k \in child[k] /\ k \in all
      BY <1>8
    <3> QED BY <3>1, Zenon
  <2> QED BY <2>1, <2>2
<1>10. UNION {child[k] : k \in all} = UNION {NextChild(tree, 1..s, batch[k]) : k \in all}
  BY <1>7
<1> QED BY <1>6, <1>9, <1>10 DEF Children

(* So a round of the replay reveals what the round of the search added.    *)
LEMMA RoundReveals ==
  ASSUME NEW tree, NEW m, NEW rounds, NEW strategy, NEW width, NEW limit,
         Recorded(tree, m, rounds, strategy, width, limit), NEW n \in Nat \ {0}
  PROVE  LET seen == Until(tree, n - 1)
             batch == SelectBatch(tree, seen, strategy, width)
         IN  /\ Until(tree, n) = seen \cup Children(tree, seen, batch)
             /\ Until(tree, n) # seen <=> n \in 1..rounds
<1> DEFINE seen == Until(tree, n - 1)
           batch == SelectBatch(tree, seen, strategy, width)
           cut == FirstOf(batch, limit + 1 - Cardinality(seen))
<1>1. /\ m \in Nat \ {0} /\ limit \in Nat /\ m <= limit + 1 /\ rounds \in Nat /\ width \in Nat \ {0}
      /\ DOMAIN tree = 1..m /\ Explored(tree, rounds, strategy, width, limit) /\ n - 1 \in Nat
  BY DEF Recorded
<1>2. PICK s \in 1..m : /\ seen = 1..s /\ Cardinality(1..s) = s /\ IsFiniteSet(1..s)
                        /\ Comparable(tree, 1..s)
  BY <1>1, SeenInOrder
<1>3. /\ Until(tree, rounds) = DOMAIN tree
      /\ \A r \in 1..rounds : Expanded(tree, Until(tree, r - 1), Until(tree, r), strategy, width, limit)
  BY <1>1, ExploredMeans
<1>4. CASE n \in 1..rounds
  <2>1. /\ cut # <<>> /\ Until(tree, n) \ seen = {s + k : k \in DOMAIN cut}
        /\ \A k \in DOMAIN cut : tree[s + k].parent = cut[k]
    BY <1>2, <1>3, <1>4 DEF Expanded
  <2>2. /\ batch \in Seq(seen) /\ DOMAIN batch = 1..Len(batch)
        /\ \A k, l \in DOMAIN batch : k # l => batch[k] # batch[l]
    <3>1. 1 \in 1..s
      BY <1>2
    <3> QED BY <1>1, <1>2, <3>1, BatchSelected
  <2>3. Len(batch) \in Nat
    BY <2>2
  <2>4. limit + 1 - s \in Nat /\ limit + 1 - Cardinality(seen) = limit + 1 - s
    BY <1>1, <1>2
  <2> HIDE DEF seen, batch
  <2>5. /\ Len(cut) = IF limit + 1 - s < Len(batch) THEN limit + 1 - s ELSE Len(batch)
        /\ DOMAIN cut = 1..Len(cut)
        /\ \A k \in DOMAIN cut : k \in DOMAIN batch /\ cut[k] = batch[k]
    BY <2>2, <2>4, PrefixFits
  <2> HIDE DEF cut
  <2>6. PICK b : b = Len(cut)
    OBVIOUS
  <2>7. b \in Nat /\ b <= Len(batch) /\ (b < Len(batch) => s + b = limit + 1) /\ DOMAIN cut = 1..b
    BY <1>1, <2>3, <2>4, <2>5, <2>6
  <2>8. b # 0
    <3>1. SUFFICES ASSUME b = 0 PROVE FALSE
      OBVIOUS
    <3>2. cut \in Seq(seen)
      BY <2>2, <2>4, PrefixFits DEF cut
    <3> QED BY <2>1, <2>6, <3>1, <3>2, EmptySeq
  <2>9. s + b <= m
    <3>1. b \in DOMAIN cut
      BY <2>7, <2>8
    <3>2. s + b \in Until(tree, n)
      BY <2>1, <3>1
    <3> QED BY <1>1, <3>2 DEF Until
  <2>10. \A k \in 1..b : tree[s + k].parent = batch[k]
    BY <2>1, <2>5, <2>7
  <2>11. Children(tree, 1..s, batch) = {s + k : k \in 1..b}
    <3>1. m \in Nat /\ s \in 1..m /\ limit \in Nat /\ DOMAIN tree = 1..m /\ m <= limit + 1
      BY <1>1, <1>2
    <3>2. Round(tree, m, s, b, batch, limit)
      BY <3>1, <2>2, <2>3, <2>7, <2>9, <2>10 DEF Round
    <3> QED BY <3>2, ChildrenRevealed
  <2>12. seen \subseteq Until(tree, n)
    <3>1. \A i \in 1..m : tree[i].round \in Nat
      BY DEF Recorded, Comparable
    <3>2. \A i \in 1..m : tree[i].round <= n - 1 => tree[i].round <= n
      BY <3>1
    <3> QED BY <1>1, <3>2 DEF Until, seen
  <2>13. Until(tree, n) \ seen = {s + k : k \in 1..b} /\ s + b \in Until(tree, n) \ seen
    <3>1. b \in 1..b /\ {s + k : k \in DOMAIN cut} = {s + k : k \in 1..b}
      BY <2>7, <2>8
    <3>2. s + b \in {s + k : k \in 1..b}
      BY <3>1
    <3> QED BY <2>1, <3>1, <3>2
  <2>14. Until(tree, n) = seen \cup Children(tree, seen, batch)
    BY <1>2, <2>11, <2>12, <2>13
  <2> QED BY <1>4, <2>13, <2>14 DEF seen, batch
<1>5. CASE n \notin 1..rounds
  <2>1. rounds <= n - 1
    BY <1>1, <1>5
  <2>2. \A i \in 1..m : tree[i].round <= n - 1 /\ tree[i].round <= n
    <3>1. \A i \in 1..m : tree[i].round \in Nat /\ tree[i].round <= rounds
      BY <1>1, <1>3 DEF Recorded, Comparable, Until
    <3> QED BY <1>1, <2>1, <3>1
  <2>3. seen = DOMAIN tree /\ Until(tree, n) = DOMAIN tree
    BY <1>1, <2>2 DEF Until
  <2>4. \A p : NextChild(tree, seen, p) = {}
    BY <2>3 DEF NextChild
  <2>5. Children(tree, seen, batch) = {}
    <3> HIDE DEF batch, seen
    <3> QED BY <2>4 DEF Children
  <2> HIDE DEF batch, seen
  <2>6. Until(tree, n) = seen \cup Children(tree, seen, batch) /\ Until(tree, n) = seen
    BY <2>3, <2>5
  <2> QED BY <1>5, <2>6 DEF batch, seen
<1> QED BY <1>4, <1>5

LEMMA ReplayReveals ==
  ASSUME NEW tree, NEW m, NEW rounds, NEW strategy, NEW width, NEW limit,
         Recorded(tree, m, rounds, strategy, width, limit), NEW N \in Nat
  PROVE  Revealed(tree, strategy, width, N) = Until(tree, N)
<1> DEFINE Shown(f, n) == IF n = 0 THEN {1}
                          ELSE f[n-1] \cup Children(tree, f[n-1], SelectBatch(tree, f[n-1], strategy, width))
           Table(f) == f = [n \in 0..N |-> Shown(f, n)]
           after == CHOOSE f : Table(f)
<1>1. Revealed(tree, strategy, width, N) = after[N]
  BY DEF Revealed, Children
<1> DEFINE until == [n \in 0..N |-> Until(tree, n)]
<1>2. Until(tree, 0) = {1}
  <2>1. /\ m \in Nat \ {0} /\ DOMAIN tree = 1..m /\ tree[1].round = 0
        /\ \A i \in 2..m : tree[i].round \in 1..rounds /\ rounds \in Nat
    BY DEF Recorded
  <2>2. \A i \in 1..m : i = 1 \/ i \in 2..m
    BY <2>1
  <2> QED BY <2>1, <2>2 DEF Until
<1>3. Table(until)
  <2>1. ASSUME NEW n \in 0..N
        PROVE  until[n] = Shown(until, n)
    <3>1. CASE n = 0
      BY <1>2, <3>1
    <3>2. CASE n # 0
      <4>1. n \in Nat \ {0} /\ n - 1 \in 0..N /\ until[n-1] = Until(tree, n - 1)
        BY <3>2
      <4> QED BY <4>1, <3>2, RoundReveals
    <3> QED BY <3>1, <3>2
  <2> HIDE DEF Shown
  <2> QED BY <2>1
<1>4. Table(after)
  <2> HIDE DEF Table
  <2> QED BY <1>3
<1>5. \A n \in 0..N : after[n] = Shown(after, n)
  <2> HIDE DEF after, Shown
  <2> QED BY <1>4
<1> HIDE DEF after, Table
<1> DEFINE S == {n \in Nat : n \in 0..N => after[n] = Until(tree, n)}
<1>6. 0 \in S
  BY <1>2, <1>5
<1>7. ASSUME NEW n \in S
      PROVE  n + 1 \in S
  <2> SUFFICES ASSUME n + 1 \in 0..N PROVE after[n + 1] = Until(tree, n + 1)
    OBVIOUS
  <2>1. n + 1 \in Nat \ {0} /\ n + 1 - 1 = n /\ n \in 0..N /\ n + 1 # 0
    OBVIOUS
  <2>2. after[n] = Until(tree, n)
    BY <2>1
  <2>3. after[n + 1] = Shown(after, n + 1)
    BY <1>5
  <2> QED BY <2>1, <2>2, <2>3, RoundReveals
<1>8. S = Nat
  <2> HIDE DEF S
  <2>1. S \in SUBSET Nat
    BY DEF S
  <2> QED BY <1>6, <1>7, <2>1, NumbersInduct
<1> QED BY <1>1, <1>8

LEMMA ReplayCounts ==
  ASSUME NEW tree, NEW m, NEW rounds, NEW strategy, NEW width, NEW limit,
         Recorded(tree, m, rounds, strategy, width, limit), NEW N \in Nat, rounds <= N
  PROVE  UsefulRounds(tree, strategy, width, N) = rounds
<1>1. rounds \in Nat
  BY DEF Recorded
<1>2. ASSUME NEW n \in 1..N
      PROVE  Revealed(tree, strategy, width, n) # Revealed(tree, strategy, width, n-1) <=> n \in 1..rounds
  <2>1. n \in Nat \ {0} /\ n \in Nat /\ n - 1 \in Nat
    OBVIOUS
  <2>2. Revealed(tree, strategy, width, n) = Until(tree, n) /\ Revealed(tree, strategy, width, n-1) = Until(tree, n-1)
    BY <2>1, ReplayReveals
  <2>3. Until(tree, n) # Until(tree, n - 1) <=> n \in 1..rounds
    BY <2>1, RoundReveals
  <2> QED BY <2>2, <2>3
<1>3. {n \in 1..N : Revealed(tree, strategy, width, n) # Revealed(tree, strategy, width, n-1)} = 1..rounds
  <2>1. 1..rounds \subseteq 1..N
    BY <1>1
  <2> QED BY <1>2, <2>1
<1>4. Cardinality(1..rounds) = rounds
  BY <1>1, FS_Interval
<1> QED BY <1>3, <1>4 DEF UsefulRounds

(* The tree of a finished search is reproduced node by node, and round by  *)
(* round, when its own policy is dreamed over it.                          *)
THEOREM DreamsReproduce == Spec => []ReplayReproduces
<1>1. CampaignInv => ReplayReproduces
  <2> SUFFICES ASSUME CampaignInv, Finished
               PROVE  /\ Revealed(Tree(Now), Strategy, MaxParallelism, MaxRounds) = DOMAIN Now.evaluated
                      /\ UsefulRounds(Tree(Now), Strategy, MaxParallelism, MaxRounds) = Now.rounds
    BY DEF ReplayReproduces
  <2>1. history # <<>> /\ Now.phase \in {"awaiting_review", "complete", "rejected", "rolled_back"}
    BY DEF Finished
  <2>2. Now \in LiveState /\ Searched(Now) /\ TreeFits(Now)
    BY <2>1, NowHolds DEF Shape, Holds
  <2>3. Now.evaluated # <<>> /\ Now.rounds \in Nat /\ Now.rounds <= MaxRounds
        /\ Len(Now.evaluated) <= CandidateLimit + 1
    BY <2>1, <2>2 DEF Searched, LiveState
  <2>4. /\ CandidateLimit \in Nat /\ MaxRounds \in Nat /\ MaxParallelism \in Nat \ {0}
    BY PlanAssumption
  <2>5. PICK m : m = Len(Now.evaluated)
    OBVIOUS
  <2>6. /\ m \in Nat \ {0} /\ DOMAIN Tree(Now) = 1..m /\ DOMAIN Now.evaluated = 1..m
        /\ Comparable(Tree(Now), 1..m)
        /\ \A i \in 1..m : Tree(Now)[i] = [parent |-> Now.parent[i], round |-> Now.round[i],
                                           score |-> Score(i, Development)]
    BY <2>2, <2>3, <2>5, TreeCompares
  <2>7. /\ Now.round[1] = 0 /\ (\A i \in 2..m : Now.round[i] \in 1..Now.rounds)
        /\ \A i, j \in 1..m : i <= j => Now.round[i] <= Now.round[j]
        /\ Explored(Tree(Now), Now.rounds, Strategy, MaxParallelism, CandidateLimit)
    BY <2>2, <2>3, <2>5, <2>6 DEF TreeFits, Searched
  <2>8. \A i \in 1..m : Tree(Now)[i].round = Now.round[i]
    BY <2>6
  <2>9. Recorded(Tree(Now), m, Now.rounds, Strategy, MaxParallelism, CandidateLimit)
    <3>1. 1 \in 1..m /\ 2..m \subseteq 1..m
      BY <2>6
    <3> QED BY <2>3, <2>4, <2>5, <2>6, <2>7, <2>8, <3>1 DEF Recorded
  <2>10. Revealed(Tree(Now), Strategy, MaxParallelism, MaxRounds) = Until(Tree(Now), MaxRounds)
    BY <2>4, <2>9, ReplayReveals
  <2>11. UsefulRounds(Tree(Now), Strategy, MaxParallelism, MaxRounds) = Now.rounds
    BY <2>3, <2>4, <2>9, ReplayCounts
  <2>12. Until(Tree(Now), MaxRounds) = 1..m
    <3>1. \A i \in 1..m : i = 1 \/ i \in 2..m
      BY <2>6
    <3>2. \A i \in 1..m : Now.round[i] \in Nat /\ Now.round[i] <= MaxRounds
      BY <2>3, <2>4, <2>7, <3>1
    <3> QED BY <2>6, <2>8, <3>2 DEF Until
  <2> QED BY <2>6, <2>10, <2>11, <2>12
<1> QED BY <1>1, CampaignInvariant, PTL
===============================================================================
