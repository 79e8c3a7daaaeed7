------------------------------ MODULE Workspace ------------------------------
(***************************************************************************)
(* All the stores under .dal next to each other, with the commands of the  *)
(* CLI that write them and the reset that removes them.  A behaviour has   *)
(* the commands of one store (its focus): the stores only share the        *)
(* directory, except that a guardrail reads the evaluations.               *)
(***************************************************************************)
EXTENDS EffectSagas, FailureClusters, Guardrail, BranchArchive, SealedHoldout,
        ImprovementProposals, CampaignReplay, WorkspaceReset

CONSTANT ResetFocuses    \* the stores next to which resets run

workspaceVars == <<commandVars, resetVars, focus>>

WorkspaceInit ==
    /\ focus \in DOMAIN MaxCalls
    /\ files = <<>>
    /\ call = [c \in Caller |-> Idle]
    /\ made = 1
    /\ outside = [results |-> OldResults, raced |-> FALSE, approvalStands |-> TRUE, aged |-> {},
                  draft |-> [b \in Branches |-> 0], edited |-> FALSE, artifact |-> CHOOSE version \in Versions : TRUE]
    /\ ResetInit /\ (repository.present => focus \in ResetFocuses)    \* nobody else looks at it

CommandNext ==
    \/ focus = "saga" /\ SagaNext
    \/ focus = "admission" /\ AdmissionNext
    \/ focus \in {"feedback", "reset"} /\ FeedbackNext
    \/ focus = "control" /\ ControlNext
    \/ focus = "cluster" /\ ClusterNext
    \/ focus = "replay" /\ ReplayNext
    \/ focus = "guardrail" /\ GuardrailNext
    \/ focus = "branch" /\ BranchNext
    \/ focus = "seal" /\ SealNext
    \/ focus = "proposal" /\ ProposalNext
    \/ \E c \in Caller : Publish(c) \/ Killed(c)

WorkspaceNext ==
    \/ CommandNext /\ UNCHANGED <<resetVars, focus>>
    \/ focus \in ResetFocuses /\ ResetNext /\ UNCHANGED focus

WorkspaceSpec == WorkspaceInit /\ [][WorkspaceNext]_workspaceVars

(* The sense in which two records are the same, by the command.            *)
Same(c) ==
    CASE call[c].op = "saga"      -> SameSaga(Found(c), call[c].want)
      [] call[c].op = "admission" -> SameAdmission(Found(c), call[c].want)
      [] call[c].op = "guardrail" -> Found(c).action = call[c].read.action
      [] call[c].op = "init"      -> outside.raced \/ Found(c) = call[c].want
      [] OTHER                    -> Found(c) = call[c].want

(* Answers tell the truth in every store: a command that was told "stored" *)
(* or "idempotent" finds what it wanted, so no two of them disagree.  When *)
(* two inits of a seal ran into each other, the seal may be the other's.   *)
AnswersHold == \A c \in Caller : AnswerHolds(c, Same(c))

(* Evidence is what it says: receipts answer their intents and challenges, *)
(* the reveal shows the cases that were sealed, clusters are complete, and *)
(* the snapshots of a replay are those of its plan.                        *)
EvidenceIsSound ==
    /\ \A i \in SagaIds \cup AdmissionIds : ReceiptsAnswer(i)
    /\ RevealIsSealed /\ ClustersAreComplete /\ ReplayIsIdempotent

(* The limits bind but for the commands that run at the same time.         *)
LimitsHold == StoreIsBounded /\ RateIsBounded
=============================================================================
