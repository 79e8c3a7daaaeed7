--------------------------- MODULE Workspace_proofs ---------------------------
(***************************************************************************)
(* Proofs about the stores under .dal and the reset, for any callers,      *)
(* names, contents, policies and bounds.                                   *)
(***************************************************************************)
EXTENDS Workspace, FiniteSums, SequenceTheorems

-------------------------------------------------------------------------------
(* Files and calls: what the steps of all commands have in common.         *)

(* Adding a file keeps all others. *)
LEMMA WithAdds ==
  ASSUME NEW p, NEW content
  PROVE  /\ DOMAIN With(p, content) = DOMAIN files \cup {p} /\ With(p, content)[p] = content
         /\ \A q \in DOMAIN files : q # p => With(p, content)[q] = files[q]
  BY DEF With

IsCommand(k) == DOMAIN k = {"op", "at", "path", "want", "read", "answer", "overtaken"}
Calls == DOMAIN call = Caller /\ \A c \in Caller : IsCommand(call[c])

(* What a new command is. *)
LEMMA NewCommands ==
  /\ IsCommand(Idle) /\ Idle.at = "idle" /\ Idle.answer = None /\ Idle.op = None
  /\ \A op, at, path, want, read :
       LET k == Command(op, at, path, want, read)
       IN  /\ IsCommand(k) /\ k.op = op /\ k.at = at /\ k.path = path /\ k.want = want /\ k.read = read
           /\ k.answer = None
  /\ \A op, answer :
       LET k == Ended(op, answer)
       IN  IsCommand(k) /\ k.op = op /\ k.at = "done" /\ k.answer = answer
  /\ \A op : LET k == Refused(op)
             IN  IsCommand(k) /\ k.op = op /\ k.at = "done" /\ k.answer = "refused"
<1>1. IsCommand(Idle) /\ Idle.at = "idle" /\ Idle.answer = None /\ Idle.op = None
  BY DEF Idle, IsCommand
<1>2. ASSUME NEW op, NEW at, NEW path, NEW want, NEW read
      PROVE  LET k == Command(op, at, path, want, read)
             IN  /\ IsCommand(k) /\ k.op = op /\ k.at = at /\ k.path = path /\ k.want = want /\ k.read = read
                 /\ k.answer = None
  BY DEF Command, Idle, IsCommand
<1>3. ASSUME NEW op, NEW answer
      PROVE  LET k == Ended(op, answer)
             IN  IsCommand(k) /\ k.op = op /\ k.at = "done" /\ k.answer = answer
  BY DEF Ended, Idle, IsCommand
<1>4. ASSUME NEW op
      PROVE  LET k == Refused(op)
             IN  IsCommand(k) /\ k.op = op /\ k.at = "done" /\ k.answer = "refused"
  BY <1>3 DEF Refused
<1> QED BY <1>1, <1>2, <1>3, <1>4

(* What becomes of the calls when one of them moves. *)
LEMMA CallsMove ==
  ASSUME Calls, NEW c \in Caller, NEW k, IsCommand(k), call' = [call EXCEPT ![c] = k]
  PROVE  Calls' /\ call'[c] = k /\ \A d \in Caller \ {c} : call'[d] = call[d]
  BY DEF Calls

(* A command starts in a caller that has none. *)
LEMMA StartMoves ==
  ASSUME Calls, NEW c \in Caller, NEW k, IsCommand(k), Start(c, k)
  PROVE  /\ Calls' /\ call'[c] = k /\ \A d \in Caller \ {c} : call'[d] = call[d]
         /\ call[c].at \in {"idle", "done"}
  BY CallsMove DEF Start, Free

(* A command goes on and stays what it is. *)
LEMMA GotoMoves ==
  ASSUME Calls, NEW c \in Caller, NEW at, Goto(c, at)
  PROVE  /\ Calls' /\ \A d \in Caller \ {c} : call'[d] = call[d]
         /\ call'[c].at = at /\ call'[c].op = call[c].op /\ call'[c].path = call[c].path
         /\ call'[c].want = call[c].want /\ call'[c].read = call[c].read
         /\ call'[c].answer = call[c].answer /\ call'[c].overtaken = call[c].overtaken
<1> DEFINE k == [call[c] EXCEPT !.at = at]
<1>1. /\ IsCommand(k) /\ k.at = at /\ k.op = call[c].op /\ k.path = call[c].path
      /\ k.want = call[c].want /\ k.read = call[c].read
      /\ k.answer = call[c].answer /\ k.overtaken = call[c].overtaken
  BY DEF Calls, IsCommand
<1>2. call' = [call EXCEPT ![c] = k]
  BY DEF Goto, Update
<1> HIDE DEF k
<1> QED BY <1>1, <1>2, CallsMove

(* A command ends; what it was about is only kept with an answer that is held to. *)
LEMMA FinishMoves ==
  ASSUME Calls, NEW c \in Caller, NEW answer, Finish(c, answer)
  PROVE  /\ Calls' /\ \A d \in Caller \ {c} : call'[d] = call[d]
         /\ call'[c].at = "done" /\ call'[c].op = call[c].op /\ call'[c].answer = answer
         /\ answer \in Answered =>
              /\ call'[c].path = call[c].path /\ call'[c].want = call[c].want /\ call'[c].read = call[c].read
              /\ call'[c].overtaken = call[c].overtaken
<1> DEFINE k == IF answer \in Answered THEN [call[c] EXCEPT !.at = "done", !.answer = answer]
                ELSE Ended(call[c].op, answer)
<1>1. /\ IsCommand(k) /\ k.at = "done" /\ k.op = call[c].op /\ k.answer = answer
      /\ answer \in Answered => k.path = call[c].path /\ k.want = call[c].want /\ k.read = call[c].read
                                /\ k.overtaken = call[c].overtaken
  <2>1. CASE answer \in Answered
    <3>1. k = [call[c] EXCEPT !.at = "done", !.answer = answer] /\ IsCommand(call[c])
      BY <2>1 DEF Calls
    <3> HIDE DEF k
    <3> QED BY <3>1 DEF IsCommand
  <2>2. CASE answer \notin Answered
    BY <2>2, NewCommands
  <2> QED BY <2>1, <2>2
<1>2. call' = [call EXCEPT ![c] = k]
  BY DEF Finish, Update
<1> HIDE DEF k
<1> QED BY <1>1, <1>2, CallsMove

-------------------------------------------------------------------------------
(* No command removes a file or changes one, but for those of the seal.    *)

Rewritable(p) == p[1] = "seal" /\ p[3] # "reveal"

Grow == /\ DOMAIN files \subseteq DOMAIN files'
        /\ \A p \in DOMAIN files : ~Rewritable(p) => files'[p] = files[p]

(* A file that is new, or the seal's, may be written. *)
LEMMA GrowWith ==
  ASSUME NEW p, NEW content, files' = With(p, content), ~Has(p) \/ Rewritable(p)
  PROVE  Grow
<1>1. /\ DOMAIN files' = DOMAIN files \cup {p}
      /\ \A q \in DOMAIN files : q # p => files'[q] = files[q]
  BY DEF With
<1>2. \A q \in DOMAIN files : ~Rewritable(q) => q # p
  BY DEF Has
<1> QED BY <1>1, <1>2 DEF Grow

(* And none need be. *)
LEMMA GrowSame == UNCHANGED files => Grow
  BY DEF Grow

(* Ingestion writes nothing before it publishes. *)
LEMMA IngestionReads ==
  /\ \A c, i, content : IngestFeedback(c, i, content) => UNCHANGED files
  /\ \A c, i, content : IngestRunRecord(c, i, content) => UNCHANGED files
  /\ \A c, i, run : IngestRun(c, i, run) => UNCHANGED files
  /\ \A c, same : Compare(c, same) => UNCHANGED files
<1>1. \A c, i, content : IngestFeedback(c, i, content) => UNCHANGED files
  BY DEF IngestFeedback
<1>2. \A c, i, content : IngestRunRecord(c, i, content) => UNCHANGED files
  BY DEF IngestRunRecord
<1>3. \A c, i, run : IngestRun(c, i, run) => UNCHANGED files
  BY <1>2 DEF IngestRun
<1>4. \A c, same : Compare(c, same) => UNCHANGED files
  BY DEF Compare
<1> QED BY <1>1, <1>2, <1>3, <1>4

(* The commands of every store only add files. *)
LEMMA StoresGrow ==
  /\ SagaNext \/ AdmissionNext \/ FeedbackNext \/ ControlNext => UNCHANGED files
  /\ ClusterNext => Grow
  /\ ReplayNext => Grow
  /\ GuardrailNext => Grow
  /\ BranchNext => UNCHANGED files
  /\ SealNext => Grow
  /\ ProposalNext => UNCHANGED files
<1>1. SagaNext => UNCHANGED files
  BY IngestionReads DEF SagaNext, Begin, Complete
<1>2. AdmissionNext => UNCHANGED files
  BY IngestionReads DEF AdmissionNext, Issue, CompleteAdmission, Probe
<1>3. FeedbackNext => UNCHANGED files
  BY IngestionReads DEF FeedbackNext, CountRecords
<1>4. ControlNext => UNCHANGED files
  BY IngestionReads DEF ControlNext, Estimate, ReadBatch
<1>5. ASSUME ClusterNext
      PROVE  Grow
  <2>1. CASE UNCHANGED files
    BY <2>1, GrowSame
  <2>2. ASSUME NEW c \in Caller, PublishCluster(c)
        PROVE  Grow
    <3>1. PICK cluster \in call[c].want :
            \/ ~Has(ClusterFile(cluster.signature))
               /\ files' = With(ClusterFile(cluster.signature), cluster.members)
            \/ UNCHANGED files
      BY <2>2 DEF PublishCluster
    <3> QED BY <3>1, GrowWith, GrowSame
  <2>3. \/ UNCHANGED files
        \/ \E c \in Caller : PublishCluster(c)
    BY <1>5, IngestionReads DEF ClusterNext, ClusterRuns, GroupRuns
  <2> QED BY <2>1, <2>2, <2>3
<1>6. ASSUME ReplayNext
      PROVE  Grow
  <2>1. CASE UNCHANGED files
    BY <2>1, GrowSame
  <2>2. ASSUME NEW c \in Caller, PublishPlan(c)
        PROVE  Grow
    <3>1. files' = IF Has(PlanFile) THEN files ELSE With(PlanFile, call[c].want)
      BY <2>2 DEF PublishPlan
    <3> QED BY <3>1, GrowWith, GrowSame
  <2>3. ASSUME NEW c \in Caller, PublishStep(c)
        PROVE  Grow
    <3>1. files' = IF Has(call[c].path) THEN files ELSE With(call[c].path, call[c].want)
      BY <2>3 DEF PublishStep
    <3> QED BY <3>1, GrowWith, GrowSame
  <2>4. \/ UNCHANGED files
        \/ \E c \in Caller : PublishPlan(c) \/ PublishStep(c)
    BY <1>6 DEF ReplayNext, PrepareReplay, ReplayCampaign, LoadCampaign, EditInput
  <2> QED BY <2>1, <2>2, <2>3, <2>4
<1>7. ASSUME GuardrailNext
      PROVE  Grow
  <2>1. CASE UNCHANGED files
    BY <2>1, GrowSame
  <2>2. ASSUME NEW artifact \in Artifacts, Quarantine(artifact)
        PROVE  Grow
    BY <2>2, GrowWith DEF Quarantine
  <2>3. \/ UNCHANGED files
        \/ \E artifact \in Artifacts : Quarantine(artifact)
    BY <1>7 DEF GuardrailNext, Record, EnforceRateLimit, Judge, Repeat, ApprovalLapses, WindowPasses
  <2> QED BY <2>1, <2>2, <2>3
<1>8. BranchNext => UNCHANGED files
  BY IngestionReads DEF BranchNext, RecordBranch, EvaluateBranch, VerifyArchive, EditDraft
<1>9. ASSUME SealNext
      PROVE  Grow
  <2>1. CASE UNCHANGED files
    BY <2>1, GrowSame
  <2>2. ASSUME NEW c \in Caller, PublishSealed(c)
        PROVE  Grow
    <3>1. files' = With(SealFile(call[c].at), call[c].want) /\ Rewritable(SealFile(call[c].at))
      BY <2>2 DEF PublishSealed, SealFile, Rewritable, Parts
    <3> QED BY <3>1, GrowWith
  <2>3. \/ UNCHANGED files
        \/ \E c \in Caller : PublishSealed(c)
    BY <1>9, IngestionReads DEF SealNext, SealInit, SealReveal, ReadManifest
  <2> QED BY <2>1, <2>2, <2>3
<1>10. ProposalNext => UNCHANGED files
  BY IngestionReads DEF ProposalNext, RunSuite, Transition, Replay, Decide, Revalidate, EditArtifact
<1> QED BY <1>1, <1>2, <1>3, <1>4, <1>5, <1>6, <1>7, <1>8, <1>9, <1>10

(* And so do a publication and a kill. *)
LEMMA FilesGrow ==
  ASSUME CommandNext
  PROVE  Grow
<1>1. ASSUME NEW c \in Caller, Publish(c)
      PROVE  Grow
  <2>1. \/ ~Has(call[c].path) /\ files' = With(call[c].path, call[c].want)
        \/ UNCHANGED files
    BY <1>1 DEF Publish
  <2> QED BY <2>1, GrowWith, GrowSame
<1>2. ASSUME NEW c \in Caller, Killed(c)
      PROVE  UNCHANGED files
  BY <1>2 DEF Killed
<1> QED BY <1>1, <1>2, StoresGrow, GrowSame DEF CommandNext

-------------------------------------------------------------------------------
(* The reset.                                                              *)

(* What git is asked for is what it has had; and between the question and  *)
(* the removal nothing that was there then disappears or changes.          *)
ResetInv ==
  /\ \A p \in DOMAIN repository.head : <<p, repository.head[p]>> \in repository.history
  /\ reset.at = "checked" =>
       /\ reset.checked \subseteq DOMAIN files
       /\ repository.present =>
            \A p \in reset.checked : Tracked(p) => <<p, files[p]>> \in repository.history
  /\ CheckedEvidenceIsCommitted
  /\ DOMAIN reset = {"at", "listed", "checked"} /\ DOMAIN repository = {"present", "head", "history"}

(* A removal loses nothing that was asked for and had not been committed. *)
LEMMA TakeKeeps ==
  ASSUME ResetInv, reset.at = "checked", NEW gone \in SUBSET DOMAIN files, Take(gone)
  PROVE  CheckedEvidenceIsCommitted'
<1> SUFFICES ASSUME repository.present, NEW l \in lost', Tracked(l.path), l.checked
             PROVE  FALSE
  BY DEF CheckedEvidenceIsCommitted, Take, Tracked
<1>1. l \notin lost
  BY DEF ResetInv, CheckedEvidenceIsCommitted
<1>2. PICK p \in gone : <<p, files[p]>> \notin repository.history
                        /\ l = [path |-> p, checked |-> p \in reset.checked]
  BY <1>1 DEF Take
<1>3. l.path = p /\ p \in reset.checked
  BY <1>2
<1> QED BY <1>2, <1>3 DEF ResetInv

(* Every step keeps what a reset relies on. *)
LEMMA ResetInductive ==
  ASSUME ResetInv, [WorkspaceNext]_workspaceVars
  PROVE  ResetInv'
<1>1. CASE UNCHANGED workspaceVars
  BY <1>1 DEF workspaceVars, commandVars, resetVars, ResetInv, CheckedEvidenceIsCommitted, Tracked
<1>2. CASE CommandNext /\ UNCHANGED <<resetVars, focus>>
  <2>1. Grow /\ UNCHANGED <<reset, repository, lost>>
    BY <1>2, FilesGrow DEF resetVars
  <2>2. \A p \in DOMAIN files : Tracked(p) => files'[p] = files[p]
    BY <2>1, TrackedAssumption DEF Grow, Tracked, Rewritable
  <2> QED BY <2>1, <2>2 DEF ResetInv, CheckedEvidenceIsCommitted, Tracked, Grow
<1>3. CASE ResetNext
  <2>1. CASE Commit
    <3> DEFINE history == repository.history \cup {<<p, files[p]>> : p \in DOMAIN TrackedFiles}
    <3>1. repository' = [repository EXCEPT !.head = TrackedFiles, !.history = history]
          /\ UNCHANGED <<files, reset, lost>> /\ DOMAIN repository = {"present", "head", "history"}
      BY <2>1 DEF Commit, commandVars, ResetInv
    <3> HIDE DEF history
    <3>2. /\ repository'.head = TrackedFiles /\ repository'.history = history
          /\ repository'.present = repository.present /\ DOMAIN repository' = {"present", "head", "history"}
      BY <3>1
    <3>3. repository.history \subseteq history
          /\ \A p \in DOMAIN TrackedFiles : <<p, TrackedFiles[p]>> \in history
      BY DEF history, TrackedFiles
    <3> QED BY <3>1, <3>2, <3>3 DEF ResetInv, CheckedEvidenceIsCommitted, Tracked
  <2>2. CASE ResetInventory
    <3>1. UNCHANGED <<files, repository, lost>> /\ reset'.at # "checked"
          /\ DOMAIN reset' = {"at", "listed", "checked"}
      BY <2>2 DEF ResetInventory, commandVars, ResetInv
    <3> QED BY <3>1 DEF ResetInv, CheckedEvidenceIsCommitted, Tracked
  <2>3. CASE ResetCheck
    <3>1. UNCHANGED <<files, repository, lost>>
      BY <2>3 DEF ResetCheck, commandVars
    <3>2. /\ DOMAIN reset' = {"at", "listed", "checked"}
          /\ \/ reset'.at = "idle"
             \/ ~(repository.present /\ Dirty) /\ reset'.checked = DOMAIN files
      BY <2>3 DEF ResetCheck, ResetInv
    <3>3. ~Dirty => \A p \in DOMAIN files : Tracked(p) => <<p, files[p]>> \in repository.history
      <4> SUFFICES ASSUME ~Dirty, NEW p \in DOMAIN files, Tracked(p)
                   PROVE  <<p, files[p]>> \in repository.history
        OBVIOUS
      <4>1. p \in DOMAIN repository.head /\ repository.head[p] = files[p]
        BY DEF Dirty, TrackedFiles
      <4> QED BY <4>1 DEF ResetInv
    <3> QED BY <3>1, <3>2, <3>3 DEF ResetInv, CheckedEvidenceIsCommitted, Tracked
  <2>4. CASE RemoveStores
    <3>1. reset.at = "checked" /\ Take(DOMAIN files) /\ reset' = [reset EXCEPT !.at = "removed"]
      BY <2>4 DEF RemoveStores
    <3>2. CheckedEvidenceIsCommitted' /\ UNCHANGED repository
      BY <3>1, TakeKeeps DEF Take
    <3>3. reset'.at # "checked" /\ DOMAIN reset' = {"at", "listed", "checked"}
      BY <3>1 DEF ResetInv
    <3> QED BY <3>2, <3>3 DEF ResetInv
  <2>5. CASE RemoveSome
    <3>1. PICK p \in DOMAIN files : Take({p})
      BY <2>5 DEF RemoveSome
    <3>2. reset.at = "checked" /\ reset' = [reset EXCEPT !.at = "idle"] /\ {p} \in SUBSET DOMAIN files
      BY <2>5 DEF RemoveSome
    <3>3. CheckedEvidenceIsCommitted' /\ UNCHANGED repository
      BY <3>1, <3>2, TakeKeeps DEF Take
    <3>4. reset'.at # "checked" /\ DOMAIN reset' = {"at", "listed", "checked"}
      BY <3>2 DEF ResetInv
    <3> QED BY <3>3, <3>4 DEF ResetInv
  <2>6. CASE WriteReceipt \/ ResetKilled
    <3>1. UNCHANGED <<repository, lost>> /\ reset'.at # "checked" /\ DOMAIN reset' = {"at", "listed", "checked"}
      BY <2>6 DEF WriteReceipt, ResetKilled, ResetInv
    <3> QED BY <3>1 DEF ResetInv, CheckedEvidenceIsCommitted, Tracked
  <2> QED BY <1>3, <2>1, <2>2, <2>3, <2>4, <2>5, <2>6 DEF ResetNext
<1> QED BY <1>1, <1>2, <1>3 DEF WorkspaceNext

(* In a repository, what a removal takes of the evidence that was there    *)
(* when the reset asked git is in a commit, next to whatever commands run  *)
(* (CheckedEvidenceIsCommitted; evidenceDirtyPaths and resetWorkspace).    *)
THEOREM ResetIsSafe == WorkspaceSpec => []CheckedEvidenceIsCommitted
<1>1. WorkspaceInit => ResetInv
  <2> SUFFICES ASSUME WorkspaceInit
               PROVE  ResetInv
    OBVIOUS
  <2>1. reset = [at |-> "idle", listed |-> {}, checked |-> {}] /\ lost = {}
    BY DEF WorkspaceInit, ResetInit
  <2>2. PICK present \in BOOLEAN : repository = [present |-> present, head |-> files, history |-> {}]
    BY DEF WorkspaceInit, ResetInit
  <2>3. DOMAIN files = {}
    BY DEF WorkspaceInit
  <2> QED BY <2>1, <2>2, <2>3 DEF ResetInv, CheckedEvidenceIsCommitted
<1>2. ResetInv => CheckedEvidenceIsCommitted
  BY DEF ResetInv
<1> QED BY <1>1, <1>2, ResetInductive, PTL DEF WorkspaceSpec

-------------------------------------------------------------------------------
(* Every command works on the files of its own store.                      *)

Claims(k) == k.answer \in Answered
Active(k) == k.at \notin {"idle", "done"} \/ Claims(k)
Publishing(k, before) == k.at \in before \cup {"publish", "compare"} \/ (k.at = "done" /\ Claims(k))

(* What a command of the store f may be, until it has ended without a      *)
(* record to its name.                                                     *)
SagaFits(k) == k.op = "saga" /\ Publishing(k, {}) /\ k.path[1] = "sagas"
AdmissionFits(k) == k.op = "admission" /\ Publishing(k, {}) /\ k.path[1] = "admissions"
FeedbackFits(k) == k.op = "feedback" /\ Publishing(k, {"count"}) /\ k.path[1] = "store" /\ k.path[3] = "record"
RunFits(k) == k.op = "run" /\ Publishing(k, {}) /\ k.path[1] = "runs"
EstimateFits(k) == k.op = "estimate" /\ (k.at = "list" \/ (Publishing(k, {}) /\ k.path = StatePath(k.want)))
ClusterFits(k) == k.op = "cluster" /\ k.at \in {"list", "clusters"}
ReplayFits(k) == k.op = "replay" /\ (k.at \in {"plan", "load"} \/ (k.at = "step" /\ k.path[1] = "campaigns"))
GuardrailFits(k) ==
  /\ k.op = "guardrail" /\ Publishing(k, {"limit", "evaluate"}) /\ k.path[1] = "guardrail"
  /\ k.at = "publish" => k.want.action = k.read.action
BranchFits(k) == k.op = "branch" /\ Publishing(k, {"verify"}) /\ k.path[1] = "branches"
SealFits(k) ==
  \/ k.op = "init" /\ k.path = SealFile("commitment")
     /\ (k.at \in {"commitment", "manifest", "observed", "lock"} \/ (k.at = "done" /\ Claims(k)))
  \/ k.op = "reveal" /\ Publishing(k, {"read"}) /\ k.path = SealFile("reveal")
SuiteFits(k) == k.op = "suite" /\ Publishing(k, {"replay"}) /\ k.path[1] = "evaluations"
TransitionFits(k) == k.op = "transition" /\ Publishing(k, {"decide", "revalidate"}) /\ k.path[1] = "proposals"

Suits(f, k) ==
  \/ f = "saga" /\ SagaFits(k)
  \/ f = "admission" /\ AdmissionFits(k)
  \/ f \in {"feedback", "reset"} /\ (FeedbackFits(k) \/ RunFits(k))
  \/ f = "control" /\ (RunFits(k) \/ EstimateFits(k))
  \/ f = "cluster" /\ (RunFits(k) \/ ClusterFits(k))
  \/ f = "replay" /\ ReplayFits(k)
  \/ f = "guardrail" /\ GuardrailFits(k)
  \/ f = "branch" /\ BranchFits(k)
  \/ f = "seal" /\ SealFits(k)
  \/ f = "proposal" /\ (SuiteFits(k) \/ TransitionFits(k))

(* The answers that are not about a publication, and who gets them. *)
Fixed == {"clustered", "replayed", "drift"}
FixedFits(f, k) ==
  /\ k.answer = "clustered" => f = "cluster" /\ k.op = "cluster" /\ k.at = "done"
  /\ k.answer \in {"replayed", "drift"} => f = "replay"

Fits(f, k) == (k.at = "done" \/ k.answer = None) /\ (Active(k) => Suits(f, k)) /\ FixedFits(f, k)

(* The stores whose files there are. *)
InHome(f, store) ==
  \/ store = "resets"
  \/ f = "saga" /\ store = "sagas"
  \/ f = "admission" /\ store = "admissions"
  \/ f \in {"feedback", "reset"} /\ store \in {"store", "runs"}
  \/ f = "control" /\ store \in {"runs", "control"}
  \/ f = "cluster" /\ store \in {"runs", "clusters"}
  \/ f = "replay" /\ store = "campaigns"
  \/ f = "guardrail" /\ store \in {"guardrail", "evaluations"}
  \/ f = "branch" /\ store = "branches"
  \/ f = "seal" /\ store = "seal"
  \/ f = "proposal" /\ store \in {"evaluations", "proposals"}

Located == /\ Calls /\ \A c \in Caller : Fits(focus, call[c])
           /\ \A p \in DOMAIN files : InHome(focus, p[1])

(* None is no answer. *)
LEMMA NoneUnanswered == None \notin Answered
  BY NoneAssumption DEF Answered

(* Nobody gets those who has no answer, or one about a publication. *)
LEMMA UnfixedFits == \A f, k : k.answer = None \/ k.answer \notin Fixed \/ Claims(k) => FixedFits(f, k)
  BY NoneAssumption DEF Fixed, FixedFits, Claims, Answered

(* What a command publishes belongs to its store. *)
LEMMA PublishingFits ==
  ASSUME NEW f, NEW k, Suits(f, k), k.at = "publish"
  PROVE  InHome(f, k.path[1])
  BY DEF Suits, SagaFits, AdmissionFits, FeedbackFits, RunFits, EstimateFits, ClusterFits, ReplayFits, GuardrailFits,
         BranchFits, SealFits, SuiteFits, TransitionFits, InHome, StatePath, SealFile

(* A command that starts suits its store. *)
LEMMA StartFits ==
  ASSUME Located, NEW c \in Caller, NEW k, IsCommand(k), Fits(focus, k), Start(c, k), UNCHANGED <<files, focus>>
  PROVE  Located'
  BY StartMoves DEF Located

(* A command that goes on suits its store. *)
LEMMA UpdateFits ==
  ASSUME Located, NEW c \in Caller, NEW k, IsCommand(k), Fits(focus, k), Update(c, k), UNCHANGED focus,
         \A p \in DOMAIN files' : InHome(focus, p[1])
  PROVE  Located'
  BY CallsMove DEF Located, Update

(* Ending without a record to one's name always fits. *)
LEMMA EndFits ==
  ASSUME Located, NEW c \in Caller, NEW answer, Finish(c, answer), answer \notin Answered, UNCHANGED focus,
         answer \notin Fixed \/ (answer = "drift" /\ focus = "replay"), \A p \in DOMAIN files' : InHome(focus, p[1])
  PROVE  Located'
<1>1. Calls' /\ (\A d \in Caller \ {c} : call'[d] = call[d]) /\ call'[c].at = "done" /\ call'[c].answer = answer
  BY FinishMoves DEF Located
<1>2. Fits(focus, call'[c])
  BY <1>1, UnfixedFits DEF Fits, Active, Claims, FixedFits
<1> QED BY <1>1, <1>2 DEF Located

(* A command that only moves on keeps what it holds. *)
LEMMA GotoFits ==
  ASSUME Located, NEW c \in Caller, NEW at, Goto(c, at), at # "done", call[c].at # "done",
         \A k : (/\ k.op = call[c].op /\ k.path = call[c].path /\ k.want = call[c].want /\ k.read = call[c].read
                 /\ k.at = at) => Suits(focus, k),
         UNCHANGED focus, \A p \in DOMAIN files' : InHome(focus, p[1])
  PROVE  Located'
<1>1. /\ Calls' /\ \A d \in Caller \ {c} : call'[d] = call[d]
      /\ call'[c].at = at /\ call'[c].op = call[c].op /\ call'[c].path = call[c].path
      /\ call'[c].want = call[c].want /\ call'[c].read = call[c].read
      /\ call'[c].answer = call[c].answer
  BY GotoMoves DEF Located
<1>2. Fits(focus, call'[c])
  BY <1>1, UnfixedFits DEF Fits, Located
<1> QED BY <1>1, <1>2 DEF Located

(* A refused command fits, and one that is told apart by a publication. *)
LEMMA ComparesFit ==
  ASSUME Located, NEW c \in Caller, NEW same, Compare(c, same), UNCHANGED focus,
         \A k : (/\ k.op = call[c].op /\ k.path = call[c].path /\ k.want = call[c].want /\ k.read = call[c].read
                 /\ k.at = "done" /\ Claims(k)) => Suits(focus, k)
  PROVE  Located'
<1> DEFINE answer == IF ~Has(call[c].path) THEN "refused" ELSE IF same THEN "idempotent" ELSE "conflict"
<1>1. Finish(c, answer) /\ UNCHANGED files
  BY DEF Compare
<1> HIDE DEF answer
<1>2. CASE answer \notin Answered
  BY <1>1, <1>2, EndFits DEF Located, answer, Fixed
<1>3. CASE answer \in Answered
  <2>1. /\ Calls' /\ (\A d \in Caller \ {c} : call'[d] = call[d]) /\ call'[c].at = "done" /\ Claims(call'[c])
        /\ call'[c].op = call[c].op /\ call'[c].path = call[c].path /\ call'[c].want = call[c].want
        /\ call'[c].read = call[c].read
    BY <1>1, <1>3, FinishMoves DEF Located, Claims
  <2>2. Fits(focus, call'[c])
    BY <2>1, UnfixedFits DEF Fits
  <2> QED BY <1>1, <2>1, <2>2 DEF Located
<1> QED BY <1>2, <1>3

(* A publication, too: what it writes is in the store of the command. *)
LEMMA PublishFits ==
  ASSUME Located, NEW c \in Caller, Publish(c), UNCHANGED focus
  PROVE  Located'
<1>1. Fits(focus, call[c]) /\ call[c].at = "publish"
  BY DEF Publish, Located
<1>2. Suits(focus, call[c])
  BY <1>1 DEF Fits, Active
<1>3. \A k : (/\ k.op = call[c].op /\ k.path = call[c].path /\ k.want = call[c].want /\ k.read = call[c].read
              /\ (k.at = "compare" \/ (k.at = "done" /\ Claims(k)))) => Suits(focus, k)
  BY <1>1, <1>2 DEF Suits, SagaFits, AdmissionFits, FeedbackFits, RunFits, EstimateFits, ClusterFits, ReplayFits,
         GuardrailFits, BranchFits, SealFits, SuiteFits, TransitionFits, Publishing
<1>4. CASE ~Has(call[c].path) /\ files' = With(call[c].path, call[c].want) /\ Finish(c, "stored")
  <2>1. \A p \in DOMAIN files' : InHome(focus, p[1])
    <3>1. InHome(focus, call[c].path[1])
      BY <1>1, <1>2, PublishingFits
    <3>2. DOMAIN files' = DOMAIN files \cup {call[c].path}
      BY <1>4 DEF With
    <3> QED BY <3>1, <3>2 DEF Located
  <2>2. /\ Calls' /\ (\A d \in Caller \ {c} : call'[d] = call[d]) /\ call'[c].at = "done" /\ Claims(call'[c])
        /\ call'[c].op = call[c].op /\ call'[c].path = call[c].path /\ call'[c].want = call[c].want
        /\ call'[c].read = call[c].read
    BY <1>4, FinishMoves DEF Located, Claims, Answered
  <2>3. Fits(focus, call'[c])
    BY <1>3, <2>2, UnfixedFits DEF Fits
  <2> QED BY <2>1, <2>2, <2>3 DEF Located
<1>5. CASE Goto(c, "compare") /\ UNCHANGED files
  BY <1>1, <1>3, <1>5, GotoFits DEF Located
<1> QED BY <1>4, <1>5 DEF Publish

(* A refused command holds nothing. *)
LEMMA RefusedFits == \A f, op : IsCommand(Refused(op)) /\ Fits(f, Refused(op))
  BY NewCommands, NoneUnanswered, UnfixedFits DEF Fits, Active, Claims, Answered, Fixed

(* A new command only has to suit its store. *)
LEMMA CommandFits ==
  ASSUME NEW f, NEW op, NEW at, NEW path, NEW want, NEW read,
         \A k : (k.op = op /\ k.at = at /\ k.path = path /\ k.want = want /\ k.read = read) => Suits(f, k)
  PROVE  IsCommand(Command(op, at, path, want, read)) /\ Fits(f, Command(op, at, path, want, read))
  BY NewCommands, UnfixedFits DEF Fits

(* What is ingested. *)
LEMMA RunsFit ==
  ASSUME Located, focus \in {"feedback", "reset", "control", "cluster"}, NEW c \in Caller, NEW i, NEW content,
         IngestRunRecord(c, i, content), UNCHANGED focus
  PROVE  Located'
<1> DEFINE at == IF Has(RunRecord(i)) THEN "compare" ELSE "publish"
           k == Command("run", at, RunRecord(i), content, None)
<1>1. Start(c, k) /\ UNCHANGED files
  BY DEF IngestRunRecord
<1>2. at \in {"compare", "publish"} /\ RunRecord(i)[1] = "runs"
  BY DEF RunRecord
<1> HIDE DEF at
<1>3. IsCommand(k) /\ Fits(focus, k)
  BY <1>2, CommandFits DEF Suits, RunFits, Publishing
<1> HIDE DEF k
<1> QED BY <1>1, <1>3, StartFits

(* A new command only has to suit its store. *)
LEMMA CommandStarts ==
  ASSUME Located, NEW c \in Caller, NEW op, NEW at, NEW path, NEW want, NEW read,
         Start(c, Command(op, at, path, want, read)), UNCHANGED <<files, focus>>,
         \A k : (k.op = op /\ k.at = at /\ k.path = path /\ k.want = want /\ k.read = read) => Suits(focus, k)
  PROVE  Located'
<1> DEFINE k == Command(op, at, path, want, read)
<1>1. IsCommand(k) /\ Fits(focus, k)
  BY CommandFits
<1>2. Start(c, k)
  OBVIOUS
<1> HIDE DEF k
<1> QED BY <1>1, <1>2, StartFits

(* A command may be refused in any store. *)
LEMMA RefusalStarts ==
  ASSUME Located, NEW c \in Caller, NEW op, Start(c, Refused(op)), UNCHANGED <<files, focus>>
  PROVE  Located'
<1> DEFINE k == Refused(op)
<1>1. IsCommand(k) /\ Fits(focus, k)
  BY RefusedFits
<1>2. Start(c, k)
  OBVIOUS
<1> HIDE DEF k
<1> QED BY <1>1, <1>2, StartFits

(* What an active command of each store is. *)
LEMMA ActiveSuits == ASSUME Located, NEW c \in Caller, Active(call[c]) PROVE Suits(focus, call[c])
  BY DEF Located, Fits

(* The steps of saga.ts keep to their store. *)
LEMMA SagasFit == ASSUME Located, focus = "saga", SagaNext, UNCHANGED focus PROVE Located'
<1>1. ASSUME NEW c \in Caller, NEW i, NEW payload, Begin(c, i, payload)
      PROVE  Located'
  <2>1. Start(c, Command("saga", "publish", Intent(i), payload, None)) /\ UNCHANGED <<files, focus>>
    BY <1>1 DEF Begin
  <2>2. \A k : (k.op = "saga" /\ k.at = "publish" /\ k.path = Intent(i) /\ k.want = payload /\ k.read = None)
               => Suits(focus, k)
    BY DEF Suits, SagaFits, Publishing, Intent
  <2> QED BY <2>1, <2>2, CommandStarts
<1>2. ASSUME NEW c \in Caller, NEW i, NEW outcome, Complete(c, i, outcome)
      PROVE  Located'
  <2>1. \/ Start(c, Command("saga", "publish", SagaReceipt(i), outcome, None)) /\ UNCHANGED <<files, focus>>
        \/ Start(c, Refused("saga")) /\ UNCHANGED <<files, focus>>
    BY <1>2 DEF Complete
  <2>2. \A k : (k.op = "saga" /\ k.at = "publish" /\ k.path = SagaReceipt(i) /\ k.want = outcome /\ k.read = None)
               => Suits(focus, k)
    BY DEF Suits, SagaFits, Publishing, SagaReceipt
  <2> QED BY <2>1, <2>2, CommandStarts, RefusalStarts
<1>3. ASSUME NEW c \in Caller, call[c].op = "saga", Compare(c, SameSaga(Found(c), call[c].want))
      PROVE  Located'
  <2> DEFINE same == SameSaga(Found(c), call[c].want)
  <2>1. Compare(c, same) /\ Suits(focus, call[c])
    BY <1>3, ActiveSuits DEF Compare, Active
  <2> HIDE DEF same
  <2> QED BY <2>1, ComparesFit DEF Suits, SagaFits, Publishing
<1> QED BY <1>1, <1>2, <1>3 DEF SagaNext

(* The steps of admission.ts keep to their store. *)
LEMMA AdmissionsFit == ASSUME Located, focus = "admission", AdmissionNext, UNCHANGED focus PROVE Located'
<1>1. ASSUME NEW c \in Caller, NEW i, NEW candidate, Issue(c, i, candidate)
      PROVE  Located'
  <2> DEFINE want == [candidate |-> candidate, nonce |-> made]
  <2>1. Start(c, Command("admission", "publish", Challenge(i), want, None)) /\ UNCHANGED <<files, focus>>
    BY <1>1 DEF Issue
  <2> HIDE DEF want
  <2>2. \A k : (k.op = "admission" /\ k.at = "publish" /\ k.path = Challenge(i) /\ k.want = want /\ k.read = None)
               => Suits(focus, k)
    BY DEF Suits, AdmissionFits, Publishing, Challenge
  <2> QED BY <2>1, <2>2, CommandStarts
<1>2. ASSUME NEW c \in Caller, NEW i, NEW result, CompleteAdmission(c, i, result)
      PROVE  Located'
  <2> DEFINE receipt == AnsweredBy(result, i)
  <2>1. \/ Start(c, Command("admission", "publish", AdmissionReceipt(i), receipt, None)) /\ UNCHANGED <<files, focus>>
        \/ Start(c, Refused("admission")) /\ UNCHANGED <<files, focus>>
    BY <1>2 DEF CompleteAdmission
  <2> HIDE DEF receipt
  <2>2. \A k : (/\ k.op = "admission" /\ k.at = "publish" /\ k.path = AdmissionReceipt(i) /\ k.want = receipt
                /\ k.read = None) => Suits(focus, k)
    BY DEF Suits, AdmissionFits, Publishing, AdmissionReceipt
  <2> QED BY <2>1, <2>2, CommandStarts, RefusalStarts
<1>3. ASSUME NEW i, NEW outcome, Probe(i, outcome)
      PROVE  Located'
  BY <1>3 DEF Probe, Located, Calls
<1>4. ASSUME NEW c \in Caller, call[c].op = "admission", Compare(c, SameAdmission(Found(c), call[c].want))
      PROVE  Located'
  <2> DEFINE same == SameAdmission(Found(c), call[c].want)
  <2>1. Compare(c, same) /\ Suits(focus, call[c])
    BY <1>4, ActiveSuits DEF Compare, Active
  <2> HIDE DEF same
  <2> QED BY <2>1, ComparesFit DEF Suits, AdmissionFits, Publishing
<1> QED BY <1>1, <1>2, <1>3, <1>4 DEF AdmissionNext

(* Run records are compared like any record. *)
LEMMA RunComparesFit ==
  ASSUME Located, focus \in {"feedback", "reset", "control", "cluster"}, NEW c \in Caller,
         call[c].op \in {"run", "feedback"}, NEW same, Compare(c, same), UNCHANGED focus
  PROVE  Located'
<1>1. Suits(focus, call[c])
  BY ActiveSuits DEF Compare, Active
<1> QED BY <1>1, ComparesFit
        DEF Suits, RunFits, FeedbackFits, EstimateFits, ClusterFits, Publishing

(* The steps of store.ts keep to their store. *)
LEMMA FeedbackFitsStore ==
  ASSUME Located, focus \in {"feedback", "reset"}, FeedbackNext, UNCHANGED focus PROVE Located'
<1>1. ASSUME NEW c \in Caller, NEW i, NEW content, IngestFeedback(c, i, content)
      PROVE  Located'
  <2> DEFINE at == IF Has(Feedback(i)) THEN "compare" ELSE "count"
  <2>1. \/ Start(c, Command("feedback", at, Feedback(i), content, None)) /\ UNCHANGED <<files, focus>>
        \/ Start(c, Refused("feedback")) /\ UNCHANGED <<files, focus>>
    BY <1>1 DEF IngestFeedback
  <2>2. at \in {"compare", "count"}
    OBVIOUS
  <2> HIDE DEF at
  <2>3. \A k : (k.op = "feedback" /\ k.at = at /\ k.path = Feedback(i) /\ k.want = content /\ k.read = None)
               => Suits(focus, k)
    BY <2>2 DEF Suits, FeedbackFits, Publishing, Feedback
  <2> QED BY <2>1, <2>3, CommandStarts, RefusalStarts
<1>2. ASSUME NEW c \in Caller, NEW i, NEW content, IngestRunRecord(c, i, content)
      PROVE  Located'
  BY <1>2, RunsFit
<1>3. ASSUME NEW c \in Caller, CountRecords(c)
      PROVE  Located'
  <2>1. call[c].at = "count" /\ Suits(focus, call[c]) /\ UNCHANGED files
    BY <1>3, ActiveSuits DEF CountRecords, Active
  <2>2. CASE Finish(c, "limit")
    BY <2>1, <2>2, EndFits DEF Answered, Fixed, Located
  <2>3. CASE Goto(c, "publish")
    <3>1. \A k : (/\ k.op = call[c].op /\ k.path = call[c].path /\ k.want = call[c].want /\ k.read = call[c].read
                  /\ k.at = "publish") => Suits(focus, k)
      BY <2>1 DEF Suits, RunFits, FeedbackFits, Publishing
    <3> QED BY <2>1, <2>3, <3>1, GotoFits DEF Located
  <2> QED BY <1>3, <2>2, <2>3 DEF CountRecords
<1>4. ASSUME NEW c \in Caller, call[c].op \in {"feedback", "run"}, Compare(c, SameRecord(Found(c), call[c].want))
      PROVE  Located'
  <2> DEFINE same == SameRecord(Found(c), call[c].want)
  <2>1. Compare(c, same)
    BY <1>4
  <2> HIDE DEF same
  <2> QED BY <1>4, <2>1, RunComparesFit
<1> QED BY <1>1, <1>2, <1>3, <1>4 DEF FeedbackNext

(* The ingestion of a run keeps to its store. *)
LEMMA RunsIngested ==
  ASSUME Located, focus \in {"control", "cluster"}, NEW c \in Caller, NEW i, NEW run, IngestRun(c, i, run),
         UNCHANGED focus
  PROVE  Located'
<1>1. \/ IngestRunRecord(c, i, run)
      \/ Start(c, Refused("run")) /\ UNCHANGED <<files, focus>>
  BY DEF IngestRun
<1> QED BY <1>1, RunsFit, RefusalStarts

(* The steps of the estimator keep to their store. *)
LEMMA ControlFits == ASSUME Located, focus = "control", ControlNext, UNCHANGED focus PROVE Located'
<1>1. ASSUME NEW c \in Caller, NEW i, NEW run, IngestRun(c, i, run)
      PROVE  Located'
  BY <1>1, RunsIngested
<1>2. ASSUME NEW c \in Caller, NEW batch, Estimate(c, batch)
      PROVE  Located'
  <2> DEFINE read == [batch |-> batch, names |-> Named("runs", "record")]
  <2>1. Start(c, Command("estimate", "list", None, None, read)) /\ UNCHANGED <<files, focus>>
    BY <1>2 DEF Estimate
  <2> HIDE DEF read
  <2>2. \A k : (k.op = "estimate" /\ k.at = "list" /\ k.path = None /\ k.want = None /\ k.read = read)
               => Suits(focus, k)
    BY DEF Suits, EstimateFits
  <2> QED BY <2>1, <2>2, CommandStarts
<1>3. ASSUME NEW c \in Caller, ReadBatch(c)
      PROVE  Located'
  <2> DEFINE state == BuildState(Selected(call[c].read.names, call[c].read.batch), call[c].read.batch)
             path == StatePath(state)
             k == [call[c] EXCEPT !.at = "publish", !.path = path, !.want = state]
  <2>1. /\ call[c].op = "estimate" /\ call[c].at = "list" /\ UNCHANGED files
        /\ Update(c, k) \/ Finish(c, "refused")
    BY <1>3 DEF ReadBatch
  <2>2. CASE Finish(c, "refused")
    BY <2>1, <2>2, EndFits DEF Answered, Fixed, Located
  <2>3. CASE Update(c, k)
    <3> HIDE DEF state, path
    <3>1. /\ IsCommand(k) /\ k.op = "estimate" /\ k.at = "publish" /\ k.path = StatePath(k.want)
          /\ k.answer = call[c].answer
      <4>1. IsCommand(call[c]) /\ k = [call[c] EXCEPT !.at = "publish", !.path = path, !.want = state]
        BY DEF Located, Calls
      <4> HIDE DEF k
      <4>2. /\ IsCommand(k) /\ k.op = call[c].op /\ k.at = "publish" /\ k.path = path /\ k.want = state
            /\ k.answer = call[c].answer
        BY <4>1 DEF IsCommand
      <4> QED BY <2>1, <4>2 DEF path
    <3>2. call[c].answer = None
      BY <2>1 DEF Located, Fits
    <3>3. Fits(focus, k)
      BY <3>1, <3>2, UnfixedFits DEF Fits, Suits, EstimateFits, Publishing
    <3> HIDE DEF k
    <3> QED BY <2>1, <2>3, <3>1, <3>3, UpdateFits DEF Located
  <2> QED BY <2>1, <2>2, <2>3
<1>4. ASSUME NEW c \in Caller, call[c].op = "run", Compare(c, SameRecord(Found(c), call[c].want))
      PROVE  Located'
  <2> DEFINE same == SameRecord(Found(c), call[c].want)
  <2>1. Compare(c, same)
    BY <1>4
  <2> HIDE DEF same
  <2> QED BY <1>4, <2>1, RunComparesFit
<1>5. ASSUME NEW c \in Caller, call[c].op = "estimate", Compare(c, SameState(Found(c), call[c].want))
      PROVE  Located'
  <2> DEFINE same == SameState(Found(c), call[c].want)
  <2>1. Compare(c, same) /\ Suits(focus, call[c])
    BY <1>5, ActiveSuits DEF Compare, Active
  <2>2. call[c].at = "compare"
    BY <1>5 DEF Compare
  <2> HIDE DEF same
  <2>3. \A k : (/\ k.op = call[c].op /\ k.path = call[c].path /\ k.want = call[c].want /\ k.read = call[c].read
                /\ k.at = "done" /\ Claims(k)) => Suits(focus, k)
    BY <1>5, <2>1, <2>2 DEF Suits, RunFits, EstimateFits, Publishing
  <2> QED BY <2>1, <2>3, ComparesFit
<1> QED BY <1>1, <1>2, <1>3, <1>4, <1>5 DEF ControlNext

(* The steps of clustering.ts keep to their store. *)
LEMMA ClustersFit == ASSUME Located, focus = "cluster", ClusterNext, UNCHANGED focus PROVE Located'
<1>1. ASSUME NEW c \in Caller, NEW i, NEW run, IngestRun(c, i, run)
      PROVE  Located'
  BY <1>1, RunsIngested
<1>2. ASSUME NEW c \in Caller, NEW batch, ClusterRuns(c, batch)
      PROVE  Located'
  <2> DEFINE read == [batch |-> batch, names |-> Named("runs", "record")]
  <2>1. Start(c, Command("cluster", "list", None, {}, read)) /\ UNCHANGED <<files, focus>>
    BY <1>2 DEF ClusterRuns
  <2> HIDE DEF read
  <2>2. \A k : (k.op = "cluster" /\ k.at = "list" /\ k.path = None /\ k.want = {} /\ k.read = read)
               => Suits(focus, k)
    BY DEF Suits, ClusterFits
  <2> QED BY <2>1, <2>2, CommandStarts
<1>3. ASSUME NEW c \in Caller, NEW rest, call[c].op = "cluster", call[c].at \in {"list", "clusters"},
             Clustered(c, rest), \A p \in DOMAIN files' : InHome(focus, p[1])
      PROVE  Located'
  <2> DEFINE k == IF rest = {} THEN [call[c] EXCEPT !.at = "done", !.want = rest, !.answer = "clustered"]
                  ELSE [call[c] EXCEPT !.at = "clusters", !.want = rest]
  <2>1. IsCommand(call[c]) /\ Update(c, k) /\ call[c].answer = None
    BY <1>3 DEF Clustered, Located, Calls, Fits
  <2>2. IsCommand(k) /\ Fits(focus, k)
    <3>1. CASE rest = {}
      <4>1. k = [call[c] EXCEPT !.at = "done", !.want = rest, !.answer = "clustered"]
        BY <3>1
      <4> HIDE DEF k
      <4>2. IsCommand(k) /\ k.at = "done" /\ k.answer = "clustered" /\ k.op = "cluster"
        BY <1>3, <2>1, <4>1 DEF IsCommand
      <4> QED BY <4>2 DEF Fits, Active, Claims, Answered, FixedFits
    <3>2. CASE rest # {}
      <4>1. k = [call[c] EXCEPT !.at = "clusters", !.want = rest]
        BY <3>2
      <4> HIDE DEF k
      <4>2. IsCommand(k) /\ k.at = "clusters" /\ k.op = "cluster" /\ k.answer = None
        BY <1>3, <2>1, <4>1 DEF IsCommand
      <4> QED BY <4>2, UnfixedFits DEF Fits, Suits, ClusterFits
    <3> QED BY <3>1, <3>2
  <2> HIDE DEF k
  <2> QED BY <1>3, <2>1, <2>2, UpdateFits
<1>4. ASSUME NEW c \in Caller, GroupRuns(c)
      PROVE  Located'
  <2>1. /\ call[c].op = "cluster" /\ call[c].at = "list" /\ UNCHANGED files
        /\ \E rest : Clustered(c, rest)
    BY <1>4 DEF GroupRuns
  <2> QED BY <1>3, <2>1 DEF Located
<1>5. ASSUME NEW c \in Caller, PublishCluster(c)
      PROVE  Located'
  <2>1. call[c].op = "cluster" /\ call[c].at = "clusters"
    BY <1>5 DEF PublishCluster
  <2>2. PICK cluster \in call[c].want :
          LET path == ClusterFile(cluster.signature)
          IN  \/ /\ ~Has(path)
                 /\ files' = With(path, cluster.members)
                 /\ Clustered(c, call[c].want \ {cluster})
              \/ /\ Has(path) /\ UNCHANGED files
                 /\ IF files[path] = cluster.members THEN Clustered(c, call[c].want \ {cluster})
                    ELSE Finish(c, "conflict")
    BY <1>5 DEF PublishCluster
  <2>3. \A p \in DOMAIN files' : InHome(focus, p[1])
    BY <2>2 DEF With, Located, ClusterFile, InHome
  <2>4. CASE Finish(c, "conflict")
    BY <2>3, <2>4, EndFits DEF Answered, Fixed
  <2>5. CASE Clustered(c, call[c].want \ {cluster})
    BY <1>3, <2>1, <2>3, <2>5
  <2> QED BY <2>2, <2>4, <2>5
<1>6. ASSUME NEW c \in Caller, call[c].op = "run", Compare(c, SameRecord(Found(c), call[c].want))
      PROVE  Located'
  <2> DEFINE same == SameRecord(Found(c), call[c].want)
  <2>1. Compare(c, same)
    BY <1>6
  <2> HIDE DEF same
  <2> QED BY <1>6, <2>1, RunComparesFit
<1> QED BY <1>1, <1>2, <1>4, <1>5, <1>6 DEF ClusterNext

(* A replay that goes on, or has an answer. *)
LEMMA SnapshottingFits ==
  ASSUME Located, focus = "replay", NEW c \in Caller, NEW state,
         \/ \E target : Snapshotting(c, state, target)
         \/ Replayed(c, state),
         UNCHANGED focus, \A p \in DOMAIN files' : InHome(focus, p[1])
  PROVE  Located'
<1>1. ASSUME NEW target, Snapshotting(c, state, target)
      PROVE  Located'
  <2> DEFINE read == [target |-> target]
             k == Command("replay", "step", StepFile(state.step), state, read)
  <2>1. Update(c, k)
    BY <1>1 DEF Snapshotting
  <2>2. StepFile(state.step)[1] = "campaigns"
    BY DEF StepFile
  <2> HIDE DEF read
  <2>3. IsCommand(k) /\ k.op = "replay" /\ k.at = "step" /\ k.path = StepFile(state.step) /\ k.answer = None
    BY NewCommands
  <2> HIDE DEF k
  <2>4. Fits(focus, k)
    BY <2>2, <2>3, UnfixedFits DEF Fits, Suits, ReplayFits
  <2> QED BY <2>1, <2>3, <2>4, UpdateFits
<1>2. ASSUME Replayed(c, state)
      PROVE  Located'
  <2> DEFINE old == Command("replay", "done", StepFile(state.step), state, None)
             k == [old EXCEPT !.answer = "replayed"]
  <2>1. Update(c, k)
    BY <1>2 DEF Replayed
  <2>2. IsCommand(old) /\ old.at = "done"
    BY NewCommands
  <2> HIDE DEF old
  <2>3. k = [old EXCEPT !.answer = "replayed"]
    OBVIOUS
  <2> HIDE DEF k
  <2>4. IsCommand(k) /\ k.at = "done" /\ k.answer = "replayed"
    BY <2>2, <2>3 DEF IsCommand
  <2>5. Fits(focus, k)
    BY <2>4 DEF Fits, Active, Claims, Answered, FixedFits
  <2> QED BY <2>1, <2>4, <2>5, UpdateFits
<1> QED BY <1>1, <1>2

(* The steps of campaign-replay.ts keep to their store. *)
LEMMA ReplaysFit == ASSUME Located, focus = "replay", ReplayNext, UNCHANGED focus PROVE Located'
<1>1. ASSUME NEW c \in Caller, NEW plan, PrepareReplay(c, plan)
      PROVE  Located'
  <2>1. \/ Start(c, Command("replay", "plan", PlanFile, plan, None)) /\ UNCHANGED <<files, focus>>
        \/ Start(c, Refused("replay")) /\ UNCHANGED <<files, focus>>
    BY <1>1 DEF PrepareReplay
  <2>2. \A k : (k.op = "replay" /\ k.at = "plan" /\ k.path = PlanFile /\ k.want = plan /\ k.read = None)
               => Suits(focus, k)
    BY DEF Suits, ReplayFits
  <2> QED BY <2>1, <2>2, CommandStarts, RefusalStarts
<1>2. ASSUME NEW c \in Caller, NEW steps, ReplayCampaign(c, steps)
      PROVE  Located'
  <2> DEFINE read == [steps |-> steps]
             want == files[PlanFile]
  <2>1. \/ Start(c, Command("replay", "load", None, want, read)) /\ UNCHANGED <<files, focus>>
        \/ Start(c, Refused("replay")) /\ UNCHANGED <<files, focus>>
    BY <1>2 DEF ReplayCampaign
  <2> HIDE DEF read, want
  <2>2. \A k : (k.op = "replay" /\ k.at = "load" /\ k.path = None /\ k.want = want /\ k.read = read)
               => Suits(focus, k)
    BY DEF Suits, ReplayFits
  <2> QED BY <2>1, <2>2, CommandStarts, RefusalStarts
<1>3. ASSUME NEW c \in Caller, PublishPlan(c)
      PROVE  Located'
  <2>1. files' = IF Has(PlanFile) THEN files ELSE With(PlanFile, call[c].want)
    BY <1>3 DEF PublishPlan
  <2>2. \A p \in DOMAIN files' : InHome(focus, p[1])
    BY <2>1 DEF With, Located, PlanFile, InHome
  <2>3. \/ \E state, target : Snapshotting(c, state, target)
        \/ Finish(c, "conflict")
    BY <1>3 DEF PublishPlan
  <2> QED BY <2>2, <2>3, SnapshottingFits, EndFits DEF Answered, Fixed
<1>4. ASSUME NEW c \in Caller, LoadCampaign(c)
      PROVE  Located'
  <2>1. /\ UNCHANGED files
        /\ \/ Finish(c, "drift")
           \/ \E state : (\E target : Snapshotting(c, state, target)) \/ Replayed(c, state)
    BY <1>4 DEF LoadCampaign
  <2>2. \A p \in DOMAIN files' : InHome(focus, p[1])
    BY <2>1 DEF Located
  <2> QED BY <2>1, <2>2, SnapshottingFits, EndFits DEF Answered, Fixed
<1>5. ASSUME NEW c \in Caller, PublishStep(c)
      PROVE  Located'
  <2>1. /\ call[c].op = "replay" /\ call[c].at = "step"
        /\ files' = IF Has(call[c].path) THEN files ELSE With(call[c].path, call[c].want)
    BY <1>5 DEF PublishStep
  <2>2. call[c].path[1] = "campaigns"
    BY <2>1, ActiveSuits DEF Suits, ReplayFits, Active
  <2>3. \A p \in DOMAIN files' : InHome(focus, p[1])
    BY <2>1, <2>2 DEF With, Located, InHome
  <2>4. \/ Finish(c, "drift")
        \/ \E state : (\E target : Snapshotting(c, state, target)) \/ Replayed(c, state)
    BY <1>5 DEF PublishStep
  <2> QED BY <2>3, <2>4, SnapshottingFits, EndFits DEF Answered, Fixed
<1>6. CASE EditInput
  BY <1>6 DEF EditInput, Located, Calls
<1> QED BY <1>1, <1>2, <1>3, <1>4, <1>5, <1>6 DEF ReplayNext

(* The steps of guardrail.ts keep to their store. *)
LEMMA GuardrailsFit == ASSUME Located, focus = "guardrail", GuardrailNext, UNCHANGED focus PROVE Located'
<1>1. ASSUME NEW c \in Caller, NEW i, NEW action, NEW approval, Record(c, i, action, approval)
      PROVE  Located'
  <2> DEFINE at == IF Has(Decision(i)) THEN "compare" ELSE "limit"
             read == [action |-> action, approval |-> approval]
  <2>1. Start(c, Command("guardrail", at, Decision(i), None, read)) /\ UNCHANGED <<files, focus>>
    BY <1>1 DEF Record
  <2>2. at \in {"compare", "limit"}
    OBVIOUS
  <2> HIDE DEF at, read
  <2>3. \A k : (k.op = "guardrail" /\ k.at = at /\ k.path = Decision(i) /\ k.want = None /\ k.read = read)
               => Suits(focus, k)
    BY <2>2 DEF Suits, GuardrailFits, Publishing, Decision
  <2> QED BY <2>1, <2>3, CommandStarts
<1>2. ASSUME NEW c \in Caller, EnforceRateLimit(c)
      PROVE  Located'
  <2>1. call[c].at = "limit" /\ Suits(focus, call[c]) /\ UNCHANGED files
    BY <1>2, ActiveSuits DEF EnforceRateLimit, Active
  <2>2. CASE Finish(c, "limit")
    BY <2>1, <2>2, EndFits DEF Answered, Fixed, Located
  <2>3. CASE Goto(c, "evaluate")
    <3>1. \A k : (/\ k.op = call[c].op /\ k.path = call[c].path /\ k.want = call[c].want /\ k.read = call[c].read
                  /\ k.at = "evaluate") => Suits(focus, k)
      BY <2>1 DEF Suits, GuardrailFits, Publishing
    <3> QED BY <2>1, <2>3, <3>1, GotoFits DEF Located
  <2> QED BY <1>2, <2>2, <2>3 DEF EnforceRateLimit
<1>3. ASSUME NEW c \in Caller, Judge(c)
      PROVE  Located'
  <2> DEFINE want == Evaluate(call[c].read.action, call[c].read.approval)
             k == [call[c] EXCEPT !.at = "publish", !.want = want]
  <2>1. /\ call[c].at = "evaluate" /\ Suits(focus, call[c]) /\ UNCHANGED files /\ Update(c, k)
        /\ IsCommand(call[c]) /\ call[c].answer = None
    BY <1>3, ActiveSuits DEF Judge, Active, Located, Calls, Fits
  <2>2. want.action = call[c].read.action
    BY DEF Evaluate
  <2> HIDE DEF want
  <2>3. k = [call[c] EXCEPT !.at = "publish", !.want = want]
    OBVIOUS
  <2> HIDE DEF k
  <2>4. /\ IsCommand(k) /\ k.op = call[c].op /\ k.at = "publish" /\ k.path = call[c].path /\ k.want = want
        /\ k.read = call[c].read /\ k.answer = None
    BY <2>1, <2>3 DEF IsCommand
  <2>5. Fits(focus, k)
    BY <2>1, <2>2, <2>4, UnfixedFits DEF Fits, Suits, GuardrailFits, Publishing
  <2> QED BY <2>1, <2>4, <2>5, UpdateFits DEF Located
<1>4. ASSUME NEW c \in Caller, Repeat(c)
      PROVE  Located'
  <2>1. /\ call[c].op = "guardrail" /\ call[c].at = "compare" /\ UNCHANGED files
        /\ \E answer \in {"refused", "conflict", "stale", "idempotent"} : Finish(c, answer)
    BY <1>4 DEF Repeat
  <2>2. PICK answer \in {"refused", "conflict", "stale", "idempotent"} : Finish(c, answer)
    BY <2>1
  <2>3. CASE answer \notin Answered
    BY <2>1, <2>2, <2>3, EndFits DEF Located, Fixed
  <2>4. CASE answer \in Answered
    <3>1. /\ Calls' /\ (\A d \in Caller \ {c} : call'[d] = call[d]) /\ call'[c].at = "done" /\ Claims(call'[c])
          /\ call'[c].op = "guardrail" /\ call'[c].path = call[c].path
      BY <2>1, <2>2, <2>4, FinishMoves DEF Located, Claims
    <3>2. call[c].path[1] = "guardrail"
      BY <2>1, ActiveSuits DEF Active, Suits, GuardrailFits
    <3>3. Fits(focus, call'[c])
      BY <3>1, <3>2, UnfixedFits DEF Fits, Suits, GuardrailFits, Publishing
    <3> QED BY <2>1, <3>1, <3>3 DEF Located
  <2> QED BY <2>3, <2>4
<1>5. ASSUME NEW artifact, Quarantine(artifact)
      PROVE  Located'
  BY <1>5 DEF Quarantine, Located, Calls, With, HardStop, InHome
<1>6. CASE ApprovalLapses \/ WindowPasses
  BY <1>6 DEF ApprovalLapses, WindowPasses, Located, Calls
<1> QED BY <1>1, <1>2, <1>3, <1>4, <1>5, <1>6 DEF GuardrailNext

(* The steps of branch.ts keep to their store. *)
LEMMA BranchesFit == ASSUME Located, focus = "branch", BranchNext, UNCHANGED focus PROVE Located'
<1>1. ASSUME NEW c \in Caller, NEW b, NEW parent, RecordBranch(c, b, parent)
      PROVE  Located'
  <2> DEFINE want == [parent |-> parent, draft |-> outside.draft[b]]
  <2>1. \/ Start(c, Command("branch", "publish", Branch(b), want, None)) /\ UNCHANGED <<files, focus>>
        \/ Start(c, Refused("branch")) /\ UNCHANGED <<files, focus>>
    BY <1>1 DEF RecordBranch
  <2> HIDE DEF want
  <2>2. \A k : (k.op = "branch" /\ k.at = "publish" /\ k.path = Branch(b) /\ k.want = want /\ k.read = None)
               => Suits(focus, k)
    BY DEF Suits, BranchFits, Publishing, Branch
  <2> QED BY <2>1, <2>2, CommandStarts, RefusalStarts
<1>2. ASSUME NEW c \in Caller, NEW b, NEW receipt, EvaluateBranch(c, b, receipt)
      PROVE  Located'
  <2> DEFINE want == [branch |-> b, receipt |-> receipt]
             diagnosed == [branch |-> b, receipt |-> None]
  <2>1. /\ \/ Start(c, Command("branch", "publish", Diagnosis(made), diagnosed, None))
           \/ Start(c, Command("branch", "verify", EvaluationOf(receipt.exec), want, None))
           \/ Start(c, Refused("branch"))
        /\ UNCHANGED <<files, focus>>
    BY <1>2 DEF EvaluateBranch
  <2> HIDE DEF want, diagnosed
  <2>2. \A k : (k.op = "branch" /\ k.at = "publish" /\ k.path = Diagnosis(made) /\ k.want = diagnosed /\ k.read = None)
               => Suits(focus, k)
    BY DEF Suits, BranchFits, Publishing, Diagnosis
  <2>3. \A k : (/\ k.op = "branch" /\ k.at = "verify" /\ k.path = EvaluationOf(receipt.exec) /\ k.want = want
                /\ k.read = None) => Suits(focus, k)
    BY DEF Suits, BranchFits, Publishing, EvaluationOf
  <2> QED BY <2>1, <2>2, <2>3, CommandStarts, RefusalStarts
<1>3. ASSUME NEW c \in Caller, VerifyArchive(c)
      PROVE  Located'
  <2>1. call[c].at = "verify" /\ Suits(focus, call[c]) /\ UNCHANGED files
    BY <1>3, ActiveSuits DEF VerifyArchive, Active
  <2>2. CASE Finish(c, "conflict")
    BY <2>1, <2>2, EndFits DEF Answered, Fixed, Located
  <2>3. CASE Goto(c, "publish")
    <3>1. \A k : (/\ k.op = call[c].op /\ k.path = call[c].path /\ k.want = call[c].want /\ k.read = call[c].read
                  /\ k.at = "publish") => Suits(focus, k)
      BY <2>1 DEF Suits, BranchFits, Publishing
    <3> QED BY <2>1, <2>3, <3>1, GotoFits DEF Located
  <2> QED BY <1>3, <2>2, <2>3 DEF VerifyArchive
<1>4. ASSUME NEW c \in Caller, call[c].op = "branch", Compare(c, SameBranchRecord(Found(c), call[c].want))
      PROVE  Located'
  <2> DEFINE same == SameBranchRecord(Found(c), call[c].want)
  <2>1. Compare(c, same) /\ Suits(focus, call[c])
    BY <1>4, ActiveSuits DEF Compare, Active
  <2> HIDE DEF same
  <2> QED BY <2>1, ComparesFit DEF Suits, BranchFits, Publishing
<1>5. ASSUME NEW b, EditDraft(b)
      PROVE  Located'
  BY <1>5 DEF EditDraft, Located, Calls
<1> QED BY <1>1, <1>2, <1>3, <1>4, <1>5 DEF BranchNext

(* The order of the files of a seal. *)
LEMMA FollowingParts ==
  /\ Following("commitment") = "manifest" /\ Following("manifest") = "observed" /\ Following("observed") = "lock"
  /\ Parts[1] = "commitment" /\ Parts[2] = "manifest" /\ Parts[3] = "observed" /\ Parts[4] = "lock"
<1>1. /\ Parts[1] = "commitment" /\ Parts[2] = "manifest" /\ Parts[3] = "observed" /\ Parts[4] = "lock"
  BY DEF Parts
<1>2. \A n \in 1..4 : n = 1 \/ n = 2 \/ n = 3 \/ n = 4
  OBVIOUS
<1>3. (CHOOSE n \in 1..4 : Parts[n] = "commitment") = 1
  BY <1>1, <1>2
<1>4. (CHOOSE n \in 1..4 : Parts[n] = "manifest") = 2
  BY <1>1, <1>2
<1>5. (CHOOSE n \in 1..4 : Parts[n] = "observed") = 3
  BY <1>1, <1>2
<1> QED BY <1>1, <1>3, <1>4, <1>5 DEF Following

(* The steps of seal.ts keep to their store. *)
LEMMA SealsFit == ASSUME Located, focus = "seal", SealNext, UNCHANGED focus PROVE Located'
<1>1. ASSUME NEW c \in Caller, NEW holdout, SealInit(c, holdout)
      PROVE  Located'
  <2> DEFINE want == [seal |-> made, holdout |-> holdout]
  <2>1. \/ Start(c, Command("init", "commitment", SealFile("commitment"), want, None)) /\ UNCHANGED <<files, focus>>
        \/ Start(c, Refused("init")) /\ UNCHANGED <<files, focus>>
    BY <1>1 DEF SealInit
  <2> HIDE DEF want
  <2>2. \A k : (/\ k.op = "init" /\ k.at = "commitment" /\ k.path = SealFile("commitment") /\ k.want = want
                /\ k.read = None) => Suits(focus, k)
    BY DEF Suits, SealFits
  <2> QED BY <2>1, <2>2, CommandStarts, RefusalStarts
<1>2. ASSUME NEW c \in Caller, NEW candidate, SealReveal(c, candidate)
      PROVE  Located'
  <2> DEFINE want == [candidate |-> candidate, seal |-> None, cases |-> None]
             read == files[SealFile("commitment")]
  <2>1. \/ Start(c, Command("reveal", "read", SealFile("reveal"), want, read)) /\ UNCHANGED <<files, focus>>
        \/ Start(c, Refused("reveal")) /\ UNCHANGED <<files, focus>>
    BY <1>2 DEF SealReveal
  <2> HIDE DEF want, read
  <2>2. \A k : (/\ k.op = "reveal" /\ k.at = "read" /\ k.path = SealFile("reveal") /\ k.want = want
                /\ k.read = read) => Suits(focus, k)
    BY DEF Suits, SealFits, Publishing
  <2> QED BY <2>1, <2>2, CommandStarts, RefusalStarts
<1>3. ASSUME NEW c \in Caller, PublishSealed(c)
      PROVE  Located'
  <2>1. /\ call[c].op = "init" /\ call[c].at \in {"commitment", "manifest", "observed", "lock"}
        /\ files' = With(SealFile(call[c].at), call[c].want)
        /\ IF call[c].at = "lock" THEN Finish(c, "stored") ELSE Goto(c, Following(call[c].at))
    BY <1>3 DEF PublishSealed, Parts
  <2>2. \A p \in DOMAIN files' : InHome(focus, p[1])
    BY <2>1 DEF With, Located, SealFile, InHome
  <2>3. call[c].path = SealFile("commitment")
    BY <2>1, ActiveSuits DEF Active, Suits, SealFits
  <2>4. CASE Finish(c, "stored")
    <3>1. /\ Calls' /\ (\A d \in Caller \ {c} : call'[d] = call[d]) /\ call'[c].at = "done" /\ Claims(call'[c])
          /\ call'[c].op = "init" /\ call'[c].path = call[c].path
      BY <2>1, <2>4, FinishMoves DEF Located, Claims, Answered
    <3>2. Fits(focus, call'[c])
      BY <2>3, <3>1, UnfixedFits DEF Fits, Suits, SealFits
    <3> QED BY <2>2, <3>1, <3>2 DEF Located
  <2>5. CASE Goto(c, Following(call[c].at)) /\ call[c].at # "lock"
    <3> DEFINE at == Following(call[c].at)
    <3>1. at \in {"manifest", "observed", "lock"}
      BY <2>1, <2>5, FollowingParts
    <3> HIDE DEF at
    <3>2. \A k : (/\ k.op = call[c].op /\ k.path = call[c].path /\ k.want = call[c].want /\ k.read = call[c].read
                  /\ k.at = at) => Suits(focus, k)
      BY <2>1, <2>3, <3>1 DEF Suits, SealFits
    <3>3. Goto(c, at) /\ at # "done"
      BY <2>5, <3>1 DEF at
    <3> QED BY <2>1, <2>2, <3>2, <3>3, GotoFits
  <2> QED BY <2>1, <2>4, <2>5
<1>4. ASSUME NEW c \in Caller, ReadManifest(c)
      PROVE  Located'
  <2>1. /\ call[c].op = "reveal" /\ call[c].at = "read" /\ UNCHANGED files
        /\ IsCommand(call[c]) /\ call[c].answer = None /\ call[c].path = SealFile("reveal")
    BY <1>4, ActiveSuits DEF ReadManifest, Active, Located, Calls, Fits, Suits, SealFits
  <2>2. CASE Finish(c, "refused")
    BY <2>1, <2>2, EndFits DEF Answered, Fixed, Located
  <2>3. ASSUME ~Finish(c, "refused")
        PROVE  Located'
    <3> DEFINE want == [call[c].want EXCEPT !.seal = call[c].read, !.cases = files[SealFile("manifest")]]
               k == [call[c] EXCEPT !.at = "publish", !.want = want]
    <3>1. [call[c] EXCEPT !.at = "publish",
             !.want.seal = call[c].read, !.want.cases = files[SealFile("manifest")]] = k
      BY <2>1 DEF IsCommand
    <3>2. Update(c, k)
      BY <1>4, <2>3, <3>1 DEF ReadManifest
    <3> HIDE DEF want
    <3>3. k = [call[c] EXCEPT !.at = "publish", !.want = want]
      OBVIOUS
    <3> HIDE DEF k
    <3>4. IsCommand(k) /\ k.op = "reveal" /\ k.at = "publish" /\ k.path = call[c].path /\ k.answer = None
      BY <2>1, <3>3 DEF IsCommand
    <3>5. Fits(focus, k)
      BY <2>1, <3>4, UnfixedFits DEF Fits, Suits, SealFits, Publishing
    <3> QED BY <2>1, <3>2, <3>4, <3>5, UpdateFits DEF Located
  <2> QED BY <2>2, <2>3
<1>5. ASSUME NEW c \in Caller, call[c].op = "reveal", Compare(c, FALSE)
      PROVE  Located'
  <2>1. UNCHANGED files /\ \E answer \in {"refused", "conflict"} : Finish(c, answer)
    BY <1>5 DEF Compare
  <2> QED BY <2>1, EndFits DEF Answered, Fixed, Located
<1> QED BY <1>1, <1>2, <1>3, <1>4, <1>5 DEF SealNext

(* The steps of improvement.ts keep to their store. *)
LEMMA ProposalsFit == ASSUME Located, focus = "proposal", ProposalNext, UNCHANGED focus PROVE Located'
<1>1. ASSUME NEW c \in Caller, NEW suite, RunSuite(c, suite)
      PROVE  Located'
  <2> DEFINE want == [suite |-> suite, matched |-> TargetMatches(suite), result |-> Result(suite, TargetMatches(suite))]
  <2>1. Start(c, Command("suite", "replay", Scorecard(made), want, None)) /\ UNCHANGED <<files, focus>>
    BY <1>1 DEF RunSuite
  <2> HIDE DEF want
  <2>2. \A k : (k.op = "suite" /\ k.at = "replay" /\ k.path = Scorecard(made) /\ k.want = want /\ k.read = None)
               => Suits(focus, k)
    BY DEF Suits, SuiteFits, Publishing, Scorecard
  <2> QED BY <2>1, <2>2, CommandStarts
<1>2. ASSUME NEW c \in Caller, NEW p, NEW to, NEW by, NEW at, NEW d, Transition(c, p, to, by, at, d)
      PROVE  Located'
  <2> DEFINE want == Moved(p, to, by, at, d)
  <2>1. PICK name : Start(c, Command("transition", "decide", ProposalFile(name), want, p))
    BY <1>2 DEF Transition
  <2>2. UNCHANGED <<files, focus>>
    BY <1>2 DEF Transition
  <2> HIDE DEF want
  <2>3. \A k : (k.op = "transition" /\ k.at = "decide" /\ k.path = ProposalFile(name) /\ k.want = want /\ k.read = p)
               => Suits(focus, k)
    BY DEF Suits, TransitionFits, Publishing, ProposalFile
  <2> QED BY <2>1, <2>2, <2>3, CommandStarts
<1>3. ASSUME NEW c \in Caller, Replay(c) \/ Decide(c) \/ Revalidate(c)
      PROVE  Located'
  <2>1. /\ UNCHANGED files /\ call[c].at # "done"
        /\ \/ Finish(c, "refused")
           \/ call[c].op = "suite" /\ call[c].at = "replay" /\ Goto(c, "publish")
           \/ call[c].op = "transition" /\ call[c].at = "decide" /\ Goto(c, "revalidate")
           \/ call[c].op = "transition" /\ call[c].at = "revalidate" /\ Goto(c, "publish")
    BY <1>3 DEF Replay, Decide, Revalidate
  <2>2. CASE Finish(c, "refused")
    BY <2>1, <2>2, EndFits DEF Answered, Fixed, Located
  <2>3. ASSUME NEW at \in {"publish", "revalidate"}, Goto(c, at), call[c].at \in {"replay", "decide", "revalidate"},
               at = "revalidate" => call[c].op = "transition"
        PROVE  Located'
    <3>1. Suits(focus, call[c])
      BY <2>3, ActiveSuits DEF Active
    <3>2. \A k : (/\ k.op = call[c].op /\ k.path = call[c].path /\ k.want = call[c].want /\ k.read = call[c].read
                  /\ k.at = at) => Suits(focus, k)
      BY <2>3, <3>1 DEF Suits, SuiteFits, TransitionFits, Publishing
    <3> QED BY <2>1, <2>3, <3>2, GotoFits DEF Located
  <2> QED BY <2>1, <2>2, <2>3
<1>4. ASSUME NEW c \in Caller, Compare(c, FALSE)
      PROVE  Located'
  <2>1. UNCHANGED files /\ \E answer \in {"refused", "conflict"} : Finish(c, answer)
    BY <1>4 DEF Compare
  <2> QED BY <2>1, EndFits DEF Answered, Fixed, Located
<1>5. ASSUME NEW version, EditArtifact(version)
      PROVE  Located'
  BY <1>5 DEF EditArtifact, Located, Calls
<1> QED BY <1>1, <1>2, <1>3, <1>4, <1>5 DEF ProposalNext, Free

(* A command that is killed holds nothing any more. *)
LEMMA KillsFit == ASSUME Located, NEW c \in Caller, Killed(c), UNCHANGED focus PROVE Located'
  BY EndFits DEF Killed, Answered, Fixed, Located

(* A reset takes files, marks the calls, and writes its receipts. *)
LEMMA ResetsFit == ASSUME Located, ResetNext, UNCHANGED focus PROVE Located'
<1>1. ASSUME NEW gone, Take(gone)
      PROVE  Located'
  <2> DEFINE marked(c) == [call[c] EXCEPT !.overtaken = TRUE]
  <2>1. call' = [c \in Caller |-> marked(c)] /\ DOMAIN files' \subseteq DOMAIN files
    BY <1>1 DEF Take
  <2>2. ASSUME NEW c \in Caller
        PROVE  IsCommand(marked(c)) /\ Fits(focus, marked(c))
    <3>1. IsCommand(call[c]) /\ Fits(focus, call[c])
      BY DEF Located, Calls
    <3> DEFINE old == call[c]
               k == marked(c)
    <3>2. k = [old EXCEPT !.overtaken = TRUE] /\ IsCommand(old) /\ Fits(focus, old)
      BY <3>1
    <3> HIDE DEF k, old, marked
    <3>3. /\ IsCommand(k) /\ k.op = old.op /\ k.at = old.at /\ k.path = old.path /\ k.want = old.want
          /\ k.read = old.read /\ k.answer = old.answer
      BY <3>2 DEF IsCommand
    <3>4. Fits(focus, k)
      BY <3>2, <3>3 DEF Fits, Active, Claims, Suits, SagaFits, AdmissionFits, FeedbackFits, RunFits, EstimateFits,
             ClusterFits, ReplayFits, GuardrailFits, BranchFits, SealFits, SuiteFits, TransitionFits, Publishing, FixedFits
    <3> QED BY <3>3, <3>4 DEF k
  <2> HIDE DEF marked
  <2> QED BY <2>1, <2>2 DEF Located, Calls
<1>2. CASE WriteReceipt
  BY <1>2 DEF WriteReceipt, Located, Calls, With, InHome
<1>3. CASE Commit \/ ResetInventory \/ ResetCheck \/ ResetKilled
  BY <1>3 DEF Commit, ResetInventory, ResetCheck, ResetKilled, commandVars, Located, Calls
<1> QED BY <1>1, <1>2, <1>3 DEF ResetNext, RemoveStores, RemoveSome

(* Nobody runs a command at first. *)
LEMMA LocatedInitially == WorkspaceInit => Located
<1> SUFFICES ASSUME WorkspaceInit PROVE Located
  OBVIOUS
<1>1. DOMAIN files = {} /\ call = [c \in Caller |-> Idle]
  BY DEF WorkspaceInit
<1>2. IsCommand(Idle) /\ Idle.at = "idle" /\ Idle.answer = None
  BY NewCommands
<1>3. Fits(focus, Idle)
  BY <1>2, NoneUnanswered, UnfixedFits DEF Fits, Active, Claims
<1> QED BY <1>1, <1>2, <1>3 DEF Located, Calls

(* Every step keeps commands and files in their store. *)
LEMMA LocatedInductive == Located /\ [WorkspaceNext]_workspaceVars => Located'
<1> SUFFICES ASSUME Located, [WorkspaceNext]_workspaceVars PROVE Located'
  OBVIOUS
<1>1. CASE UNCHANGED workspaceVars
  BY <1>1 DEF workspaceVars, commandVars, Located, Calls
<1>2. CASE CommandNext /\ UNCHANGED <<resetVars, focus>>
  BY <1>2, SagasFit, AdmissionsFit, FeedbackFitsStore, ControlFits, ClustersFit, ReplaysFit, GuardrailsFit,
     BranchesFit, SealsFit, ProposalsFit, PublishFits, KillsFit DEF CommandNext
<1>3. CASE ResetNext /\ UNCHANGED focus
  BY <1>3, ResetsFit
<1> QED BY <1>1, <1>2, <1>3 DEF WorkspaceNext

-------------------------------------------------------------------------------
(* Answers.                                                                *)

(* Same and AnswerHolds, of a call and what is found at its path. *)
SameAs(k, found) ==
    CASE k.op = "saga"      -> SameSaga(found, k.want)
      [] k.op = "admission" -> SameAdmission(found, k.want)
      [] k.op = "guardrail" -> found.action = k.read.action
      [] k.op = "init"      -> outside.raced \/ found = k.want
      [] OTHER              -> found = k.want
Holds(k) == Claims(k) /\ ~k.overtaken => Has(k.path) /\ SameAs(k, files[k.path])

(* The property, caller by caller. *)
LEMMA AnswersAreHeld == AnswersHold <=> \A c \in Caller : Holds(call[c])
  BY DEF AnswersHold, AnswerHolds, Same, Holds, SameAs, Found, Claims

(* What a step makes of the answer of a caller. *)
Honest(c) == call'[c] = call[c] \/ Holds(call[c])' \/ PublishSealed(c)

(* A command that starts has no answer. *)
LEMMA StartHonest ==
  ASSUME Located, NEW c \in Caller, NEW k, IsCommand(k), ~Claims(k), Start(c, k)
  PROVE  \A d \in Caller : Honest(d)
<1>1. call'[c] = k /\ \A d \in Caller \ {c} : call'[d] = call[d]
  BY StartMoves DEF Located
<1> QED BY <1>1 DEF Honest, Holds

(* A new command has no answer. *)
LEMMA CommandHonest ==
  ASSUME Located, NEW c \in Caller, NEW op, NEW at, NEW path, NEW want, NEW read,
         Start(c, Command(op, at, path, want, read))
  PROVE  \A d \in Caller : Honest(d)
<1> DEFINE k == Command(op, at, path, want, read)
<1>1. IsCommand(k) /\ ~Claims(k)
  BY NewCommands, NoneUnanswered DEF Claims
<1>2. Start(c, k)
  OBVIOUS
<1> HIDE DEF k
<1> QED BY <1>1, <1>2, StartHonest

(* A refusal claims nothing. *)
LEMMA RefusalHonest ==
  ASSUME Located, NEW c \in Caller, NEW op, Start(c, Refused(op))
  PROVE  \A d \in Caller : Honest(d)
<1> DEFINE k == Refused(op)
<1>1. IsCommand(k) /\ ~Claims(k)
  BY NewCommands DEF Claims, Answered
<1>2. Start(c, k)
  OBVIOUS
<1> HIDE DEF k
<1> QED BY <1>1, <1>2, StartHonest

(* An error claims nothing. *)
LEMMA EndHonest ==
  ASSUME Located, NEW c \in Caller, NEW answer, Finish(c, answer), answer \notin Answered
  PROVE  \A d \in Caller : Honest(d)
<1>1. (\A d \in Caller \ {c} : call'[d] = call[d]) /\ call'[c].answer = answer
  BY FinishMoves DEF Located
<1> QED BY <1>1 DEF Honest, Holds, Claims

(* Whoever has not ended has no answer. *)
LEMMA UpdateHonest ==
  ASSUME Located, NEW c \in Caller, NEW k, IsCommand(k), ~Claims(k), Update(c, k)
  PROVE  \A d \in Caller : Honest(d)
<1>1. call'[c] = k /\ \A d \in Caller \ {c} : call'[d] = call[d]
  BY CallsMove DEF Located, Update
<1> QED BY <1>1 DEF Honest, Holds

(* A command that moves on has no answer. *)
LEMMA GotoHonest ==
  ASSUME Located, NEW c \in Caller, NEW at, Goto(c, at), call[c].at # "done"
  PROVE  \A d \in Caller : Honest(d)
<1>1. (\A d \in Caller \ {c} : call'[d] = call[d]) /\ call'[c].answer = call[c].answer
  BY GotoMoves DEF Located
<1>2. call[c].answer = None
  BY DEF Located, Fits
<1> QED BY <1>1, <1>2, NoneUnanswered DEF Honest, Holds, Claims

(* An equal record that was found is there. *)
LEMMA CompareHonest ==
  ASSUME Located, NEW c \in Caller, NEW same, Compare(c, same), same => SameAs(call[c], Found(c))
  PROVE  \A d \in Caller : Honest(d)
<1> DEFINE answer == IF ~Has(call[c].path) THEN "refused" ELSE IF same THEN "idempotent" ELSE "conflict"
<1>1. Finish(c, answer) /\ UNCHANGED <<files, outside>>
  BY DEF Compare
<1>2. CASE answer \notin Answered
  BY <1>1, <1>2, EndHonest
<1>3. CASE answer \in Answered
  <2>1. Has(call[c].path) /\ SameAs(call[c], Found(c))
    BY <1>3 DEF Answered
  <2> HIDE DEF answer
  <2>2. /\ (\A d \in Caller \ {c} : call'[d] = call[d])
        /\ call'[c].op = call[c].op /\ call'[c].path = call[c].path /\ call'[c].want = call[c].want
        /\ call'[c].read = call[c].read
    BY <1>1, <1>3, FinishMoves DEF Located
  <2>3. Has(call[c].path)' /\ SameAs(call[c], Found(c))'
    BY <1>1, <2>1, <2>2 DEF SameAs, Has, Found
  <2>4. Holds(call[c])'
    BY <2>3 DEF Holds, Found
  <2> QED BY <2>2, <2>4 DEF Honest
<1> QED BY <1>2, <1>3

(* A record that was published is there. *)
LEMMA PublishHonest == ASSUME Located, NEW c \in Caller, Publish(c) PROVE \A d \in Caller : Honest(d)
<1>1. CASE Goto(c, "compare")
  BY <1>1, GotoHonest DEF Publish
<1>2. CASE files' = With(call[c].path, call[c].want) /\ Finish(c, "stored")
  <2>1. /\ (\A d \in Caller \ {c} : call'[d] = call[d])
        /\ call'[c].op = call[c].op /\ call'[c].path = call[c].path /\ call'[c].want = call[c].want
        /\ call'[c].read = call[c].read
    BY <1>2, FinishMoves DEF Located, Answered
  <2>2. call[c].path \in DOMAIN files' /\ files'[call[c].path] = call[c].want
    BY <1>2 DEF With
  <2>3. call[c].op = "guardrail" => call[c].want.action = call[c].read.action
    BY ActiveSuits DEF Publish, Active, Suits, SagaFits, AdmissionFits, FeedbackFits, RunFits, EstimateFits,
       ClusterFits, ReplayFits, GuardrailFits, BranchFits, SealFits, SuiteFits, TransitionFits
  <2>5. SameAs(call[c], call[c].want)'
    BY <2>1, <2>3 DEF SameAs, SameSaga, SameAdmission
  <2>6. Holds(call[c])'
    BY <2>1, <2>2, <2>5 DEF Holds, Has
  <2> QED BY <2>1, <2>6 DEF Honest
<1> QED BY <1>1, <1>2 DEF Publish

(* The ingestion of a record answers for what it wrote or found. *)
LEMMA IngestsHonest ==
  ASSUME Located, NEW c \in Caller, NEW i, NEW content, IngestRunRecord(c, i, content) \/ IngestRun(c, i, content)
  PROVE  \A d \in Caller : Honest(d)
<1> DEFINE at == IF Has(RunRecord(i)) THEN "compare" ELSE "publish"
<1>1. \/ Start(c, Command("run", at, RunRecord(i), content, None))
      \/ Start(c, Refused("run"))
  BY DEF IngestRunRecord, IngestRun
<1> HIDE DEF at
<1> QED BY <1>1, CommandHonest, RefusalHonest

(* A comparison of whole records answers for what it found. *)
LEMMA RecordComparesHonest ==
  ASSUME Located, NEW c \in Caller, NEW ops, call[c].op \in ops, ops \cap {"saga", "admission", "guardrail"} = {},
         NEW same, same => Found(c) = call[c].want, Compare(c, same)
  PROVE  \A d \in Caller : Honest(d)
<1>1. same => SameAs(call[c], Found(c))
  BY DEF SameAs
<1> QED BY <1>1, CompareHonest

(* Sagas and admissions answer for what is on file. *)
LEMMA LedgersHonest ==
  ASSUME Located, SagaNext \/ AdmissionNext PROVE \A d \in Caller : Honest(d)
<1>1. ASSUME NEW c \in Caller, NEW i, NEW payload, Begin(c, i, payload) \/ Complete(c, i, payload)
      PROVE  \A d \in Caller : Honest(d)
  <2>1. \/ \E path : Start(c, Command("saga", "publish", path, payload, None))
        \/ Start(c, Refused("saga"))
    BY <1>1 DEF Begin, Complete
  <2> QED BY <2>1, CommandHonest, RefusalHonest
<1>2. ASSUME NEW c \in Caller, call[c].op = "saga", Compare(c, SameSaga(Found(c), call[c].want))
      PROVE  \A d \in Caller : Honest(d)
  <2> DEFINE same == SameSaga(Found(c), call[c].want)
  <2>1. Compare(c, same) /\ (same => SameAs(call[c], Found(c)))
    BY <1>2 DEF SameAs
  <2> HIDE DEF same
  <2> QED BY <2>1, CompareHonest
<1>3. ASSUME NEW c \in Caller, NEW i, NEW x, Issue(c, i, x) \/ CompleteAdmission(c, i, x)
      PROVE  \A d \in Caller : Honest(d)
  <2>1. \/ \E path, want : Start(c, Command("admission", "publish", path, want, None))
        \/ Start(c, Refused("admission"))
    BY <1>3 DEF Issue, CompleteAdmission
  <2> QED BY <2>1, CommandHonest, RefusalHonest
<1>4. ASSUME NEW i, NEW outcome, Probe(i, outcome)
      PROVE  \A d \in Caller : Honest(d)
  BY <1>4 DEF Probe, Honest
<1>5. ASSUME NEW c \in Caller, call[c].op = "admission", Compare(c, SameAdmission(Found(c), call[c].want))
      PROVE  \A d \in Caller : Honest(d)
  <2> DEFINE same == SameAdmission(Found(c), call[c].want)
  <2>1. Compare(c, same) /\ (same => SameAs(call[c], Found(c)))
    BY <1>5 DEF SameAs
  <2> HIDE DEF same
  <2> QED BY <2>1, CompareHonest
<1> QED BY <1>1, <1>2, <1>3, <1>4, <1>5 DEF SagaNext, AdmissionNext

(* Feedback, estimates and clusterings answer for what is on file. *)
LEMMA RecordsHonest ==
  ASSUME Located, FeedbackNext \/ ControlNext \/ ClusterNext PROVE \A d \in Caller : Honest(d)
<1>1. ASSUME NEW c \in Caller, NEW i, NEW content, IngestFeedback(c, i, content)
      PROVE  \A d \in Caller : Honest(d)
  <2>1. \/ \E at : Start(c, Command("feedback", at, Feedback(i), content, None))
        \/ Start(c, Refused("feedback"))
    BY <1>1 DEF IngestFeedback
  <2> QED BY <2>1, CommandHonest, RefusalHonest
<1>2. ASSUME NEW c \in Caller, CountRecords(c)
      PROVE  \A d \in Caller : Honest(d)
  BY <1>2, EndHonest, GotoHonest DEF CountRecords, Answered
<1>3. ASSUME NEW c \in Caller, call[c].op \in {"feedback", "run"}, Compare(c, SameRecord(Found(c), call[c].want))
      PROVE  \A d \in Caller : Honest(d)
  <2> DEFINE same == SameRecord(Found(c), call[c].want)
  <2>1. Compare(c, same) /\ (same => Found(c) = call[c].want)
    BY <1>3 DEF SameRecord
  <2> HIDE DEF same
  <2> QED BY <1>3, <2>1, RecordComparesHonest
<1>4. ASSUME NEW c \in Caller, NEW x, Estimate(c, x) \/ ClusterRuns(c, x)
      PROVE  \A d \in Caller : Honest(d)
  <2>1. \E op, want, read : Start(c, Command(op, "list", None, want, read))
    BY <1>4 DEF Estimate, ClusterRuns
  <2> QED BY <2>1, CommandHonest
<1>5. ASSUME NEW c \in Caller, ReadBatch(c)
      PROVE  \A d \in Caller : Honest(d)
  <2> DEFINE state == BuildState(Selected(call[c].read.names, call[c].read.batch), call[c].read.batch)
             path == StatePath(state)
             k == [call[c] EXCEPT !.at = "publish", !.path = path, !.want = state]
  <2>1. Update(c, k) \/ Finish(c, "refused")
    BY <1>5 DEF ReadBatch
  <2>2. IsCommand(call[c]) /\ call[c].answer = None
    BY <1>5 DEF ReadBatch, Located, Calls, Fits
  <2> HIDE DEF state, path
  <2>3. k = [call[c] EXCEPT !.at = "publish", !.path = path, !.want = state]
    OBVIOUS
  <2> HIDE DEF k
  <2>4. IsCommand(k) /\ k.answer = None
    BY <2>2, <2>3 DEF IsCommand
  <2>5. ~Claims(k)
    BY <2>4, NoneUnanswered DEF Claims
  <2> QED BY <2>1, <2>4, <2>5, UpdateHonest, EndHonest DEF Answered
<1>6. ASSUME NEW c \in Caller, call[c].op = "estimate", Compare(c, SameState(Found(c), call[c].want))
      PROVE  \A d \in Caller : Honest(d)
  <2> DEFINE same == SameState(Found(c), call[c].want)
  <2>1. Compare(c, same) /\ (same => Found(c) = call[c].want)
    BY <1>6 DEF SameState
  <2> HIDE DEF same
  <2> QED BY <1>6, <2>1, RecordComparesHonest
<1>7. ASSUME NEW c \in Caller, NEW rest, Clustered(c, rest), call[c].at # "done"
      PROVE  \A d \in Caller : Honest(d)
  <2> DEFINE k == IF rest = {} THEN [call[c] EXCEPT !.at = "done", !.want = rest, !.answer = "clustered"]
                  ELSE [call[c] EXCEPT !.at = "clusters", !.want = rest]
  <2>1. IsCommand(call[c]) /\ Update(c, k) /\ call[c].answer = None
    BY <1>7 DEF Clustered, Located, Calls, Fits
  <2>2. IsCommand(k) /\ ~Claims(k)
    <3>1. CASE rest = {}
      <4>1. k = [call[c] EXCEPT !.at = "done", !.want = rest, !.answer = "clustered"]
        BY <3>1
      <4> HIDE DEF k
      <4>2. IsCommand(k) /\ k.answer = "clustered"
        BY <2>1, <4>1 DEF IsCommand
      <4> QED BY <4>2 DEF Claims, Answered
    <3>2. CASE rest # {}
      <4>1. k = [call[c] EXCEPT !.at = "clusters", !.want = rest]
        BY <3>2
      <4> HIDE DEF k
      <4>2. IsCommand(k) /\ k.answer = None
        BY <2>1, <4>1 DEF IsCommand
      <4> QED BY <4>2, NoneUnanswered DEF Claims
    <3> QED BY <3>1, <3>2
  <2> HIDE DEF k
  <2> QED BY <2>1, <2>2, UpdateHonest
<1>8. ASSUME NEW c \in Caller, GroupRuns(c) \/ PublishCluster(c)
      PROVE  \A d \in Caller : Honest(d)
  <2>1. call[c].at # "done" /\ ((\E rest : Clustered(c, rest)) \/ Finish(c, "conflict"))
    BY <1>8 DEF GroupRuns, PublishCluster
  <2> QED BY <1>7, <2>1, EndHonest DEF Answered
<1> QED BY <1>1, <1>2, <1>3, <1>4, <1>5, <1>6, <1>8, IngestsHonest DEF FeedbackNext, ControlNext, ClusterNext

(* A replay answers for the step that is on file. *)
LEMMA ReplayHonest == ASSUME Located, ReplayNext PROVE \A d \in Caller : Honest(d)
<1>1. ASSUME NEW c \in Caller, NEW plan, PrepareReplay(c, plan)
      PROVE  \A d \in Caller : Honest(d)
  BY <1>1, CommandHonest, RefusalHonest DEF PrepareReplay
<1>2. ASSUME NEW c \in Caller, NEW steps, ReplayCampaign(c, steps)
      PROVE  \A d \in Caller : Honest(d)
  <2>1. \/ \E want, read : Start(c, Command("replay", "load", None, want, read))
        \/ Start(c, Refused("replay"))
    BY <1>2 DEF ReplayCampaign
  <2> QED BY <2>1, CommandHonest, RefusalHonest
<1>3. ASSUME NEW c \in Caller, NEW state, NEW target, Snapshotting(c, state, target)
      PROVE  \A d \in Caller : Honest(d)
  <2> DEFINE k == Command("replay", "step", StepFile(state.step), state, [target |-> target])
  <2>1. IsCommand(k) /\ ~Claims(k) /\ Update(c, k)
    BY <1>3, NewCommands, NoneUnanswered DEF Claims, Snapshotting
  <2> HIDE DEF k
  <2> QED BY <2>1, UpdateHonest
<1>4. ASSUME NEW c \in Caller, NEW state, Replayed(c, state)
      PROVE  \A d \in Caller : Honest(d)
  <2> DEFINE old == Command("replay", "done", StepFile(state.step), state, None)
             k == [old EXCEPT !.answer = "replayed"]
  <2>1. Update(c, k)
    BY <1>4 DEF Replayed
  <2>2. IsCommand(old)
    BY NewCommands
  <2> HIDE DEF old
  <2>3. k = [old EXCEPT !.answer = "replayed"]
    OBVIOUS
  <2> HIDE DEF k
  <2>4. IsCommand(k) /\ k.answer = "replayed"
    BY <2>2, <2>3 DEF IsCommand
  <2>5. ~Claims(k)
    BY <2>4 DEF Claims, Answered
  <2> QED BY <2>1, <2>4, <2>5, UpdateHonest
<1>5. ASSUME NEW c \in Caller, PublishPlan(c) \/ LoadCampaign(c) \/ PublishStep(c)
      PROVE  \A d \in Caller : Honest(d)
  <2>1. \/ \E answer \in {"conflict", "drift"} : Finish(c, answer)
        \/ \E state : (\E target : Snapshotting(c, state, target)) \/ Replayed(c, state)
    BY <1>5 DEF PublishPlan, LoadCampaign, PublishStep
  <2> QED BY <1>3, <1>4, <2>1, EndHonest DEF Answered
<1>6. EditInput => \A d \in Caller : Honest(d)
  BY DEF EditInput, Honest
<1> QED BY <1>1, <1>2, <1>5, <1>6 DEF ReplayNext

(* A decision that is repeated is the one on file. *)
LEMMA GuardrailHonest == ASSUME Located, focus = "guardrail", GuardrailNext PROVE \A d \in Caller : Honest(d)
<1>1. ASSUME NEW c \in Caller, NEW i, NEW action, NEW approval, Record(c, i, action, approval)
      PROVE  \A d \in Caller : Honest(d)
  <2>1. \E at, read : Start(c, Command("guardrail", at, Decision(i), None, read))
    BY <1>1 DEF Record
  <2> QED BY <2>1, CommandHonest
<1>2. ASSUME NEW c \in Caller, EnforceRateLimit(c)
      PROVE  \A d \in Caller : Honest(d)
  BY <1>2, EndHonest, GotoHonest DEF EnforceRateLimit, Answered
<1>3. ASSUME NEW c \in Caller, Judge(c)
      PROVE  \A d \in Caller : Honest(d)
  <2> DEFINE want == Evaluate(call[c].read.action, call[c].read.approval)
             k == [call[c] EXCEPT !.at = "publish", !.want = want]
  <2>1. Update(c, k) /\ IsCommand(call[c]) /\ call[c].answer = None
    BY <1>3 DEF Judge, Located, Calls, Fits
  <2> HIDE DEF want
  <2>2. k = [call[c] EXCEPT !.at = "publish", !.want = want]
    OBVIOUS
  <2> HIDE DEF k
  <2>3. IsCommand(k) /\ k.answer = None
    BY <2>1, <2>2 DEF IsCommand
  <2> QED BY <2>1, <2>3, UpdateHonest, NoneUnanswered DEF Claims
<1>4. ASSUME NEW c \in Caller, Repeat(c)
      PROVE  \A d \in Caller : Honest(d)
  <2>1. /\ call[c].op = "guardrail" /\ UNCHANGED files
        /\ \/ \E answer \in {"refused", "conflict", "stale"} : Finish(c, answer)
           \/ /\ Finish(c, "idempotent") /\ Has(call[c].path)
              /\ Found(c).action = call[c].read.action
    BY <1>4 DEF Repeat
  <2>2. CASE \E answer \in {"refused", "conflict", "stale"} : Finish(c, answer)
    BY <2>2, EndHonest DEF Answered
  <2>3. CASE Finish(c, "idempotent") /\ Has(call[c].path) /\ Found(c).action = call[c].read.action
    <3>1. /\ (\A d \in Caller \ {c} : call'[d] = call[d])
          /\ call'[c].op = "guardrail" /\ call'[c].path = call[c].path /\ call'[c].read = call[c].read
      BY <2>1, <2>3, FinishMoves DEF Located, Answered
    <3>2. SameAs(call[c], files[call[c].path])'
      BY <2>1, <2>3, <3>1 DEF SameAs, Found
    <3>3. Holds(call[c])'
      BY <2>1, <2>3, <3>1, <3>2 DEF Holds, Has
    <3> QED BY <3>1, <3>3 DEF Honest
  <2> QED BY <2>1, <2>2, <2>3
<1>5. \A artifact : Quarantine(artifact) => \A d \in Caller : Honest(d)
  BY DEF Quarantine, Honest
<1>6. ApprovalLapses \/ WindowPasses => \A d \in Caller : Honest(d)
  BY DEF ApprovalLapses, WindowPasses, Honest
<1> QED BY <1>1, <1>2, <1>3, <1>4, <1>5, <1>6 DEF GuardrailNext

(* The archive answers for what is on file. *)
LEMMA BranchHonest == ASSUME Located, BranchNext PROVE \A d \in Caller : Honest(d)
<1>1. ASSUME NEW c \in Caller, NEW b, NEW x, RecordBranch(c, b, x) \/ EvaluateBranch(c, b, x)
      PROVE  \A d \in Caller : Honest(d)
  <2>1. \/ \E at, path, want : Start(c, Command("branch", at, path, want, None))
        \/ Start(c, Refused("branch"))
    BY <1>1 DEF RecordBranch, EvaluateBranch
  <2> QED BY <2>1, CommandHonest, RefusalHonest
<1>2. ASSUME NEW c \in Caller, VerifyArchive(c)
      PROVE  \A d \in Caller : Honest(d)
  BY <1>2, EndHonest, GotoHonest DEF VerifyArchive, Answered
<1>3. ASSUME NEW c \in Caller, call[c].op = "branch", Compare(c, SameBranchRecord(Found(c), call[c].want))
      PROVE  \A d \in Caller : Honest(d)
  <2> DEFINE same == SameBranchRecord(Found(c), call[c].want)
  <2>1. Compare(c, same) /\ (same => Found(c) = call[c].want)
    BY <1>3 DEF SameBranchRecord
  <2> HIDE DEF same
  <2> QED BY <1>3, <2>1, RecordComparesHonest
<1>4. \A b : EditDraft(b) => \A d \in Caller : Honest(d)
  BY DEF EditDraft, Honest
<1> QED BY <1>1, <1>2, <1>3, <1>4 DEF BranchNext

(* A comparison with what is never the same. *)
LEMMA ConflictHonest ==
  ASSUME Located, NEW c \in Caller, Compare(c, FALSE)
  PROVE  \A d \in Caller : Honest(d)
<1>1. \E answer \in {"refused", "conflict"} : Finish(c, answer)
  BY DEF Compare
<1> QED BY <1>1, EndHonest DEF Answered

(* A seal answers for what is on file. *)
LEMMA SealHonest == ASSUME Located, SealNext PROVE \A d \in Caller : Honest(d)
<1>1. ASSUME NEW c \in Caller, NEW x, SealInit(c, x) \/ SealReveal(c, x)
      PROVE  \A d \in Caller : Honest(d)
  <2>1. \/ \E op, at, path, want, read : Start(c, Command(op, at, path, want, read))
        \/ \E op : Start(c, Refused(op))
    BY <1>1 DEF SealInit, SealReveal
  <2> QED BY <2>1, CommandHonest, RefusalHonest
<1>2. ASSUME NEW c \in Caller, PublishSealed(c)
      PROVE  \A d \in Caller : Honest(d)
  <2>1. \A d \in Caller \ {c} : call'[d] = call[d]
    BY <1>2, FinishMoves, GotoMoves DEF PublishSealed, Located
  <2> QED BY <1>2, <2>1 DEF Honest
<1>3. ASSUME NEW c \in Caller, ReadManifest(c)
      PROVE  \A d \in Caller : Honest(d)
  <2> DEFINE want == [call[c].want EXCEPT !.seal = call[c].read, !.cases = files[SealFile("manifest")]]
             k == [call[c] EXCEPT !.at = "publish", !.want = want]
  <2>1. IsCommand(call[c]) /\ call[c].answer = None
    BY <1>3 DEF ReadManifest, Located, Calls, Fits
  <2>2. [call[c] EXCEPT !.at = "publish",
           !.want.seal = call[c].read, !.want.cases = files[SealFile("manifest")]] = k
    BY <2>1 DEF IsCommand
  <2>3. Update(c, k) \/ Finish(c, "refused")
    BY <1>3, <2>2 DEF ReadManifest
  <2> HIDE DEF want
  <2>4. k = [call[c] EXCEPT !.at = "publish", !.want = want]
    OBVIOUS
  <2> HIDE DEF k
  <2>5. IsCommand(k) /\ k.answer = None
    BY <2>1, <2>4 DEF IsCommand
  <2> QED BY <2>3, <2>5, UpdateHonest, EndHonest, NoneUnanswered DEF Claims, Answered
<1> QED BY <1>1, <1>2, <1>3, ConflictHonest DEF SealNext

(* A transition answers for the proposal it wrote. *)
LEMMA ProposalHonest == ASSUME Located, ProposalNext PROVE \A d \in Caller : Honest(d)
<1>1. ASSUME NEW c \in Caller, NEW suite, RunSuite(c, suite)
      PROVE  \A d \in Caller : Honest(d)
  <2>1. \E want : Start(c, Command("suite", "replay", Scorecard(made), want, None))
    BY <1>1 DEF RunSuite
  <2> QED BY <2>1, CommandHonest
<1>2. ASSUME NEW c \in Caller, NEW p, NEW to, NEW by, NEW at, NEW d, Transition(c, p, to, by, at, d)
      PROVE  \A e \in Caller : Honest(e)
  <2>1. \E path, want : Start(c, Command("transition", "decide", path, want, p))
    BY <1>2 DEF Transition
  <2> QED BY <2>1, CommandHonest
<1>3. ASSUME NEW c \in Caller, Replay(c) \/ Decide(c) \/ Revalidate(c)
      PROVE  \A d \in Caller : Honest(d)
  <2>1. call[c].at # "done" /\ ((\E at : Goto(c, at)) \/ Finish(c, "refused"))
    BY <1>3 DEF Replay, Decide, Revalidate
  <2> QED BY <2>1, EndHonest, GotoHonest DEF Answered
<1>4. \A version : EditArtifact(version) => \A d \in Caller : Honest(d)
  BY DEF EditArtifact, Honest
<1> QED BY <1>1, <1>2, <1>3, <1>4, ConflictHonest DEF ProposalNext, Free

(* Every command answers for what is on file. *)
LEMMA CommandsHonest == ASSUME Located, CommandNext PROVE \A d \in Caller : Honest(d)
<1>1. ASSUME NEW c \in Caller, Killed(c)
      PROVE  \A d \in Caller : Honest(d)
  BY <1>1, EndHonest DEF Killed, Answered
<1> QED BY <1>1, PublishHonest, LedgersHonest, RecordsHonest, ReplayHonest, GuardrailHonest, BranchHonest,
           SealHonest, ProposalHonest DEF CommandNext

(* Unless two initialisations ran into each other there is one at a time:  *)
(* once its commitment is written it stays, and whoever has been told so   *)
(* before has been overtaken.  In any case there is a commitment.          *)
Commitment == SealFile("commitment")
Initing(k) == k.op = "init" /\ k.at \in {"commitment", "manifest", "observed", "lock"}
RacedKnown == "raced" \in DOMAIN outside /\ outside.raced \in BOOLEAN
Unraced ==
  /\ \A c, d \in Caller : c # d /\ Initing(call[c]) => ~Initing(call[d])
  /\ \A c \in Caller :
       call[c].op = "init" /\ call[c].at \in {"manifest", "observed", "lock"} /\ ~call[c].overtaken =>
         Has(Commitment) /\ files[Commitment] = call[c].want
  /\ \A c, d \in Caller : call[c].op = "init" /\ call[c].at = "commitment"
                          /\ call[d].op = "init" /\ Claims(call[d]) => call[d].overtaken
Begun ==
  \A c \in Caller :
    call[c].op = "init" /\ call[c].at \in {"manifest", "observed", "lock"} /\ ~call[c].overtaken => Has(Commitment)
SealHeld == RacedKnown /\ Begun /\ (outside.raced \/ Unraced)

AnswersInv == Located /\ (\A c \in Caller : Holds(call[c])) /\ (focus = "seal" => SealHeld)

(* Two initialisations that ran into each other have done so for good. *)
LEMMA RacedStays ==
  ASSUME RacedKnown, SealNext \/ \E c \in Caller : Publish(c) \/ Killed(c)
  PROVE  RacedKnown' /\ (outside.raced => outside'.raced)
<1>1. ASSUME NEW c \in Caller, NEW holdout, SealInit(c, holdout)
      PROVE  UNCHANGED outside \/ outside' = [outside EXCEPT !.raced = @ \/ Initialising]
  BY <1>1 DEF SealInit
<1>2. Initialising \in BOOLEAN
  BY DEF Initialising
<1>3. ASSUME outside' = [outside EXCEPT !.raced = @ \/ Initialising]
      PROVE  RacedKnown' /\ (outside.raced => outside'.raced)
  <2>1. DOMAIN outside' = DOMAIN outside /\ outside'.raced = (outside.raced \/ Initialising)
    BY <1>3 DEF RacedKnown
  <2> QED BY <1>2, <2>1 DEF RacedKnown
<1>4. UNCHANGED outside => RacedKnown' /\ (outside.raced => outside'.raced)
  BY DEF RacedKnown
<1>5. \/ \E c \in Caller, holdout \in Holdouts : SealInit(c, holdout)
      \/ UNCHANGED outside
  BY DEF SealNext, SealReveal, PublishSealed, ReadManifest, Compare, Publish, Killed
<1> QED BY <1>1, <1>3, <1>4, <1>5

(* Whoever begins while another one is under way is in a race. *)
LEMMA BeginsAlone ==
  ASSUME RacedKnown, NEW c \in Caller, NEW holdout, SealInit(c, holdout)
  PROVE  LET k == Command("init", "commitment", Commitment, [seal |-> made, holdout |-> holdout], None)
         IN  /\ UNCHANGED files
             /\ \/ Start(c, Refused("init"))
                \/ /\ ~Has(Commitment) /\ Start(c, k)
                   /\ outside'.raced \/ \A d \in Caller : ~Initing(call[d])
<1>1. CASE Sealed /\ Start(c, Refused("init"))
  BY <1>1 DEF SealInit
<1>2. CASE /\ ~Sealed /\ outside' = [outside EXCEPT !.raced = @ \/ Initialising]
           /\ Start(c, Command("init", "commitment", SealFile("commitment"), [seal |-> made, holdout |-> holdout], None))
  <2>1. ~Has(Commitment)
    BY <1>2 DEF Sealed, Commitment
  <2>2. outside'.raced = (outside.raced \/ Initialising)
    BY <1>2 DEF RacedKnown
  <2>3. Initialising \/ \A d \in Caller : ~Initing(call[d])
    BY DEF Initialising, Initing
  <2> QED BY <1>2, <2>1, <2>2, <2>3 DEF SealInit, Commitment
<1> QED BY <1>1, <1>2 DEF SealInit

(* Commands that initialise no seal leave it alone. *)
LEMMA SealStays ==
  ASSUME SealHeld, NEW c \in Caller, \A d \in Caller \ {c} : call'[d] = call[d],
         ~Initing(call'[c]), ~(call'[c].op = "init" /\ Claims(call'[c])),
         RacedKnown', outside.raced => outside'.raced,
         Has(Commitment) => Has(Commitment)' /\ files'[Commitment] = files[Commitment]
  PROVE  SealHeld'
<1>1. Begun'
  BY DEF SealHeld, Begun, Initing
<1>2. Unraced => Unraced'
  BY DEF Unraced, Initing, Commitment, SealFile
<1> QED BY <1>1, <1>2 DEF SealHeld

(* A seal stays what was answered. *)
LEMMA SealHeldNext ==
  ASSUME AnswersInv, focus = "seal", SealNext \/ \E c \in Caller : Publish(c) \/ Killed(c)
  PROVE  SealHeld'
<1>0. /\ SealHeld /\ RacedKnown
      /\ RacedKnown' /\ (outside.raced => outside'.raced)
  BY RacedStays DEF AnswersInv, SealHeld
<1>1. ASSUME NEW c \in Caller, NEW holdout, SealInit(c, holdout)
      PROVE  SealHeld'
  <2> DEFINE want == [seal |-> made, holdout |-> holdout]
             k == Command("init", "commitment", Commitment, want, None)
             r == Refused("init")
  <2>2. /\ UNCHANGED files
        /\ \/ Start(c, r)
           \/ /\ ~Has(Commitment) /\ Start(c, k)
              /\ outside'.raced \/ \A d \in Caller : ~Initing(call[d])
    BY <1>0, <1>1, BeginsAlone
  <2>3. CASE Start(c, r)
    <3>1. IsCommand(r) /\ r.at = "done" /\ r.answer = "refused"
      BY NewCommands
    <3> HIDE DEF r
    <3>2. call'[c] = r /\ \A d \in Caller \ {c} : call'[d] = call[d]
      BY <2>3, <3>1, StartMoves DEF AnswersInv, Located
    <3> QED BY <1>0, <2>2, <3>1, <3>2, SealStays DEF Initing, Claims, Answered, Has
  <2>4. CASE /\ ~Has(Commitment) /\ Start(c, k)
             /\ outside'.raced \/ \A d \in Caller : ~Initing(call[d])
    <3> HIDE DEF want
    <3>1. IsCommand(k) /\ k.op = "init" /\ k.at = "commitment" /\ ~Claims(k)
      BY NewCommands, NoneUnanswered DEF Claims
    <3> HIDE DEF k
    <3>2. call'[c] = k /\ \A d \in Caller \ {c} : call'[d] = call[d]
      BY <2>4, <3>1, StartMoves DEF AnswersInv, Located
    <3>3. \A d \in Caller : call[d].op = "init" /\ Claims(call[d]) => call[d].overtaken
      <4> SUFFICES ASSUME NEW d \in Caller, call[d].op = "init", Claims(call[d]), ~call[d].overtaken PROVE FALSE
        OBVIOUS
      <4>1. call[d].path = Commitment
        BY ActiveSuits DEF Active, AnswersInv, Suits, SealFits, Commitment
      <4> QED BY <2>4, <4>1 DEF AnswersInv, Holds
    <3>4. Begun'
      BY <1>0, <2>2, <3>1, <3>2 DEF SealHeld, Begun, Has
    <3>5. outside'.raced \/ Unraced'
      <4> SUFFICES ASSUME \A d \in Caller : ~Initing(call[d]) PROVE Unraced'
        BY <2>4
      <4> QED BY <3>1, <3>2, <3>3 DEF Unraced, Initing
    <3> QED BY <1>0, <3>4, <3>5 DEF SealHeld
  <2> QED BY <2>2, <2>3, <2>4
<1>2. ASSUME NEW c \in Caller, NEW candidate, SealReveal(c, candidate)
      PROVE  SealHeld'
  <2> DEFINE want == [candidate |-> candidate, seal |-> None, cases |-> None]
             read == files[Commitment]
             k == Command("reveal", "read", SealFile("reveal"), want, read)
             r == Refused("reveal")
  <2>1. UNCHANGED files /\ (Start(c, r) \/ Start(c, k))
    BY <1>2 DEF SealReveal, Commitment
  <2>2. IsCommand(k) /\ IsCommand(r) /\ k.op = "reveal" /\ r.op = "reveal"
    BY NewCommands
  <2> HIDE DEF k, r
  <2>3. call'[c].op = "reveal" /\ \A d \in Caller \ {c} : call'[d] = call[d]
    BY <2>1, <2>2, StartMoves DEF AnswersInv, Located
  <2> QED BY <1>0, <2>1, <2>3, SealStays DEF Initing, Has
<1>3. ASSUME NEW c \in Caller, PublishSealed(c)
      PROVE  SealHeld'
  <2>1. /\ call[c].op = "init" /\ call[c].at \in {"commitment", "manifest", "observed", "lock"}
        /\ files' = With(SealFile(call[c].at), call[c].want)
    BY <1>3 DEF PublishSealed, Parts
  <2>2. /\ \A d \in Caller \ {c} : call'[d] = call[d]
        /\ call'[c].op = "init" /\ call'[c].want = call[c].want /\ call'[c].overtaken = call[c].overtaken
        /\ call'[c].at \in {"manifest", "observed", "lock", "done"}
        /\ call[c].at = "commitment" => call'[c].at = "manifest"
    <3>1. CASE Finish(c, "stored") /\ call[c].at = "lock"
      BY <2>1, <3>1, FinishMoves DEF AnswersInv, Located, Answered
    <3>2. CASE Goto(c, Following(call[c].at)) /\ call[c].at # "lock"
      <4>1. /\ Following(call[c].at) \in {"manifest", "observed", "lock"}
            /\ call[c].at = "commitment" => Following(call[c].at) = "manifest"
        BY <2>1, <3>2, FollowingParts
      <4> QED BY <2>1, <3>2, <4>1, GotoMoves DEF AnswersInv, Located
    <3> QED BY <1>3, <3>1, <3>2 DEF PublishSealed
  <2>3. Unraced => \A d \in Caller \ {c} : ~Initing(call[d])
    BY <2>1 DEF Unraced, Initing
  <2>4. /\ call[c].at = "commitment" => Has(Commitment)' /\ files'[Commitment] = call[c].want
        /\ call[c].at # "commitment" /\ Has(Commitment) =>
             Has(Commitment)' /\ files'[Commitment] = files[Commitment]
    BY <2>1 DEF With, Has, Commitment, SealFile
  <2>5. Begun'
    BY <1>0, <2>1, <2>2, <2>4 DEF SealHeld, Begun
  <2>6. Unraced => Unraced'
    <3> SUFFICES ASSUME Unraced PROVE Unraced'
      OBVIOUS
    <3> QED BY <2>1, <2>2, <2>3, <2>4 DEF Unraced, Initing
  <2> QED BY <1>0, <2>5, <2>6 DEF SealHeld
<1>4. ASSUME NEW c \in Caller, call[c].op = "reveal", ReadManifest(c) \/ Compare(c, FALSE)
      PROVE  SealHeld'
  <2>1. UNCHANGED files /\ ((\E answer : Finish(c, answer)) \/ \E k : Update(c, k) /\ IsCommand(k) /\ k.op = "reveal")
    <3>1. CASE Compare(c, FALSE)
      BY <3>1 DEF Compare
    <3>2. CASE ReadManifest(c)
      <4> DEFINE want == [call[c].want EXCEPT !.seal = call[c].read, !.cases = files[SealFile("manifest")]]
                 k == [call[c] EXCEPT !.at = "publish", !.want = want]
      <4>1. IsCommand(call[c])
        BY DEF AnswersInv, Located, Calls
      <4>2. [call[c] EXCEPT !.at = "publish",
               !.want.seal = call[c].read, !.want.cases = files[SealFile("manifest")]] = k
        BY <4>1 DEF IsCommand
      <4>3. UNCHANGED files /\ (Update(c, k) \/ Finish(c, "refused"))
        BY <3>2, <4>2 DEF ReadManifest
      <4> HIDE DEF want
      <4>4. k = [call[c] EXCEPT !.at = "publish", !.want = want]
        OBVIOUS
      <4> HIDE DEF k
      <4>5. IsCommand(k) /\ k.op = "reveal"
        BY <1>4, <4>1, <4>4 DEF IsCommand
      <4> QED BY <4>3, <4>5
    <3> QED BY <1>4, <3>1, <3>2
  <2>2. call'[c].op = "reveal" /\ \A d \in Caller \ {c} : call'[d] = call[d]
    BY <1>4, <2>1, FinishMoves, CallsMove DEF AnswersInv, Located, Update
  <2> QED BY <1>0, <2>1, <2>2, SealStays DEF Initing, Has
<1>5. ASSUME NEW c \in Caller, Publish(c)
      PROVE  SealHeld'
  <2>1. call[c].op = "reveal" /\ call[c].path = SealFile("reveal")
    BY <1>5, ActiveSuits DEF Publish, Active, AnswersInv, Suits, SealFits
  <2>2. call'[c].op = "reveal" /\ \A d \in Caller \ {c} : call'[d] = call[d]
    BY <1>5, <2>1, FinishMoves, GotoMoves DEF AnswersInv, Located, Publish
  <2>3. Has(Commitment) => Has(Commitment)' /\ files'[Commitment] = files[Commitment]
    BY <1>5, <2>1 DEF Publish, With, Has, Commitment, SealFile
  <2> QED BY <1>0, <2>2, <2>3, SealStays DEF Initing
<1>6. ASSUME NEW c \in Caller, Killed(c)
      PROVE  SealHeld'
  <2>1. /\ call'[c].at = "done" /\ ~Claims(call'[c]) /\ \A d \in Caller \ {c} : call'[d] = call[d]
        /\ UNCHANGED files
    BY <1>6, FinishMoves DEF AnswersInv, Located, Killed, Claims, Answered
  <2> QED BY <1>0, <2>1, SealStays DEF Initing, Has
<1>7. \A c : ReadManifest(c) => call[c].op = "reveal"
  BY DEF ReadManifest
<1> QED BY <1>1, <1>2, <1>3, <1>4, <1>5, <1>6, <1>7 DEF SealNext

(* What was held to stays so: the one file that may change under it is the *)
(* commitment, which is only written when nobody has been told of it,      *)
(* unless there was a race.                                                *)
LEMMA HoldsStays ==
  ASSUME AnswersInv, CommandNext, UNCHANGED focus, NEW d \in Caller, call'[d] = call[d]
  PROVE  Holds(call[d])'
<1> SUFFICES ASSUME Claims(call[d]), ~call[d].overtaken PROVE Holds(call[d])'
  BY DEF Holds
<1>1. Has(call[d].path) /\ SameAs(call[d], files[call[d].path]) /\ Grow
  BY FilesGrow DEF AnswersInv, Holds
<1>2. Suits(focus, call[d]) /\ call[d].at = "done"
  BY ActiveSuits, NoneUnanswered DEF Active, AnswersInv, Located, Fits, Claims
<1>3. call[d].op = "init" \/ Rewritable(call[d].path) =>
        focus = "seal" /\ call[d].op = "init" /\ call[d].path = Commitment
  BY <1>2 DEF Suits, SagaFits, AdmissionFits, FeedbackFits, RunFits, EstimateFits, ClusterFits, ReplayFits,
              GuardrailFits, BranchFits, SealFits, SuiteFits, TransitionFits, Publishing, Claims,
              Rewritable, StatePath, SealFile, Commitment
<1>4. focus = "seal" /\ outside.raced => outside'.raced
  <2>1. focus = "seal" => SealNext \/ \E c \in Caller : Publish(c) \/ Killed(c)
    BY DEF CommandNext
  <2> QED BY <2>1, RacedStays DEF AnswersInv, SealHeld
<1>5. ASSUME call[d].path \in DOMAIN files', files'[call[d].path] = files[call[d].path]
      PROVE  Holds(call[d])'
  <2>1. CASE call[d].op = "init"
    <3>1. outside.raced \/ files[call[d].path] = call[d].want
      BY <1>1, <2>1 DEF SameAs
    <3>2. outside'.raced \/ files'[call[d].path] = call[d].want
      BY <1>3, <1>4, <1>5, <2>1, <3>1
    <3> QED BY <1>5, <2>1, <3>2 DEF Holds, Has, SameAs
  <2>2. CASE call[d].op # "init"
    BY <1>1, <1>5, <2>2 DEF Holds, Has, SameAs
  <2> QED BY <2>1, <2>2
<1>6. CASE ~Rewritable(call[d].path)
  BY <1>1, <1>5, <1>6 DEF Grow, Has
<1>7. CASE Rewritable(call[d].path) /\ outside.raced
  BY <1>1, <1>3, <1>4, <1>7 DEF Holds, Has, SameAs, Grow
<1>8. CASE Rewritable(call[d].path) /\ ~outside.raced
  <2>1. focus = "seal" /\ call[d].op = "init" /\ call[d].path = Commitment
    BY <1>3, <1>8
  <2>2. ASSUME NEW c \in Caller, PublishSealed(c)
        PROVE  files'[Commitment] = files[Commitment]
    <3>1. call[c].op = "init" /\ files' = With(SealFile(call[c].at), call[c].want)
      BY <2>2 DEF PublishSealed
    <3>2. call[c].at # "commitment"
      BY <1>8, <2>1, <3>1 DEF AnswersInv, SealHeld, Unraced
    <3>3. SealFile(call[c].at) # Commitment
      BY <3>2 DEF SealFile, Commitment
    <3> QED BY <1>1, <2>1, <3>1, <3>3 DEF With, Has
  <2>3. ASSUME NEW c \in Caller, Publish(c)
        PROVE  files'[Commitment] = files[Commitment]
    BY <1>1, <2>1, <2>3 DEF Publish, With, Has
  <2>4. \/ UNCHANGED files
        \/ \E c \in Caller : PublishSealed(c) \/ Publish(c)
    BY <2>1 DEF CommandNext, SealNext, SealInit, SealReveal, ReadManifest, Compare, Killed
  <2>5. files'[Commitment] = files[Commitment]
    BY <2>2, <2>3, <2>4
  <2> QED BY <1>1, <1>5, <2>1, <2>5 DEF Grow, Has
<1> QED BY <1>6, <1>7, <1>8

(* And whoever finishes a seal has it. *)
LEMMA SealedHolds ==
  ASSUME AnswersInv, focus = "seal", NEW c \in Caller, PublishSealed(c)
  PROVE  Holds(call[c])'
<1>1. /\ call[c].op = "init" /\ call[c].at \in {"commitment", "manifest", "observed", "lock"}
      /\ files' = With(SealFile(call[c].at), call[c].want) /\ call[c].path = Commitment
      /\ call[c].answer = None
  BY ActiveSuits DEF PublishSealed, Parts, Active, AnswersInv, Suits, SealFits, Commitment, Located, Fits
<1>2. CASE Goto(c, Following(call[c].at))
  <2>1. call'[c].answer = None
    BY <1>1, <1>2, GotoMoves DEF AnswersInv, Located
  <2> QED BY <2>1, NoneUnanswered DEF Holds, Claims
<1>3. CASE Finish(c, "stored") /\ call[c].at = "lock"
  <2>1. /\ call'[c].op = "init" /\ call'[c].path = Commitment /\ call'[c].want = call[c].want
        /\ call'[c].overtaken = call[c].overtaken
    BY <1>1, <1>3, FinishMoves DEF AnswersInv, Located, Answered
  <2>2. ~call[c].overtaken => Has(Commitment) /\ (outside.raced \/ files[Commitment] = call[c].want)
    BY <1>1, <1>3 DEF AnswersInv, SealHeld, Begun, Unraced
  <2>3. SealFile("lock") # Commitment /\ UNCHANGED outside
    BY DEF SealFile, Commitment, PublishSealed
  <2>4. ~call[c].overtaken => Has(Commitment)' /\ (outside'.raced \/ files'[Commitment] = call[c].want)
    BY <1>1, <1>3, <2>2, <2>3 DEF With, Has
  <2> QED BY <1>1, <2>1, <2>4 DEF Holds, SameAs
<1> QED BY <1>2, <1>3 DEF PublishSealed

(* A removal overtakes everybody, and a receipt is nobody's file. *)
LEMMA AnswersReset ==
  ASSUME AnswersInv, ResetNext, UNCHANGED focus
  PROVE  (\A c \in Caller : Holds(call[c])') /\ (focus = "seal" => SealHeld')
<1>1. ASSUME NEW gone, Take(gone)
      PROVE  (\A c \in Caller : Holds(call[c])') /\ (focus = "seal" => SealHeld')
  <2>1. \A c \in Caller : /\ call'[c].overtaken = TRUE /\ call'[c].op = call[c].op /\ call'[c].at = call[c].at
                          /\ call'[c].answer = call[c].answer
    <3> SUFFICES ASSUME NEW c \in Caller
                 PROVE  /\ call'[c].overtaken = TRUE /\ call'[c].op = call[c].op /\ call'[c].at = call[c].at
                        /\ call'[c].answer = call[c].answer
      OBVIOUS
    <3>1. IsCommand(call[c]) /\ call'[c] = [call[c] EXCEPT !.overtaken = TRUE]
      BY <1>1 DEF Take, AnswersInv, Located, Calls
    <3> QED BY <3>1 DEF IsCommand
  <2>2. \A c \in Caller : Holds(call[c])'
    BY <2>1 DEF Holds
  <2>3. focus = "seal" => SealHeld'
    <3> SUFFICES ASSUME focus = "seal" PROVE SealHeld'
      OBVIOUS
    <3>1. UNCHANGED outside /\ SealHeld
      BY <1>1 DEF Take, AnswersInv
    <3>2. Begun'
      BY <2>1 DEF Begun
    <3>3. Unraced => Unraced'
      BY <2>1 DEF Unraced, Initing, Claims
    <3> QED BY <3>1, <3>2, <3>3 DEF SealHeld, RacedKnown
  <2> QED BY <2>2, <2>3
<1>2. CASE WriteReceipt
  <2>1. UNCHANGED <<call, outside>> /\ files' = With(<<"resets", resets, "receipt">>, reset.listed)
    BY <1>2 DEF WriteReceipt
  <2>2. \A p \in DOMAIN files : p[1] # "resets" => p \in DOMAIN files' /\ files'[p] = files[p]
    BY <2>1 DEF With
  <2>3. ASSUME NEW c \in Caller
        PROVE  Holds(call[c])'
    <3> SUFFICES ASSUME Claims(call[c]), ~call[c].overtaken PROVE Holds(call[c])'
      BY <2>1 DEF Holds
    <3>1. call[c].path[1] # "resets"
      <4>1. Suits(focus, call[c])
        BY ActiveSuits DEF Active, AnswersInv
      <4>2. call[c].at = "done"
        BY NoneUnanswered DEF AnswersInv, Located, Fits, Claims
      <4> QED BY <4>1, <4>2
              DEF Suits, SagaFits, AdmissionFits, FeedbackFits, RunFits, EstimateFits, ClusterFits, ReplayFits,
                  GuardrailFits, BranchFits, SealFits, SuiteFits, TransitionFits, StatePath, SealFile
    <3>2. Has(call[c].path) /\ SameAs(call[c], files[call[c].path])
      BY DEF AnswersInv, Holds
    <3> QED BY <2>1, <2>2, <3>1, <3>2 DEF Holds, Has, SameAs
  <2>4. focus = "seal" => SealHeld'
    <3>1. Commitment[1] # "resets"
      BY DEF Commitment, SealFile
    <3> QED BY <2>1, <2>2, <3>1 DEF AnswersInv, SealHeld, RacedKnown, Begun, Unraced, Has, Initing
  <2> QED BY <2>3, <2>4
<1>3. CASE Commit \/ ResetInventory \/ ResetCheck \/ ResetKilled
  <2>1. UNCHANGED <<files, call, outside>>
    BY <1>3 DEF Commit, ResetInventory, ResetCheck, ResetKilled, commandVars
  <2> QED BY <2>1 DEF AnswersInv, Holds, SameAs, SealHeld, RacedKnown, Begun, Unraced, Has, Initing
<1> QED BY <1>1, <1>2, <1>3 DEF ResetNext, RemoveStores, RemoveSome

(* Every step keeps the answers true. *)
LEMMA AnswersInductive ==
  ASSUME AnswersInv, [WorkspaceNext]_workspaceVars
  PROVE  AnswersInv'
<1>1. Located'
  BY LocatedInductive DEF AnswersInv
<1>2. CASE UNCHANGED workspaceVars
  BY <1>1, <1>2 DEF workspaceVars, commandVars, AnswersInv, Holds, SameAs, SealHeld, RacedKnown, Begun, Unraced, Has, Initing
<1>3. CASE CommandNext /\ UNCHANGED <<resetVars, focus>>
  <2>1. ASSUME NEW d \in Caller
        PROVE  Holds(call[d])'
    <3>1. Honest(d)
      BY <1>3, CommandsHonest DEF AnswersInv
    <3>2. PublishSealed(d) => focus = "seal"
      BY ActiveSuits DEF PublishSealed, Parts, Active, AnswersInv, Suits, SagaFits, AdmissionFits, FeedbackFits,
         RunFits, EstimateFits, ClusterFits, ReplayFits, GuardrailFits, BranchFits, SealFits, SuiteFits, TransitionFits
    <3> QED BY <1>3, <3>1, <3>2, HoldsStays, SealedHolds DEF Honest
  <2>2. focus = "seal" => SealHeld'
    <3> SUFFICES ASSUME focus = "seal" PROVE SealHeld'
      OBVIOUS
    <3>1. SealNext \/ \E c \in Caller : Publish(c) \/ Killed(c)
      BY <1>3 DEF CommandNext
    <3> QED BY <3>1, SealHeldNext
  <2> QED BY <1>1, <1>3, <2>1, <2>2 DEF AnswersInv
<1>4. CASE ResetNext /\ UNCHANGED focus
  BY <1>1, <1>4, AnswersReset DEF AnswersInv
<1> QED BY <1>2, <1>3, <1>4 DEF WorkspaceNext

(* Whatever commands run next to each other in any store, are killed or    *)
(* overtaken by resets: who was told that a record is stored, or that an   *)
(* equal one was, finds it, and a seal finds its own unless its init and   *)
(* another one ran into each other (AnswersHold; publishJsonExclusive and  *)
(* what each store compares, sealInit).                                    *)
THEOREM AnswersAreKept == WorkspaceSpec => []AnswersHold
<1>1. WorkspaceInit => AnswersInv
  <2> SUFFICES ASSUME WorkspaceInit PROVE AnswersInv
    OBVIOUS
  <2>1. \A c \in Caller : call[c] = Idle
    BY DEF WorkspaceInit
  <2>2. Idle.at = "idle" /\ Idle.answer = None /\ Idle.op = None
    BY NewCommands
  <2>3. \A c \in Caller : ~Claims(call[c]) /\ call[c].at = "idle"
    BY <2>1, <2>2, NoneUnanswered DEF Claims
  <2>4. \A c \in Caller : Holds(call[c])
    BY <2>3 DEF Holds
  <2>5. focus = "seal" => SealHeld
    BY <2>3 DEF SealHeld, RacedKnown, Begun, Unraced, Initing, WorkspaceInit
  <2> QED BY <2>4, <2>5, LocatedInitially DEF AnswersInv
<1>2. AnswersInv => AnswersHold
  BY AnswersAreHeld DEF AnswersInv
<1> QED BY <1>1, <1>2, AnswersInductive, PTL DEF WorkspaceSpec

-------------------------------------------------------------------------------
(* Limits.  Whoever counts and stays below the limit publishes later: as   *)
(* many files as commands that have counted may come on top.               *)

Bounded(S, P, limit) ==
  IsFiniteSet(S) /\ P \subseteq Caller /\ Cardinality(S) + Cardinality(P) <= limit + Cardinality(Caller) - 1

(* Sets of callers are finite. *)
LEMMA CallersCount ==
  ASSUME NEW P \in SUBSET Caller
  PROVE  /\ IsFiniteSet(P) /\ Cardinality(P) \in Nat /\ Cardinality(Caller) \in Nat
         /\ Cardinality(P) <= Cardinality(Caller) /\ Cardinality(Caller) >= 1
<1>1. IsFiniteSet(P) /\ Cardinality(P) \in Nat /\ Cardinality(Caller) \in Nat /\ Cardinality(P) <= Cardinality(Caller)
  BY CallerAssumption, FS_Subset, FS_CardinalityType
<1>2. Cardinality(Caller) # 0
  BY CallerAssumption, FS_EmptySet
<1> QED BY <1>1, <1>2

(* Nothing is added; who counts has room; who publishes has counted. *)
LEMMA BoundKept ==
  ASSUME NEW limit \in Nat, NEW S, NEW P, Bounded(S, P, limit), NEW T \in SUBSET S, NEW Q \in SUBSET P
  PROVE  Bounded(T, Q, limit)
<1>1. IsFiniteSet(T) /\ Cardinality(T) <= Cardinality(S) /\ Cardinality(T) \in Nat /\ Cardinality(S) \in Nat
  BY FS_Subset, FS_CardinalityType DEF Bounded
<1>2. IsFiniteSet(P) /\ Q \in SUBSET Caller
  BY CallersCount DEF Bounded
<1>3. Cardinality(Q) <= Cardinality(P)
  BY <1>2, FS_Subset
<1>4. Cardinality(Q) \in Nat /\ Cardinality(P) \in Nat /\ Cardinality(Caller) \in Nat
  BY <1>2, CallersCount DEF Bounded
<1> QED BY <1>1, <1>2, <1>3, <1>4 DEF Bounded

(* Whoever counts below the limit may go on. *)
LEMMA BoundCounted ==
  ASSUME NEW limit \in Nat, NEW S, IsFiniteSet(S), ~(Cardinality(S) >= limit), NEW Q \in SUBSET Caller
  PROVE  Bounded(S, Q, limit)
<1>1. Cardinality(S) \in Nat
  BY FS_CardinalityType
<1> QED BY <1>1, CallersCount DEF Bounded

(* One record more is one caller less who may still publish. *)
LEMMA BoundPublished ==
  ASSUME NEW limit \in Nat, NEW S, NEW P, Bounded(S, P, limit), NEW c \in P, NEW p,
         NEW T \in SUBSET (S \cup {p}), NEW Q \in SUBSET (P \ {c})
  PROVE  Bounded(T, Q, limit)
<1>1. IsFiniteSet(S) /\ IsFiniteSet(P) /\ P \in SUBSET Caller
  BY CallersCount DEF Bounded
<1>2. /\ IsFiniteSet(S \cup {p}) /\ Cardinality(S \cup {p}) <= Cardinality(S) + 1
      /\ Cardinality(S) \in Nat /\ Cardinality(S \cup {p}) \in Nat
  <2>1. /\ IsFiniteSet(S \cup {p})
        /\ Cardinality(S \cup {p}) = IF p \in S THEN Cardinality(S) ELSE Cardinality(S) + 1
    BY <1>1, FS_AddElement
  <2>2. Cardinality(S) \in Nat /\ Cardinality(S \cup {p}) \in Nat
    BY <1>1, <2>1, FS_CardinalityType
  <2> QED BY <2>1, <2>2
<1>3. IsFiniteSet(P \ {c}) /\ Cardinality(P \ {c}) = Cardinality(P) - 1
  BY <1>1, FS_RemoveElement
<1>4. IsFiniteSet(T) /\ Cardinality(T) <= Cardinality(S \cup {p}) /\ Cardinality(T) \in Nat
  BY <1>2, FS_Subset, FS_CardinalityType
<1>5. Cardinality(Q) <= Cardinality(P \ {c}) /\ Cardinality(Q) \in Nat /\ Cardinality(P) \in Nat
      /\ Cardinality(Caller) \in Nat /\ Q \subseteq Caller
  BY <1>1, <1>3, FS_Subset, FS_CardinalityType, CallersCount
<1> QED BY <1>2, <1>3, <1>4, <1>5 DEF Bounded

(* Nothing is within any bound. *)
LEMMA BoundEmpty == ASSUME NEW limit \in Nat PROVE Bounded({}, {}, limit)
<1>1. IsFiniteSet({}) /\ Cardinality({}) = 0
  BY FS_EmptySet
<1>2. {} \in SUBSET Caller
  OBVIOUS
<1> QED BY <1>1, <1>2, CallersCount DEF Bounded

Counted == {c \in Caller : call[c].op = "feedback" /\ call[c].at = "publish"}
Limited == {c \in Caller : call[c].op = "guardrail" /\ call[c].at \in {"evaluate", "publish"}}

LimitsInv ==
  /\ Located
  /\ focus \in {"feedback", "reset"} => Bounded(Records, Counted, StoreLimit)
  /\ focus = "guardrail" => Bounded(Recent, Limited, RateLimit) /\ "aged" \in DOMAIN outside

(* One call that moves, and is not among the counted ones afterwards. *)
LEMMA CountedShrink ==
  ASSUME NEW c \in Caller, \A d \in Caller \ {c} : call'[d] = call[d],
         call'[c].op # "feedback" \/ call'[c].at # "publish"
  PROVE  Counted' \subseteq Counted \ {c}
  BY DEF Counted

(* Whoever leaves the window is one less. *)
LEMMA LimitedShrink ==
  ASSUME NEW c \in Caller, \A d \in Caller \ {c} : call'[d] = call[d], call'[c].at \notin {"evaluate", "publish"}
  PROVE  Limited' \subseteq Limited \ {c}
  BY DEF Limited

(* The limit of the feedback store stays bounded. *)
LEMMA StoreLimitKept ==
  ASSUME LimitsInv, focus \in {"feedback", "reset"},
         FeedbackNext \/ \E c \in Caller : Publish(c) \/ Killed(c)
  PROVE  Bounded(Records, Counted, StoreLimit)'
<1>0. Bounded(Records, Counted, StoreLimit) /\ StoreLimit \in Nat
  BY LimitAssumption DEF LimitsInv
<1> DEFINE R == Records
           N == Counted
<1>1. ASSUME UNCHANGED files, Counted' \subseteq Counted
      PROVE  Bounded(Records, Counted, StoreLimit)'
  <2>1. Records' = Records
    BY <1>1 DEF Records, Named
  <2>2. Bounded(Records', Counted', StoreLimit)
    BY <1>0, <1>1, <2>1, BoundKept
  <2> QED BY <2>2 DEF Bounded
<1>2. ASSUME NEW c \in Caller, NEW i, NEW content, IngestFeedback(c, i, content) \/ IngestRunRecord(c, i, content)
      PROVE  Bounded(Records, Counted, StoreLimit)'
  <2> DEFINE at == IF Has(Feedback(i)) THEN "compare" ELSE "count"
             to == IF Has(RunRecord(i)) THEN "compare" ELSE "publish"
             k == Command("feedback", at, Feedback(i), content, None)
             m == Command("run", to, RunRecord(i), content, None)
             r == Refused("feedback")
  <2>1. UNCHANGED files /\ (Start(c, k) \/ Start(c, r) \/ Start(c, m))
    BY <1>2 DEF IngestFeedback, IngestRunRecord
  <2>2. at # "publish"
    OBVIOUS
  <2> HIDE DEF at, to
  <2>3. /\ IsCommand(k) /\ k.at # "publish" /\ IsCommand(r) /\ r.at # "publish"
        /\ IsCommand(m) /\ m.op # "feedback"
    BY <2>2, NewCommands
  <2> HIDE DEF k, r, m
  <2>4. (\A d \in Caller \ {c} : call'[d] = call[d]) /\ (call'[c].op # "feedback" \/ call'[c].at # "publish")
    BY <2>1, <2>3, StartMoves DEF LimitsInv, Located
  <2> QED BY <1>1, <2>1, <2>4, CountedShrink
<1>3. ASSUME NEW c \in Caller, NEW answer, UNCHANGED files, Finish(c, answer)
      PROVE  Bounded(Records, Counted, StoreLimit)'
  <2>1. (\A d \in Caller \ {c} : call'[d] = call[d]) /\ call'[c].at = "done"
    BY <1>3, FinishMoves DEF LimitsInv, Located
  <2> QED BY <1>1, <1>3, <2>1, CountedShrink
<1>4. ASSUME NEW c \in Caller, CountRecords(c)
      PROVE  Bounded(Records, Counted, StoreLimit)'
  <2>1. CASE Cardinality(Records) >= StoreLimit
    BY <1>3, <1>4, <2>1 DEF CountRecords
  <2>2. CASE ~(Cardinality(Records) >= StoreLimit)
    <3>1. Records' = Records
      BY <1>4 DEF CountRecords, Records, Named
    <3>2. Counted' \in SUBSET Caller /\ IsFiniteSet(Records)
      BY <1>0 DEF Counted, Bounded
    <3>3. Bounded(Records', Counted', StoreLimit)
      BY <1>0, <2>2, <3>1, <3>2, BoundCounted
    <3> QED BY <3>3 DEF Bounded
  <2> QED BY <2>1, <2>2
<1>5. \A c, same : Compare(c, same) => UNCHANGED files /\ \E answer : Finish(c, answer)
  BY DEF Compare
<1>6. ASSUME NEW c \in Caller, Publish(c)
      PROVE  Bounded(Records, Counted, StoreLimit)'
  <2>1. CASE Goto(c, "compare") /\ UNCHANGED files
    <3>1. (\A d \in Caller \ {c} : call'[d] = call[d]) /\ call'[c].at = "compare"
      BY <2>1, GotoMoves DEF LimitsInv, Located
    <3> QED BY <1>1, <2>1, <3>1, CountedShrink
  <2>2. CASE files' = With(call[c].path, call[c].want) /\ Finish(c, "stored")
    <3>1. (\A d \in Caller \ {c} : call'[d] = call[d]) /\ call'[c].at = "done"
      BY <2>2, FinishMoves DEF LimitsInv, Located
    <3>2. Counted' \subseteq Counted \ {c}
      BY <3>1, CountedShrink
    <3>3. call[c].at = "publish" /\ Suits(focus, call[c])
      BY <1>6, ActiveSuits DEF Publish, Active, LimitsInv
    <3>4. Records' \subseteq Records \cup {call[c].path}
      BY <2>2 DEF Records, Named, With
    <3>5. CASE call[c].op = "feedback"
      <4>1. c \in Counted
        BY <3>3, <3>5 DEF Counted
      <4>2. Bounded(Records', Counted', StoreLimit)
        BY <1>0, <3>2, <3>4, <4>1, BoundPublished
      <4> QED BY <4>2 DEF Bounded
    <3>6. CASE call[c].op # "feedback"
      <4>1. call[c].path[1] = "runs"
        BY <3>3, <3>6 DEF Suits, RunFits, FeedbackFits
      <4>2. Records' \subseteq Records
        BY <2>2, <4>1 DEF Records, Named, With
      <4>3. Bounded(Records', Counted', StoreLimit)
        BY <1>0, <3>2, <4>2, BoundKept
      <4> QED BY <4>3 DEF Bounded
    <3> QED BY <3>5, <3>6
  <2> QED BY <1>6, <2>1, <2>2 DEF Publish
<1> QED BY <1>2, <1>3, <1>4, <1>5, <1>6 DEF FeedbackNext, Killed

(* The limit of the window stays bounded. *)
LEMMA RateLimitKept ==
  ASSUME LimitsInv, focus = "guardrail", GuardrailNext \/ \E c \in Caller : Publish(c) \/ Killed(c)
  PROVE  Bounded(Recent, Limited, RateLimit)' /\ "aged" \in DOMAIN outside'
<1>0. Bounded(Recent, Limited, RateLimit) /\ RateLimit \in Nat /\ "aged" \in DOMAIN outside
  BY RateAssumption DEF LimitsInv
<1>1. ASSUME Recent' \subseteq Recent, Limited' \subseteq Limited
      PROVE  Bounded(Recent, Limited, RateLimit)'
  <2>1. Bounded(Recent', Limited', RateLimit)
    BY <1>0, <1>1, BoundKept
  <2> QED BY <2>1 DEF Bounded
<1>2. UNCHANGED <<files, outside>> => Recent' = Recent
  BY DEF Recent, Named
<1>3. ASSUME NEW c \in Caller, NEW i, NEW action, NEW approval, Record(c, i, action, approval)
      PROVE  Bounded(Recent, Limited, RateLimit)'
  <2> DEFINE at == IF Has(Decision(i)) THEN "compare" ELSE "limit"
             read == [action |-> action, approval |-> approval]
             k == Command("guardrail", at, Decision(i), None, read)
  <2>1. UNCHANGED <<files, outside>> /\ Start(c, k)
    BY <1>3 DEF Record
  <2>2. at \notin {"evaluate", "publish"}
    OBVIOUS
  <2> HIDE DEF at, read
  <2>3. IsCommand(k) /\ k.at \notin {"evaluate", "publish"}
    BY <2>2, NewCommands
  <2> HIDE DEF k
  <2>4. (\A d \in Caller \ {c} : call'[d] = call[d]) /\ call'[c].at \notin {"evaluate", "publish"}
    BY <2>1, <2>3, StartMoves DEF LimitsInv, Located
  <2> QED BY <1>1, <1>2, <2>1, <2>4, LimitedShrink
<1>4. ASSUME NEW c \in Caller, NEW answer, UNCHANGED <<files, outside>>, Finish(c, answer)
      PROVE  Bounded(Recent, Limited, RateLimit)'
  <2>1. (\A d \in Caller \ {c} : call'[d] = call[d]) /\ call'[c].at = "done"
    BY <1>4, FinishMoves DEF LimitsInv, Located
  <2> QED BY <1>1, <1>2, <1>4, <2>1, LimitedShrink
<1>5. ASSUME NEW c \in Caller, EnforceRateLimit(c)
      PROVE  Bounded(Recent, Limited, RateLimit)'
  <2>1. CASE Cardinality(Recent) >= RateLimit
    BY <1>4, <1>5, <2>1 DEF EnforceRateLimit
  <2>2. CASE ~(Cardinality(Recent) >= RateLimit)
    <3>1. Recent' = Recent
      BY <1>2, <1>5 DEF EnforceRateLimit
    <3>2. Limited' \in SUBSET Caller /\ IsFiniteSet(Recent)
      BY <1>0 DEF Limited, Bounded
    <3>3. Bounded(Recent', Limited', RateLimit)
      BY <1>0, <2>2, <3>1, <3>2, BoundCounted
    <3> QED BY <3>3 DEF Bounded
  <2> QED BY <2>1, <2>2
<1>6. ASSUME NEW c \in Caller, Judge(c)
      PROVE  Bounded(Recent, Limited, RateLimit)'
  <2> DEFINE want == Evaluate(call[c].read.action, call[c].read.approval)
             k == [call[c] EXCEPT !.at = "publish", !.want = want]
  <2>1. /\ call[c].at = "evaluate" /\ Suits(focus, call[c]) /\ UNCHANGED <<files, outside>> /\ Update(c, k)
        /\ IsCommand(call[c])
    BY <1>6, ActiveSuits DEF Judge, Active, LimitsInv, Located, Calls
  <2> HIDE DEF want
  <2>2. k = [call[c] EXCEPT !.at = "publish", !.want = want]
    OBVIOUS
  <2> HIDE DEF k
  <2>3. IsCommand(k) /\ k.op = "guardrail"
    BY <2>1, <2>2 DEF IsCommand, Suits, GuardrailFits
  <2>4. call'[c].op = "guardrail" /\ call[c].op = "guardrail" /\ \A d \in Caller \ {c} : call'[d] = call[d]
    BY <2>1, <2>3, CallsMove DEF Update, LimitsInv, Located, Suits, GuardrailFits
  <2>5. Limited' \subseteq Limited
    BY <2>1, <2>4 DEF Limited
  <2> QED BY <1>1, <1>2, <2>1, <2>5
<1>7. ASSUME NEW c \in Caller, Repeat(c)
      PROVE  Bounded(Recent, Limited, RateLimit)'
  <2>1. UNCHANGED <<files, outside>> /\ \E answer : Finish(c, answer)
    BY <1>7 DEF Repeat
  <2> QED BY <1>4, <2>1
<1>8. ASSUME NEW artifact, Quarantine(artifact)
      PROVE  Bounded(Recent, Limited, RateLimit)'
  <2>1. UNCHANGED <<call, outside>> /\ files' = With(HardStop(artifact), "quarantine")
    BY <1>8 DEF Quarantine
  <2>2. HardStop(artifact)[1] # "guardrail"
    BY DEF HardStop
  <2>3. Recent' \subseteq Recent
    BY <2>1, <2>2 DEF Recent, Named, With
  <2>4. Limited' \subseteq Limited
    BY <2>1 DEF Limited
  <2> QED BY <1>1, <2>3, <2>4
<1>9. ASSUME ApprovalLapses \/ WindowPasses
      PROVE  Bounded(Recent, Limited, RateLimit)' /\ "aged" \in DOMAIN outside'
  <2>1. UNCHANGED <<files, call>> /\ "aged" \in DOMAIN outside'
        /\ (outside'.aged = outside.aged \/ outside'.aged = Named("guardrail", "decision"))
    BY <1>0, <1>9 DEF ApprovalLapses, WindowPasses
  <2>2. Recent' \subseteq Recent
    BY <2>1 DEF Recent, Named
  <2>3. Limited' \subseteq Limited
    BY <2>1 DEF Limited
  <2> QED BY <1>1, <2>1, <2>2, <2>3
<1>10. ASSUME NEW c \in Caller, Publish(c)
       PROVE  Bounded(Recent, Limited, RateLimit)'
  <2>1. CASE Goto(c, "compare") /\ UNCHANGED files
    <3>1. (\A d \in Caller \ {c} : call'[d] = call[d]) /\ call'[c].at = "compare"
      BY <2>1, GotoMoves DEF LimitsInv, Located
    <3> QED BY <1>1, <1>2, <1>10, <2>1, <3>1, LimitedShrink DEF Publish
  <2>2. CASE files' = With(call[c].path, call[c].want) /\ Finish(c, "stored")
    <3>1. (\A d \in Caller \ {c} : call'[d] = call[d]) /\ call'[c].at = "done"
      BY <2>2, FinishMoves DEF LimitsInv, Located
    <3>2. Limited' \subseteq Limited \ {c}
      BY <3>1, LimitedShrink
    <3>3. c \in Limited
      BY <1>10, ActiveSuits DEF Publish, Active, LimitsInv, Limited, Suits, GuardrailFits
    <3>4. Recent' \subseteq Recent \cup {call[c].path}
      BY <1>10, <2>2 DEF Recent, Named, With, Publish
    <3>5. Recent' \in SUBSET (Recent \cup {call[c].path}) /\ Limited' \in SUBSET (Limited \ {c})
      BY <3>2, <3>4
    <3>6. Bounded(Recent', Limited', RateLimit)
      <4> DEFINE T == Recent'
                 Q == Limited'
                 p == call[c].path
      <4>1. T \in SUBSET (Recent \cup {p}) /\ Q \in SUBSET (Limited \ {c})
        BY <3>5
      <4> HIDE DEF T, Q, p
      <4>2. Bounded(T, Q, RateLimit)
        BY <1>0, <3>3, <4>1, BoundPublished
      <4> QED BY <4>2 DEF T, Q
    <3> QED BY <3>6 DEF Bounded
  <2> QED BY <1>10, <2>1, <2>2 DEF Publish
<1>11. ASSUME NEW c \in Caller, Killed(c)
       PROVE  Bounded(Recent, Limited, RateLimit)'
  BY <1>4, <1>11 DEF Killed
<1>12. CASE UNCHANGED outside
  BY <1>0, <1>3, <1>5, <1>6, <1>7, <1>8, <1>9, <1>10, <1>11, <1>12 DEF GuardrailNext
<1>13. CASE ~UNCHANGED outside
  <2>1. ApprovalLapses \/ WindowPasses
    BY <1>13 DEF GuardrailNext, Record, EnforceRateLimit, Judge, Repeat, Quarantine, Publish, Killed
  <2> QED BY <1>9, <2>1
<1> QED BY <1>12, <1>13

(* Every step keeps both bounds. *)
LEMMA LimitsInductive == LimitsInv /\ [WorkspaceNext]_workspaceVars => LimitsInv'
<1> SUFFICES ASSUME LimitsInv, [WorkspaceNext]_workspaceVars PROVE LimitsInv'
  OBVIOUS
<1>1. Located'
  BY LocatedInductive DEF LimitsInv
<1>2. UNCHANGED <<files, call, outside>> =>
        Records' = Records /\ Counted' = Counted /\ Recent' = Recent /\ Limited' = Limited
  BY DEF Records, Counted, Recent, Limited, Named
<1>3. CASE UNCHANGED workspaceVars
  BY <1>1, <1>2, <1>3 DEF workspaceVars, commandVars, LimitsInv, Bounded
<1>4. CASE CommandNext /\ UNCHANGED <<resetVars, focus>>
  <2>1. focus \in {"feedback", "reset"} => Bounded(Records, Counted, StoreLimit)'
    <3> SUFFICES ASSUME focus \in {"feedback", "reset"} PROVE Bounded(Records, Counted, StoreLimit)'
      OBVIOUS
    <3>1. FeedbackNext \/ \E c \in Caller : Publish(c) \/ Killed(c)
      BY <1>4 DEF CommandNext
    <3> QED BY <3>1, StoreLimitKept
  <2>2. focus = "guardrail" => Bounded(Recent, Limited, RateLimit)' /\ "aged" \in DOMAIN outside'
    <3> SUFFICES ASSUME focus = "guardrail"
                 PROVE  Bounded(Recent, Limited, RateLimit)' /\ "aged" \in DOMAIN outside'
      OBVIOUS
    <3>1. GuardrailNext \/ \E c \in Caller : Publish(c) \/ Killed(c)
      BY <1>4 DEF CommandNext
    <3> QED BY <3>1, RateLimitKept
  <2> QED BY <1>1, <1>4, <2>1, <2>2 DEF LimitsInv
<1>5. CASE ResetNext /\ UNCHANGED focus
  <2>1. ASSUME Records' \subseteq Records, Recent' \subseteq Recent, Counted' \subseteq Counted,
               Limited' \subseteq Limited, UNCHANGED outside
        PROVE  LimitsInv'
    <3>1. focus \in {"feedback", "reset"} => Bounded(Records', Counted', StoreLimit)
      BY <2>1, BoundKept, LimitAssumption DEF LimitsInv
    <3>2. focus = "guardrail" => Bounded(Recent', Limited', RateLimit)
      BY <2>1, BoundKept, RateAssumption DEF LimitsInv
    <3> QED BY <1>1, <1>5, <2>1, <3>1, <3>2 DEF LimitsInv, Bounded
  <2>2. ASSUME NEW gone, Take(gone)
        PROVE  LimitsInv'
    <3>1. \A c \in Caller : call'[c].op = call[c].op /\ call'[c].at = call[c].at
      <4> SUFFICES ASSUME NEW c \in Caller PROVE call'[c].op = call[c].op /\ call'[c].at = call[c].at
        OBVIOUS
      <4>1. IsCommand(call[c]) /\ call'[c] = [call[c] EXCEPT !.overtaken = TRUE]
        BY <2>2 DEF Take, LimitsInv, Located, Calls
      <4> QED BY <4>1 DEF IsCommand
    <3>2. DOMAIN files' \subseteq DOMAIN files /\ UNCHANGED outside
      BY <2>2 DEF Take
    <3> QED BY <2>1, <3>1, <3>2 DEF Records, Recent, Counted, Limited, Named
  <2>3. CASE WriteReceipt
    <3>1. UNCHANGED <<call, outside>> /\ files' = With(<<"resets", resets, "receipt">>, reset.listed)
      BY <2>3 DEF WriteReceipt
    <3>2. Records' \subseteq Records /\ Recent' \subseteq Recent
      BY <3>1 DEF Records, Recent, Named, With
    <3> QED BY <2>1, <3>1, <3>2 DEF Counted, Limited
  <2>4. CASE Commit \/ ResetInventory \/ ResetCheck \/ ResetKilled
    BY <1>2, <2>1, <2>4 DEF Commit, ResetInventory, ResetCheck, ResetKilled, commandVars
  <2> QED BY <1>5, <2>2, <2>3, <2>4 DEF ResetNext, RemoveStores, RemoveSome
<1> QED BY <1>3, <1>4, <1>5 DEF WorkspaceNext

(* The limits of the feedback store and of the guardrail's window are      *)
(* passed by less than the number of commands that run at the same time    *)
(* (LimitsHold; ingestFeedback and enforceRateLimit count, and publish     *)
(* later).                                                                 *)
THEOREM LimitsBound == WorkspaceSpec => []LimitsHold
<1>1. WorkspaceInit => LimitsInv
  <2> SUFFICES ASSUME WorkspaceInit PROVE LimitsInv
    OBVIOUS
  <2>1. \A c \in Caller : call[c].at = "idle"
    BY NewCommands DEF WorkspaceInit
  <2>2. Records = {} /\ Recent = {} /\ Counted = {} /\ Limited = {} /\ "aged" \in DOMAIN outside
    BY <2>1 DEF WorkspaceInit, Records, Recent, Counted, Limited, Named
  <2> QED BY <2>2, LocatedInitially, BoundEmpty, LimitAssumption, RateAssumption DEF LimitsInv
<1>2. LimitsInv => LimitsHold
  <2> SUFFICES ASSUME LimitsInv PROVE LimitsHold
    OBVIOUS
  <2>1. ASSUME NEW limit \in Nat, NEW S, NEW P, Bounded(S, P, limit)
        PROVE  Cardinality(S) <= limit + Cardinality(Caller) - 1
    <3>1. Cardinality(S) \in Nat /\ P \in SUBSET Caller
      BY <2>1, FS_CardinalityType DEF Bounded
    <3> QED BY <2>1, <3>1, CallersCount DEF Bounded
  <2>2. Bounded({}, {}, StoreLimit) /\ Bounded({}, {}, RateLimit)
    BY BoundEmpty, LimitAssumption, RateAssumption
  <2>3. focus \notin {"feedback", "reset"} => Records = {}
    BY DEF LimitsInv, Located, Records, Named, InHome
  <2>4. focus # "guardrail" => Recent = {}
    BY DEF LimitsInv, Located, Recent, Named, InHome
  <2>5. StoreIsBounded
    BY <2>1, <2>2, <2>3, LimitAssumption DEF LimitsInv, StoreIsBounded
  <2>6. RateIsBounded
    BY <2>1, <2>2, <2>4, RateAssumption DEF LimitsInv, RateIsBounded
  <2> QED BY <2>5, <2>6 DEF LimitsHold
<1> QED BY <1>1, <1>2, LimitsInductive, PTL DEF WorkspaceSpec

-------------------------------------------------------------------------------
(* Visits.  The file of an evaluation is named by its execution, so what   *)
(* an archive that verifies has of an execution is one file.               *)

VisitFits(k) ==
  Active(k) /\ k.path[3] = "evaluation" /\ k.want.receipt # None => k.path = EvaluationOf(k.want.receipt.exec)

VisitsInv ==
  /\ Located
  /\ focus = "branch" => /\ \A p \in Proven : p = EvaluationOf(files[p].receipt.exec)
                         /\ \A c \in Caller : VisitFits(call[c])

(* A step of one caller leaves the other visits alone. *)
LEMMA VisitsMove ==
  ASSUME VisitsInv, focus = "branch", NEW c \in Caller, \A d \in Caller \ {c} : call'[d] = call[d],
         VisitFits(call'[c]), UNCHANGED files
  PROVE  (\A p \in Proven' : p = EvaluationOf(files'[p].receipt.exec)) /\ (\A d \in Caller : VisitFits(call'[d]))
  BY DEF VisitsInv, Proven, Named

(* Every receipt on file is under the name of its execution. *)
LEMMA VisitsNext ==
  ASSUME VisitsInv, focus = "branch", BranchNext \/ \E c \in Caller : Publish(c) \/ Killed(c)
  PROVE  (\A p \in Proven' : p = EvaluationOf(files'[p].receipt.exec)) /\ (\A d \in Caller : VisitFits(call'[d]))
<1> DEFINE Kept == /\ \A p \in Proven' : p = EvaluationOf(files'[p].receipt.exec)
                   /\ \A d \in Caller : VisitFits(call'[d])
<1>1. ASSUME NEW c \in Caller, NEW k, IsCommand(k), Start(c, k), VisitFits(k), UNCHANGED files
      PROVE  Kept
  <2>1. call'[c] = k /\ \A d \in Caller \ {c} : call'[d] = call[d]
    BY <1>1, StartMoves DEF VisitsInv, Located
  <2> QED BY <1>1, <2>1, VisitsMove
<1>2. ASSUME NEW c \in Caller, NEW answer, Finish(c, answer), call[c].at \notin {"idle", "done"}, UNCHANGED files
      PROVE  Kept
  <2>1. /\ \A d \in Caller \ {c} : call'[d] = call[d]
        /\ call'[c].at = "done" /\ call'[c].answer = answer
        /\ answer \in Answered => call'[c].path = call[c].path /\ call'[c].want = call[c].want
    BY <1>2, FinishMoves DEF VisitsInv, Located
  <2>2. VisitFits(call[c])
    BY DEF VisitsInv
  <2>3. VisitFits(call'[c])
    BY <1>2, <2>1, <2>2 DEF VisitFits, Active, Claims
  <2> QED BY <1>2, <2>1, <2>3, VisitsMove
<1>3. ASSUME NEW c \in Caller, NEW at, Goto(c, at), call[c].at \notin {"idle", "done"}, UNCHANGED files
      PROVE  Kept
  <2>1. /\ \A d \in Caller \ {c} : call'[d] = call[d]
        /\ call'[c].path = call[c].path /\ call'[c].want = call[c].want
    BY <1>3, GotoMoves DEF VisitsInv, Located
  <2>2. VisitFits(call[c])
    BY DEF VisitsInv
  <2>3. VisitFits(call'[c])
    BY <1>3, <2>1, <2>2 DEF VisitFits, Active, Claims
  <2> QED BY <1>3, <2>1, <2>3, VisitsMove
<1>4. ASSUME NEW c \in Caller, Start(c, Refused("branch")), UNCHANGED files
      PROVE  Kept
  <2> DEFINE k == Refused("branch")
  <2>1. IsCommand(k) /\ ~Active(k)
    BY NewCommands DEF Active, Claims, Answered
  <2>2. Start(c, k)
    BY <1>4
  <2> HIDE DEF k
  <2>3. VisitFits(k)
    BY <2>1 DEF VisitFits
  <2> QED BY <1>1, <1>4, <2>1, <2>2, <2>3
<1>5. ASSUME NEW c \in Caller, NEW b, NEW parent, RecordBranch(c, b, parent)
      PROVE  Kept
  <2> DEFINE want == [parent |-> parent, draft |-> outside.draft[b]]
             k == Command("branch", "publish", Branch(b), want, None)
  <2>1. UNCHANGED files /\ (Start(c, k) \/ Start(c, Refused("branch")))
    BY <1>5 DEF RecordBranch
  <2> HIDE DEF want
  <2>2. IsCommand(k) /\ k.path = Branch(b)
    BY NewCommands
  <2> HIDE DEF k
  <2>3. VisitFits(k)
    BY <2>2 DEF VisitFits, Branch
  <2> QED BY <1>1, <1>4, <2>1, <2>2, <2>3
<1>6. ASSUME NEW c \in Caller, NEW b, NEW receipt, EvaluateBranch(c, b, receipt)
      PROVE  Kept
  <2> DEFINE want == [branch |-> b, receipt |-> receipt]
             blind == [branch |-> b, receipt |-> None]
             k == Command("branch", "verify", EvaluationOf(receipt.exec), want, None)
             m == Command("branch", "publish", Diagnosis(made), blind, None)
  <2>1. UNCHANGED files /\ (Start(c, k) \/ Start(c, m) \/ Start(c, Refused("branch")))
    BY <1>6 DEF EvaluateBranch
  <2>2. /\ IsCommand(k) /\ k.path = EvaluationOf(receipt.exec) /\ k.want = want
        /\ IsCommand(m) /\ m.want = blind
    BY NewCommands
  <2>3. want.receipt = receipt /\ blind.receipt = None
    OBVIOUS
  <2> HIDE DEF k, m, want, blind
  <2>4. VisitFits(k) /\ VisitFits(m)
    BY <2>2, <2>3 DEF VisitFits
  <2> QED BY <1>1, <1>4, <2>1, <2>2, <2>4
<1>7. ASSUME NEW c \in Caller, VerifyArchive(c)
      PROVE  Kept
  <2>1. /\ call[c].at = "verify" /\ UNCHANGED files
        /\ Goto(c, "publish") \/ Finish(c, "conflict")
    BY <1>7 DEF VerifyArchive
  <2> QED BY <1>2, <1>3, <2>1
<1>8. ASSUME NEW c \in Caller, Compare(c, SameBranchRecord(Found(c), call[c].want)) \/ Killed(c)
      PROVE  Kept
  <2>1. call[c].at \notin {"idle", "done"} /\ UNCHANGED files /\ \E answer : Finish(c, answer)
    BY <1>8 DEF Compare, Killed
  <2> QED BY <1>2, <2>1
<1>9. ASSUME NEW b, EditDraft(b)
      PROVE  Kept
  BY <1>9 DEF EditDraft, VisitsInv, Proven, Named
<1>10. ASSUME NEW c \in Caller, Publish(c)
       PROVE  Kept
  <2>1. call[c].at = "publish" /\ VisitFits(call[c])
    BY <1>10 DEF Publish, VisitsInv
  <2>2. CASE Goto(c, "compare") /\ UNCHANGED files
    BY <1>3, <2>1, <2>2
  <2>3. CASE ~Has(call[c].path) /\ files' = With(call[c].path, call[c].want) /\ Finish(c, "stored")
    <3>1. /\ \A d \in Caller \ {c} : call'[d] = call[d]
          /\ call'[c].path = call[c].path /\ call'[c].want = call[c].want
      BY <2>3, FinishMoves DEF VisitsInv, Located, Answered
    <3>2. \A d \in Caller : VisitFits(call'[d])
      BY <2>1, <3>1 DEF VisitsInv, VisitFits, Active
    <3>3. ASSUME NEW p \in Proven'
          PROVE  p = EvaluationOf(files'[p].receipt.exec)
      <4>1. p \in DOMAIN files' /\ p[1] = "branches" /\ p[3] = "evaluation" /\ files'[p].receipt # None
        BY <3>3 DEF Proven, Named
      <4>2. CASE p = call[c].path
        <5>1. files'[p] = call[c].want
          BY <2>3, <4>2 DEF With
        <5> QED BY <2>1, <4>1, <4>2, <5>1 DEF VisitFits, Active
      <4>3. CASE p # call[c].path
        <5>1. p \in DOMAIN files /\ files'[p] = files[p]
          BY <2>3, <4>1, <4>3 DEF With
        <5>2. p \in Proven
          BY <4>1, <5>1 DEF Proven, Named
        <5> QED BY <5>1, <5>2 DEF VisitsInv
      <4> QED BY <4>2, <4>3
    <3> QED BY <3>2, <3>3
  <2> QED BY <1>10, <2>2, <2>3 DEF Publish
<1> QED BY <1>5, <1>6, <1>7, <1>8, <1>9, <1>10 DEF BranchNext

(* Every step keeps receipts under their names. *)
LEMMA VisitsInductive == VisitsInv /\ [WorkspaceNext]_workspaceVars => VisitsInv'
<1> SUFFICES ASSUME VisitsInv, [WorkspaceNext]_workspaceVars PROVE VisitsInv'
  OBVIOUS
<1>1. Located'
  BY LocatedInductive DEF VisitsInv
<1>2. UNCHANGED <<files, call, focus>> => VisitsInv'
  BY <1>1 DEF VisitsInv, Proven, Named
<1>3. CASE UNCHANGED workspaceVars
  BY <1>2, <1>3 DEF workspaceVars, commandVars
<1>4. CASE CommandNext /\ UNCHANGED <<resetVars, focus>>
  <2>1. focus = "branch" => BranchNext \/ \E c \in Caller : Publish(c) \/ Killed(c)
    BY <1>4 DEF CommandNext
  <2> QED BY <1>1, <1>4, <2>1, VisitsNext DEF VisitsInv
<1>5. CASE ResetNext /\ UNCHANGED focus
  <2>1. ASSUME NEW gone, Take(gone)
        PROVE  VisitsInv'
    <3>1. ASSUME NEW c \in Caller, focus = "branch"
          PROVE  VisitFits(call'[c])
      <4>1. IsCommand(call[c]) /\ call'[c] = [call[c] EXCEPT !.overtaken = TRUE]
        BY <2>1 DEF Take, VisitsInv, Located, Calls
      <4>2. /\ call'[c].at = call[c].at /\ call'[c].path = call[c].path /\ call'[c].want = call[c].want
            /\ call'[c].answer = call[c].answer
        BY <4>1 DEF IsCommand
      <4> QED BY <3>1, <4>2 DEF VisitsInv, VisitFits, Active, Claims
    <3>2. \A p \in DOMAIN files' : p \in DOMAIN files /\ files'[p] = files[p]
      BY <2>1 DEF Take
    <3> QED BY <1>1, <1>5, <3>1, <3>2 DEF VisitsInv, Proven, Named
  <2>2. CASE WriteReceipt
    <3>1. UNCHANGED call /\ files' = With(<<"resets", resets, "receipt">>, reset.listed)
      BY <2>2 DEF WriteReceipt
    <3>2. \A p \in DOMAIN files' : p[1] = "branches" => p \in DOMAIN files /\ files'[p] = files[p]
      BY <3>1 DEF With
    <3> QED BY <1>1, <1>5, <3>1, <3>2 DEF VisitsInv, Proven, Named
  <2>3. CASE Commit \/ ResetInventory \/ ResetCheck \/ ResetKilled
    BY <1>2, <1>5, <2>3 DEF Commit, ResetInventory, ResetCheck, ResetKilled, commandVars
  <2> QED BY <1>5, <2>1, <2>2, <2>3 DEF ResetNext, RemoveStores, RemoveSome
<1> QED BY <1>3, <1>4, <1>5 DEF WorkspaceNext

(* Statistics are refused or true: an archive that verifies counts no      *)
(* receipt, content or execution twice, and only branches whose files are  *)
(* still those that were evaluated (NoDoubleVisit; verifiedEvaluations,    *)
(* prepareEvaluation), whichever evaluations raced and whatever a reset    *)
(* took.                                                                   *)
THEOREM VisitsAreSingle == WorkspaceSpec => []NoDoubleVisit
<1>1. WorkspaceInit => VisitsInv
  <2> SUFFICES ASSUME WorkspaceInit PROVE VisitsInv
    OBVIOUS
  <2>1. \A c \in Caller : call[c].at = "idle" /\ ~Claims(call[c])
    BY NewCommands, NoneUnanswered DEF WorkspaceInit, Claims
  <2>2. Proven = {} /\ \A c \in Caller : VisitFits(call[c])
    BY <2>1 DEF WorkspaceInit, Proven, Named, VisitFits, Active
  <2> QED BY <2>2, LocatedInitially DEF VisitsInv
<1>2. VisitsInv => NoDoubleVisit
  <2> SUFFICES ASSUME VisitsInv, ArchiveVerifies
               PROVE  /\ \A p, q \in Proven : p # q => ~Shares(files[p].receipt, files[q].receipt)
                      /\ \A b \in Branches : Visits(b) # {} => files[Branch(b)].draft = outside.draft[b]
    BY DEF NoDoubleVisit
  <2>1. ASSUME NEW p \in Proven, NEW q \in Proven, Shares(files[p].receipt, files[q].receipt)
        PROVE  p = q
    <3>1. focus = "branch"
      BY <2>1 DEF VisitsInv, Located, Proven, Named, InHome
    <3>2. files[p] = files[q]
      BY <2>1 DEF ArchiveVerifies
    <3> QED BY <3>1, <3>2 DEF VisitsInv
  <2>2. ASSUME NEW b \in Branches, NEW p \in Visits(b)
        PROVE  files[Branch(b)].draft = outside.draft[b]
    BY <2>2 DEF Visits, ArchiveVerifies, Replays
  <2> QED BY <2>1, <2>2
<1> QED BY <1>1, <1>2, VisitsInductive, PTL DEF WorkspaceSpec

-------------------------------------------------------------------------------
(* Proposals.                                                              *)

(* People write first files of the right shape. *)
LEMMA AuthoredTypes == \A p \in Authored : IsProposal(p)
  BY AuthoredAssumption

(* Where an applied proposal may come from: what people wrote, or a file. *)
Approved(f, q) ==
  \/ q \in Authored
  \/ \E x \in DOMAIN f : x[1] = "proposals" /\ x[3] = "state" /\ q = f[x] /\ \E e \in Decisions : DecisionApproves(e, q)
Applies(p) ==
  \E d \in Decisions : /\ d.id = p.decision /\ d.value = "approved" /\ d.candidate = p.candidate
                       /\ InTime(d, p.history[Len(p.history)].at)
Authorized(f, p) ==
  /\ p.stage = "approved" => \E e \in Decisions : DecisionApproves(e, p)
  /\ p.stage = "applied" => Applies(p) /\ \E q : AppliedFrom(q, p) /\ Approved(f, q)
EvaluationPasses(f, p) ==
  p.stage = "applied" =>
    p.evaluation \in DOMAIN f /\ f[p.evaluation].result = "pass" /\ f[p.evaluation].suite.target = p.candidate

(* What a transition is about to publish, and what it has published. *)
Moving(k) == k.op = "transition" /\ Active(k)
MoveKept(f, k) == Moving(k) => /\ IsProposal(k.want) /\ Authorized(f, k.want)
                               /\ k.at = "publish" => EvaluationPasses(f, k.want)
ProposalKept ==
  /\ \A path \in Named("proposals", "state") :
       IsProposal(files[path]) /\ Authorized(files, files[path]) /\ EvaluationPasses(files, files[path])
  /\ \A c \in Caller : MoveKept(files, call[c])
ProposalsInv == Located /\ (focus = "proposal" => ProposalKept)

(* A person who edits a proposal leaves its history alone. *)
LEMMA EditsKeep ==
  ASSUME NEW p, IsProposal(p), NEW q \in Edited(p)
  PROVE  IsProposal(q) /\ q.stage = p.stage /\ q.history = p.history /\ q.decision = p.decision
<1>1. PICK candidate, predicted, evaluation : q = Edit(p, candidate, predicted, evaluation)
  BY DEF Edited
<1> QED BY <1>1 DEF IsProposal, Edit

(* Only what is approved is applied. *)
LEMMA StagesFollow ==
  ASSUME NEW stage \in Stages, NEW to \in NextStages[stage]
  PROVE  to \in Stages /\ (to = "applied" => stage = "approved")
  BY DEF NextStages, Stages

(* A transition that is supported keeps a proposal authorized. *)
LEMMA MovesAuthorized ==
  ASSUME NEW p \in Proposals, IsProposal(p), p \in Authored \/ Authorized(files, p), NEW q \in Edited(p),
         NEW to \in NextStages[p.stage], NEW by \in Actors, NEW at \in Times, NEW d \in Decisions \cup {None},
         Supported(q, to, by, at, d)
  PROVE  IsProposal(Moved(q, to, by, at, d)) /\ Authorized(files, Moved(q, to, by, at, d))
<1> DEFINE m == Moved(q, to, by, at, d)
           e == [to |-> to, by |-> by, at |-> at]
           n == Len(q.history)
<1>1. IsProposal(q) /\ q.stage = p.stage /\ q.history = p.history /\ q.decision = p.decision
  BY EditsKeep
<1>2. to \in Stages /\ (to = "applied" => p.stage = "approved")
  BY StagesFollow DEF IsProposal
<1>3. e \in Entries /\ e.by = by /\ e.at = at
  BY <1>2 DEF Entries
<1>4. /\ DOMAIN m = DOMAIN q /\ m.stage = to /\ m.history = Append(q.history, e) /\ m.candidate = q.candidate
      /\ m.decision = IF to \in {"approved", "rejected"} THEN d.id ELSE q.decision
  BY <1>1 DEF Moved, IsProposal
<1> HIDE DEF m, e
<1>5. n \in Nat /\ Append(q.history, e) \in Seq(Entries) /\ Len(Append(q.history, e)) = n + 1
      /\ Append(q.history, e)[n + 1] = e
  BY <1>1, <1>3, AppendProperties, LenProperties DEF IsProposal
<1>6. IsProposal(m)
  BY <1>1, <1>2, <1>4, <1>5 DEF IsProposal
<1>7. m.history[Len(m.history)] = e
  BY <1>4, <1>5
<1>8. to = "approved" => \E x \in Decisions : DecisionApproves(x, m)
  <2> SUFFICES ASSUME to = "approved" PROVE DecisionApproves(d, m) /\ d \in Decisions
    OBVIOUS
  <2>1. d # None /\ Decides(d, q, to, by) /\ InTime(d, at)
    BY DEF Supported
  <2> QED BY <1>3, <1>4, <1>7, <2>1 DEF DecisionApproves, Decides
<1>9. to = "applied" => Applies(m) /\ AppliedFrom(p, m) /\ Approved(files, p)
  <2> SUFFICES ASSUME to = "applied" PROVE Applies(m) /\ AppliedFrom(p, m) /\ Approved(files, p)
    OBVIOUS
  <2>1. /\ d # None /\ d.value = "approved" /\ d.candidate = q.candidate
        /\ InTime(d, at) /\ d.id = q.decision
    BY DEF Supported
  <2>2. Applies(m)
    BY <1>3, <1>4, <1>7, <2>1 DEF Applies
  <2>3. AppliedFrom(p, m)
    BY <1>1, <1>2, <1>4, <1>7 DEF AppliedFrom
  <2>4. Approved(files, p)
    <3>1. CASE p \in Authored
      BY <3>1 DEF Approved
    <3>2. CASE p \notin Authored
      BY <1>2, <3>2 DEF Approved, Authorized, Proposals, Named
    <3> QED BY <3>1, <3>2
  <2> QED BY <2>2, <2>3, <2>4
<1>10. Authorized(files, m)
  BY <1>4, <1>8, <1>9 DEF Authorized
<1> QED BY <1>6, <1>10 DEF m

(* What was authorized stays so: files that say who approved stay. *)
LEMMA AuthorizedStays ==
  ASSUME Grow, NEW p, Authorized(files, p)
  PROVE  Authorized(files', p)
<1> SUFFICES ASSUME p.stage = "applied", NEW q, Approved(files, q), q \notin Authored
             PROVE  Approved(files', q)
  BY DEF Authorized, Approved
<1>1. PICK x \in DOMAIN files :
        x[1] = "proposals" /\ x[3] = "state" /\ q = files[x] /\ \E e \in Decisions : DecisionApproves(e, q)
  BY DEF Approved
<1>2. x \in DOMAIN files' /\ files'[x] = files[x]
  BY <1>1 DEF Grow, Rewritable
<1> QED BY <1>1, <1>2 DEF Approved

(* The evaluation that a proposal names stays what it is. *)
LEMMA EvaluationStays ==
  ASSUME Located, focus = "proposal", Grow, NEW p, EvaluationPasses(files, p)
  PROVE  EvaluationPasses(files', p)
<1> SUFFICES ASSUME p.stage = "applied" PROVE EvaluationPasses(files', p)
  BY DEF EvaluationPasses
<1>1. p.evaluation \in DOMAIN files /\ ~Rewritable(p.evaluation)
  BY DEF EvaluationPasses, Located, InHome, Rewritable
<1>2. p.evaluation \in DOMAIN files' /\ files'[p.evaluation] = files[p.evaluation]
  BY <1>1 DEF Grow
<1> QED BY <1>2 DEF EvaluationPasses

(* So a step only has to answer for the call it moves, and for what it writes. *)
LEMMA ProposalsMove ==
  ASSUME ProposalsInv, focus = "proposal", Grow, NEW c \in Caller, \A d \in Caller \ {c} : call'[d] = call[d],
         MoveKept(files', call'[c]),
         \A path \in DOMAIN files' \ DOMAIN files :
           path[1] = "proposals" =>
             IsProposal(files'[path]) /\ Authorized(files', files'[path]) /\ EvaluationPasses(files', files'[path])
  PROVE  ProposalKept'
<1>1. Located /\ ProposalKept
  BY DEF ProposalsInv
<1>2. ASSUME NEW path \in Named("proposals", "state")'
      PROVE  IsProposal(files'[path]) /\ Authorized(files', files'[path]) /\ EvaluationPasses(files', files'[path])
  <2>1. path \in DOMAIN files' /\ path[1] = "proposals" /\ path[3] = "state"
    BY <1>2 DEF Named
  <2>2. CASE path \in DOMAIN files
    <3>1. files'[path] = files[path] /\ path \in Named("proposals", "state")
      BY <2>1, <2>2 DEF Grow, Rewritable, Named
    <3> QED BY <1>1, <3>1, EvaluationStays, AuthorizedStays DEF ProposalKept
  <2> QED BY <2>1, <2>2
<1>3. ASSUME NEW d \in Caller
      PROVE  MoveKept(files', call'[d])
  <2>1. CASE d = c
    BY <2>1
  <2>2. CASE d # c
    <3>1. call'[d] = call[d] /\ MoveKept(files, call[d])
      BY <1>1, <2>2 DEF ProposalKept
    <3> QED BY <1>1, <3>1, EvaluationStays, AuthorizedStays DEF MoveKept
  <2> QED BY <2>1, <2>2
<1> QED BY <1>2, <1>3 DEF ProposalKept


(* Every step of improvement.ts keeps applied proposals authorized. *)
LEMMA ProposalsNext ==
  ASSUME ProposalsInv, focus = "proposal", Grow,
         ProposalNext \/ \E c \in Caller : Publish(c) \/ Killed(c)
  PROVE  ProposalKept'
<1>1. Located /\ ProposalKept /\ Calls
  BY DEF ProposalsInv, Located
<1>2. ASSUME NEW c \in Caller, NEW k, IsCommand(k), Start(c, k), MoveKept(files', k), UNCHANGED files
      PROVE  ProposalKept'
  <2>1. call'[c] = k /\ \A d \in Caller \ {c} : call'[d] = call[d]
    BY <1>1, <1>2, StartMoves
  <2> QED BY <1>2, <2>1, ProposalsMove
<1>3. ASSUME NEW c \in Caller, NEW answer, Finish(c, answer), answer \notin Answered, UNCHANGED files
      PROVE  ProposalKept'
  <2>1. /\ \A d \in Caller \ {c} : call'[d] = call[d]
        /\ call'[c].at = "done" /\ call'[c].answer = answer
    BY <1>1, <1>3, FinishMoves
  <2>2. MoveKept(files', call'[c])
    BY <1>3, <2>1 DEF MoveKept, Moving, Active, Claims
  <2> QED BY <1>3, <2>1, <2>2, ProposalsMove
<1>4. ASSUME NEW c \in Caller, NEW at, Goto(c, at), at \notin {"idle", "done"}, call[c].at \notin {"idle", "done"},
             at = "publish" => (call[c].op = "transition" => EvaluationPasses(files, call[c].want)), UNCHANGED files
      PROVE  ProposalKept'
  <2>1. /\ \A d \in Caller \ {c} : call'[d] = call[d]
        /\ call'[c].at = at /\ call'[c].op = call[c].op /\ call'[c].want = call[c].want
    BY <1>1, <1>4, GotoMoves
  <2>2. MoveKept(files, call[c])
    BY <1>1 DEF ProposalKept
  <2>3. MoveKept(files', call'[c])
    BY <1>4, <2>1, <2>2 DEF MoveKept, Moving, Active
  <2> QED BY <1>4, <2>1, <2>3, ProposalsMove
<1>5. ASSUME NEW c \in Caller, NEW suite, RunSuite(c, suite)
      PROVE  ProposalKept'
  <2> DEFINE want == [suite |-> suite, matched |-> TargetMatches(suite), result |-> Result(suite, TargetMatches(suite))]
             k == Command("suite", "replay", Scorecard(made), want, None)
  <2>1. Start(c, k) /\ UNCHANGED files
    BY <1>5 DEF RunSuite
  <2> HIDE DEF want
  <2>2. IsCommand(k) /\ k.op = "suite"
    BY NewCommands
  <2> HIDE DEF k
  <2> QED BY <1>2, <2>1, <2>2 DEF MoveKept, Moving
<1>6. ASSUME NEW c \in Caller, NEW p \in Proposals, NEW q \in Edited(p), NEW to \in NextStages[p.stage], NEW by \in Actors,
             NEW at \in Times, NEW d \in Decisions \cup {None}, Transition(c, q, to, by, at, d)
      PROVE  ProposalKept'
  <2>1. IsProposal(p) /\ (p \in Authored \/ Authorized(files, p))
    <3>1. CASE p \in Authored
      BY <3>1, AuthoredTypes
    <3>2. CASE p \in {files[path] : path \in Named("proposals", "state")}
      BY <1>1, <3>2 DEF ProposalKept
    <3> QED BY <3>1, <3>2 DEF Proposals
  <2>2. Supported(q, to, by, at, d)
    BY <1>6 DEF Transition, Allowed
  <2> DEFINE want == Moved(q, to, by, at, d)
  <2>3. IsProposal(want) /\ Authorized(files, want)
    BY <2>1, <2>2, MovesAuthorized
  <2>4. PICK name : Start(c, Command("transition", "decide", ProposalFile(name), want, q)) /\ UNCHANGED files
    BY <1>6 DEF Transition
  <2> HIDE DEF want
  <2> DEFINE k == Command("transition", "decide", ProposalFile(name), want, q)
  <2>5. IsCommand(k) /\ k.at = "decide" /\ k.want = want
    BY NewCommands
  <2>6. Start(c, k)
    BY <2>4
  <2> HIDE DEF k
  <2> QED BY <1>2, <2>3, <2>4, <2>5, <2>6 DEF MoveKept
<1>7. ASSUME NEW c \in Caller, Replay(c) \/ Decide(c) \/ Revalidate(c)
      PROVE  ProposalKept'
  <2>1. /\ UNCHANGED files /\ call[c].at \notin {"idle", "done"}
        /\ \/ Finish(c, "refused")
           \/ call[c].op = "suite" /\ Goto(c, "publish")
           \/ Goto(c, "revalidate")
           \/ ProposalValid(call[c].want) /\ Goto(c, "publish")
    BY <1>7 DEF Replay, Decide, Revalidate
  <2>2. ProposalValid(call[c].want) => EvaluationPasses(files, call[c].want)
    BY DEF ProposalValid, EvaluatedStages, DecidedStages, ScorecardFits, EvaluationPasses, Has
  <2> QED BY <1>3, <1>4, <2>1, <2>2 DEF Answered
<1>8. ASSUME NEW c \in Caller, Compare(c, FALSE)
      PROVE  ProposalKept'
  <2>1. UNCHANGED files /\ \E answer \in {"refused", "conflict"} : Finish(c, answer)
    BY <1>8 DEF Compare
  <2> QED BY <1>3, <2>1 DEF Answered
<1>9. ASSUME NEW version, EditArtifact(version)
      PROVE  ProposalKept'
  BY <1>1, <1>9 DEF EditArtifact, ProposalKept, Named
<1>10. ASSUME NEW c \in Caller, Killed(c)
       PROVE  ProposalKept'
  BY <1>3, <1>10 DEF Killed, Answered
<1>11. ASSUME NEW c \in Caller, Publish(c)
       PROVE  ProposalKept'
  <2>1. call[c].at = "publish" /\ MoveKept(files, call[c]) /\ Suits(focus, call[c])
    BY <1>1, <1>11, ActiveSuits DEF Publish, ProposalKept, Active
  <2>2. CASE Goto(c, "compare") /\ UNCHANGED files
    BY <1>4, <2>1, <2>2
  <2>3. CASE files' = With(call[c].path, call[c].want) /\ Finish(c, "stored")
    <3>1. /\ \A d \in Caller \ {c} : call'[d] = call[d]
          /\ call'[c].at = "done" /\ call'[c].op = call[c].op /\ call'[c].want = call[c].want
      BY <1>1, <2>3, FinishMoves DEF Answered
    <3>2. MoveKept(files', call'[c])
      BY <1>1, <2>1, <3>1, AuthorizedStays DEF MoveKept, Moving, Active
    <3>3. ASSUME NEW path \in DOMAIN files' \ DOMAIN files, path[1] = "proposals"
          PROVE  IsProposal(files'[path]) /\ Authorized(files', files'[path]) /\ EvaluationPasses(files', files'[path])
      <4>1. path = call[c].path /\ files'[path] = call[c].want
        BY <2>3, <3>3 DEF With
      <4>2. call[c].op = "transition"
        BY <2>1, <3>3, <4>1 DEF Suits, SuiteFits, TransitionFits
      <4> QED BY <1>1, <2>1, <4>1, <4>2, EvaluationStays, AuthorizedStays DEF MoveKept, Moving, Active
    <3> QED BY <3>1, <3>2, <3>3, ProposalsMove
  <2> QED BY <1>11, <2>2, <2>3 DEF Publish
<1> QED BY <1>5, <1>6, <1>7, <1>8, <1>9, <1>10, <1>11 DEF ProposalNext, Free

(* Every step keeps applied proposals authorized. *)
LEMMA ProposalsInductive ==
  ASSUME "proposal" \notin ResetFocuses
  PROVE  ProposalsInv /\ [WorkspaceNext]_workspaceVars => ProposalsInv'
<1> SUFFICES ASSUME ProposalsInv, [WorkspaceNext]_workspaceVars PROVE ProposalsInv'
  OBVIOUS
<1>1. Located'
  BY LocatedInductive DEF ProposalsInv
<1>2. CASE UNCHANGED workspaceVars
  BY <1>1, <1>2 DEF workspaceVars, commandVars, ProposalsInv, ProposalKept, Named
<1>3. CASE CommandNext /\ UNCHANGED <<resetVars, focus>>
  <2>1. focus = "proposal" => ProposalNext \/ \E c \in Caller : Publish(c) \/ Killed(c)
    BY <1>3 DEF CommandNext
  <2> QED BY <1>1, <1>3, <2>1, FilesGrow, ProposalsNext DEF ProposalsInv
<1>4. CASE focus \in ResetFocuses /\ UNCHANGED focus
  BY <1>1, <1>4 DEF ProposalsInv
<1> QED BY <1>2, <1>3, <1>4 DEF WorkspaceNext

(* What is applied was authorised (AppliedIsAuthorized): a decision of the *)
(* ID it names approves its candidate and stood at the application, its    *)
(* evaluation is a passing scorecard of that candidate, and it was         *)
(* approved in time by the reviewer of a decision of that ID, or written   *)
(* as approved by people (transitionProposal, validateProposal), whatever  *)
(* people write and edit, as long as no reset removes the proposals.       *)
THEOREM AppliedStandsApproved ==
  ASSUME "proposal" \notin ResetFocuses
  PROVE  WorkspaceSpec => []AppliedIsAuthorized
<1>1. WorkspaceInit => ProposalsInv
  <2> SUFFICES ASSUME WorkspaceInit PROVE ProposalsInv
    OBVIOUS
  <2>1. \A c \in Caller : ~Moving(call[c])
    BY NewCommands, NoneUnanswered DEF WorkspaceInit, Moving, Active, Claims
  <2>2. Named("proposals", "state") = {}
    BY DEF WorkspaceInit, Named
  <2> QED BY <2>1, <2>2, LocatedInitially DEF ProposalsInv, ProposalKept, MoveKept
<1>2. ProposalsInv => AppliedIsAuthorized
  <2> SUFFICES ASSUME ProposalsInv, NEW path \in Named("proposals", "state"), files[path].stage = "applied"
               PROVE  /\ Applies(files[path])
                      /\ files[files[path].evaluation].result = "pass"
                      /\ files[files[path].evaluation].suite.target = files[path].candidate
                      /\ \E q \in Proposals :
                           AppliedFrom(q, files[path]) /\ (q \in Authored \/ \E e \in Decisions : DecisionApproves(e, q))
    BY DEF AppliedIsAuthorized, Applies
  <2>1. focus = "proposal"
    BY DEF ProposalsInv, Located, Named, InHome
  <2>2. Authorized(files, files[path]) /\ EvaluationPasses(files, files[path])
    BY <2>1 DEF ProposalsInv, ProposalKept
  <2>3. PICK q : AppliedFrom(q, files[path]) /\ Approved(files, q)
    BY <2>2 DEF Authorized
  <2>4. q \in Proposals /\ (q \in Authored \/ \E e \in Decisions : DecisionApproves(e, q))
    BY <2>3 DEF Approved, Proposals, Named
  <2> QED BY <2>2, <2>3, <2>4 DEF Authorized, EvaluationPasses
<1> QED BY <1>1, <1>2, ProposalsInductive, PTL DEF WorkspaceSpec


-------------------------------------------------------------------------------
(* Estimates.  What an estimate counts is what its listing has of its      *)
(* batch; the records do not change and the store only grows, so whatever  *)
(* is counted for one batch is ordered as the listings are.                *)

RunsOf(f) == {p \in DOMAIN f : p[1] = "runs" /\ p[3] = "record"}
StatesOf(f) == {p \in DOMAIN f : p[1] = "control" /\ p[3] = "state"}
Picked(f, names, batch) == {p \in names : f[p].batch = batch /\ f[p].stage # "checkpoint"}

(* A state that says what the files have. *)
StateHolds(f, s) ==
  /\ IsFiniteSet(DOMAIN s.runs) /\ DOMAIN s.runs # {}
  /\ \A p \in DOMAIN s.runs :
       /\ p \in RunsOf(f) /\ f[p] = s.runs[p] /\ f[p].stage # "checkpoint"
       /\ f[p].runtime.stable /\ f[p].runtime.proven
  /\ \A p, q \in DOMAIN s.runs :
       /\ s.runs[p].pins = s.runs[q].pins /\ s.runs[p].runtime.manifest = s.runs[q].runtime.manifest
       /\ p # q => s.runs[p].runtime.session # s.runs[q].runtime.session

Estimating(k) == k.op = "estimate" /\ Active(k)
EstimateHolds(f, k) ==
  Estimating(k) => IF k.at = "list" THEN k.read.names \subseteq RunsOf(f) ELSE StateHolds(f, k.want)

(* What is counted for a batch: by states, on file or still to be          *)
(* published, and by the commands that have only listed the store.         *)
Filed(s) == [batch |-> s.batch, runs |-> DOMAIN s.runs]
View(f, k) == IF k.at = "list" THEN [batch |-> k.read.batch, runs |-> Picked(f, k.read.names, k.read.batch)]
              ELSE Filed(k.want)
Views(f, g) == {Filed(f[p]) : p \in StatesOf(f)} \cup {View(f, g[c]) : c \in {c \in Caller : Estimating(g[c])}}
AllOf(f, batch) == [batch |-> batch, runs |-> Picked(f, RunsOf(f), batch)]

Ordered(f, V) ==
  /\ \A v \in V : v.runs \subseteq Picked(f, RunsOf(f), v.batch)
  /\ \A v, w \in V : v.batch = w.batch => v.runs \subseteq w.runs \/ w.runs \subseteq v.runs

EstimatesKept(f, g) ==
  /\ IsFiniteSet(RunsOf(f))
  /\ \A p \in StatesOf(f) : StateHolds(f, f[p])
  /\ \A c \in Caller : EstimateHolds(f, g[c])
  /\ Ordered(f, Views(f, g))
EstimatesInv == Located /\ (focus = "control" => EstimatesKept(files, call))

(* Run records stay. *)
LEMMA RunsStay ==
  ASSUME Located, focus = "control", Grow
  PROVE  /\ RunsOf(files) \subseteq RunsOf(files') /\ \A p \in RunsOf(files) : files'[p] = files[p]
         /\ StatesOf(files) \subseteq StatesOf(files') /\ \A p \in StatesOf(files) : files'[p] = files[p]
  BY DEF Grow, Rewritable, RunsOf, StatesOf

(* So what was counted stays true, ... *)
LEMMA StateStays ==
  ASSUME Located, focus = "control", Grow, NEW s, StateHolds(files, s)
  PROVE  StateHolds(files', s)
  BY RunsStay DEF StateHolds

(* ... and so does what a listing has of a batch, ... *)
LEMMA PickedStays ==
  ASSUME Located, focus = "control", Grow, NEW names, names \subseteq RunsOf(files), NEW batch
  PROVE  Picked(files', names, batch) = Picked(files, names, batch)
  BY RunsStay DEF Picked

(* ... and what is counted anew counts all there is. *)
LEMMA OrderStays ==
  ASSUME Located, focus = "control", Grow, NEW V, NEW W, Ordered(files, V),
         \A w \in W : w \in V \/ \E batch : w = AllOf(files, batch)
  PROVE  Ordered(files', W)
<1>1. ASSUME NEW w \in W
      PROVE  w.runs \subseteq Picked(files, RunsOf(files), w.batch)
  BY <1>1 DEF Ordered, AllOf
<1>2. \A batch : Picked(files, RunsOf(files), batch) \subseteq Picked(files', RunsOf(files'), batch)
  BY RunsStay DEF Picked
<1>3. ASSUME NEW v \in W, NEW w \in W, v.batch = w.batch
      PROVE  v.runs \subseteq w.runs \/ w.runs \subseteq v.runs
  <2>1. CASE v \in V /\ w \in V
    BY <1>3, <2>1 DEF Ordered
  <2>2. ASSUME NEW batch, w = AllOf(files, batch)
        PROVE  v.runs \subseteq w.runs
    BY <1>1, <1>3, <2>2 DEF AllOf
  <2>3. ASSUME NEW batch, v = AllOf(files, batch)
        PROVE  w.runs \subseteq v.runs
    BY <1>1, <1>3, <2>3 DEF AllOf
  <2> QED BY <2>1, <2>2, <2>3
<1> QED BY <1>1, <1>2, <1>3 DEF Ordered

(* A step answers for the call it moves and for what it writes. *)
LEMMA EstimatesMove ==
  ASSUME Located, focus = "control", EstimatesKept(files, call), Grow, IsFiniteSet(RunsOf(files')),
         NEW c \in Caller, \A d \in Caller \ {c} : call'[d] = call[d],
         EstimateHolds(files', call'[c]),
         Estimating(call'[c]) => \/ View(files', call'[c]) \in Views(files, call)
                                 \/ \E batch : View(files', call'[c]) = AllOf(files, batch),
         \A p \in StatesOf(files') \ StatesOf(files) :
           StateHolds(files', files'[p]) /\ Filed(files'[p]) \in Views(files, call)
  PROVE  EstimatesKept(files', call')
<1>1. ASSUME NEW p \in StatesOf(files')
      PROVE  StateHolds(files', files'[p]) /\ Filed(files'[p]) \in Views(files, call)
  <2>1. CASE p \in StatesOf(files)
    BY <2>1, RunsStay, StateStays DEF EstimatesKept, Views
  <2> QED BY <2>1
<1>2. ASSUME NEW d \in Caller \ {c}, Estimating(call'[d])
      PROVE  View(files', call'[d]) \in Views(files, call) /\ EstimateHolds(files', call'[d])
  <2>1. EstimateHolds(files, call[d]) /\ call'[d] = call[d]
    BY DEF EstimatesKept
  <2>2. View(files', call[d]) = View(files, call[d])
    BY <1>2, <2>1, PickedStays DEF EstimateHolds, View
  <2>3. EstimateHolds(files', call[d])
    BY <2>1, RunsStay, StateStays DEF EstimateHolds
  <2> QED BY <1>2, <2>1, <2>2, <2>3 DEF Views
<1>3. \A d \in Caller : EstimateHolds(files', call'[d])
  BY <1>2 DEF EstimateHolds
<1>4. \A w \in Views(files', call') : w \in Views(files, call) \/ \E batch : w = AllOf(files, batch)
  BY <1>1, <1>2 DEF Views
<1>5. Ordered(files', Views(files', call'))
  BY <1>4, OrderStays DEF EstimatesKept
<1> QED BY <1>1, <1>3, <1>5 DEF EstimatesKept


(* One file more leaves the runs finite. *)
LEMMA RunsAdded ==
  ASSUME IsFiniteSet(RunsOf(files)), NEW p, NEW content, files' = With(p, content)
  PROVE  IsFiniteSet(RunsOf(files'))
<1>1. DOMAIN files' = DOMAIN files \cup {p}
  BY DEF With
<1>2. RunsOf(files') \subseteq RunsOf(files) \cup {p}
  BY <1>1 DEF RunsOf
<1>3. IsFiniteSet(RunsOf(files) \cup {p})
  BY FS_AddElement
<1> QED BY <1>2, <1>3, FS_Subset

(* What a batch that compares amounts to. *)
LEMMA BatchHolds ==
  ASSUME NEW names, names \subseteq RunsOf(files), IsFiniteSet(names), NEW batch,
         Comparable(Selected(names, batch)), NEW s, s = BuildState(Selected(names, batch), batch)
  PROVE  /\ StateHolds(files, s)
         /\ Filed(s) = [batch |-> batch, runs |-> Picked(files, names, batch)]
<1> DEFINE runs == Selected(names, batch)
<1>1. s.batch = batch /\ s.runs = [p \in runs |-> files[p]]
  BY DEF BuildState
<1>2. runs \subseteq names /\ runs = Picked(files, names, batch)
  BY DEF Selected, Picked
<1>3. /\ runs # {} /\ IsFiniteSet(runs)
      /\ \A p \in runs : p \in RunsOf(files) /\ files[p].stage # "checkpoint" /\ Attested(files[p])
      /\ \A p, q \in runs : /\ Generation(files[p]) = Generation(files[q])
                            /\ p # q => files[p].runtime.session # files[q].runtime.session
  BY <1>2, FS_Subset DEF Comparable, Picked
<1> HIDE DEF runs
<1>4. DOMAIN s.runs = runs /\ \A p \in runs : s.runs[p] = files[p]
  BY <1>1
<1>5. \A p \in runs : files[p].runtime.stable /\ files[p].runtime.proven
  BY <1>3 DEF Attested
<1>6. \A p, q \in runs : files[p].pins = files[q].pins /\ files[p].runtime.manifest = files[q].runtime.manifest
  BY <1>3 DEF Generation
<1> QED BY <1>1, <1>2, <1>3, <1>4, <1>5, <1>6 DEF StateHolds, Filed

(* Every step of the estimator keeps estimates and runs together. *)
LEMMA EstimatesNext ==
  ASSUME Located, focus = "control", EstimatesKept(files, call), Grow,
         ControlNext \/ \E c \in Caller : Publish(c) \/ Killed(c)
  PROVE  EstimatesKept(files', call')
<1>1. Calls /\ IsFiniteSet(RunsOf(files))
  BY DEF Located, EstimatesKept
<1>2. ASSUME NEW c \in Caller, \A d \in Caller \ {c} : call'[d] = call[d], UNCHANGED files, ~Estimating(call'[c])
      PROVE  EstimatesKept(files', call')
  BY <1>1, <1>2, EstimatesMove DEF EstimateHolds
<1>3. ASSUME NEW c \in Caller, NEW answer, Finish(c, answer), UNCHANGED files,
             answer \in Answered => call[c].op = "run" \/ call[c].at \notin {"idle", "done", "list"}
      PROVE  EstimatesKept(files', call')
  <2>1. /\ \A d \in Caller \ {c} : call'[d] = call[d]
        /\ call'[c].at = "done" /\ call'[c].op = call[c].op /\ call'[c].answer = answer
        /\ answer \in Answered => call'[c].want = call[c].want
    BY <1>1, <1>3, FinishMoves
  <2>2. CASE Estimating(call'[c])
    <3>1. answer \in Answered /\ Estimating(call[c]) /\ call[c].at # "list"
      BY <1>3, <2>1, <2>2 DEF Estimating, Active, Claims
    <3>2. EstimateHolds(files', call'[c]) /\ View(files', call'[c]) = View(files, call[c])
      BY <1>3, <2>1, <3>1 DEF EstimatesKept, EstimateHolds, View
    <3> QED BY <1>1, <1>3, <2>1, <3>1, <3>2, EstimatesMove DEF Views
  <2>3. CASE ~Estimating(call'[c])
    BY <1>2, <1>3, <2>1, <2>3
  <2> QED BY <2>2, <2>3
<1>4. ASSUME NEW c \in Caller, NEW k, IsCommand(k), Start(c, k), k.op = "run", UNCHANGED files
      PROVE  EstimatesKept(files', call')
  <2>1. call'[c] = k /\ \A d \in Caller \ {c} : call'[d] = call[d]
    BY <1>1, <1>4, StartMoves
  <2> QED BY <1>2, <1>4, <2>1 DEF Estimating
<1>5. ASSUME NEW c \in Caller, NEW i, NEW run, IngestRun(c, i, run)
      PROVE  EstimatesKept(files', call')
  <2>1. UNCHANGED files
    BY <1>5 DEF IngestRun, IngestRunRecord
  <2>2. CASE Start(c, Refused("run"))
    <3> DEFINE k == Refused("run")
    <3>1. IsCommand(k) /\ k.op = "run" /\ Start(c, k)
      BY <2>2, NewCommands
    <3> HIDE DEF k
    <3> QED BY <1>4, <2>1, <3>1
  <2>3. CASE IngestRunRecord(c, i, run)
    <3> DEFINE at == IF Has(RunRecord(i)) THEN "compare" ELSE "publish"
               k == Command("run", at, RunRecord(i), run, None)
    <3>1. Start(c, k)
      BY <2>3 DEF IngestRunRecord
    <3> HIDE DEF at
    <3>2. IsCommand(k) /\ k.op = "run"
      BY NewCommands
    <3> HIDE DEF k
    <3> QED BY <1>4, <2>1, <3>1, <3>2
  <2> QED BY <1>5, <2>2, <2>3 DEF IngestRun
<1>6. ASSUME NEW c \in Caller, NEW batch, Estimate(c, batch)
      PROVE  EstimatesKept(files', call')
  <2> DEFINE read == [batch |-> batch, names |-> Named("runs", "record")]
             k == Command("estimate", "list", None, None, read)
  <2>1. Start(c, k) /\ UNCHANGED files
    BY <1>6 DEF Estimate
  <2>2. read.names = RunsOf(files) /\ read.batch = batch
    BY DEF Named, RunsOf
  <2> HIDE DEF read
  <2>3. IsCommand(k) /\ k.at = "list" /\ k.read = read
    BY NewCommands
  <2> HIDE DEF k
  <2>4. call'[c] = k /\ \A d \in Caller \ {c} : call'[d] = call[d]
    BY <1>1, <2>1, <2>3, StartMoves
  <2>5. EstimateHolds(files', call'[c]) /\ View(files', call'[c]) = AllOf(files, batch)
    BY <2>1, <2>2, <2>3, <2>4 DEF EstimateHolds, View, AllOf
  <2> QED BY <1>1, <2>1, <2>4, <2>5, EstimatesMove
<1>7. ASSUME NEW c \in Caller, ReadBatch(c)
      PROVE  EstimatesKept(files', call')
  <2> DEFINE runs == Selected(call[c].read.names, call[c].read.batch)
             state == BuildState(runs, call[c].read.batch)
             path == StatePath(state)
             k == [call[c] EXCEPT !.at = "publish", !.path = path, !.want = state]
  <2>1. /\ call[c].op = "estimate" /\ call[c].at = "list" /\ UNCHANGED files
        /\ (Comparable(runs) /\ Update(c, k)) \/ Finish(c, "refused")
    BY <1>7 DEF ReadBatch
  <2>2. CASE Comparable(runs) /\ Update(c, k)
    <3>1. Estimating(call[c]) /\ call[c].read.names \subseteq RunsOf(files)
      BY <2>1 DEF EstimatesKept, EstimateHolds, Estimating, Active
    <3>2. IsFiniteSet(call[c].read.names)
      BY <1>1, <3>1, FS_Subset
    <3>3. StateHolds(files, state) /\ Filed(state) = View(files, call[c])
      BY <2>1, <2>2, <3>1, <3>2, BatchHolds DEF View
    <3> HIDE DEF state, path
    <3>4. IsCommand(call[c]) /\ k = [call[c] EXCEPT !.at = "publish", !.path = path, !.want = state] /\ Update(c, k)
      BY <1>1, <2>2 DEF Calls
    <3> HIDE DEF k
    <3>5. IsCommand(k) /\ k.at = "publish" /\ k.want = state
      BY <3>4 DEF IsCommand
    <3>6. call'[c] = k /\ \A d \in Caller \ {c} : call'[d] = call[d]
      BY <1>1, <3>4, <3>5, CallsMove DEF Update
    <3>7. EstimateHolds(files', call'[c]) /\ View(files', call'[c]) = View(files, call[c])
      BY <2>1, <3>3, <3>5, <3>6 DEF EstimateHolds, View
    <3> QED BY <1>1, <2>1, <3>1, <3>6, <3>7, EstimatesMove DEF Views
  <2>3. CASE Finish(c, "refused")
    BY <1>3, <2>1, <2>3 DEF Answered
  <2> QED BY <2>1, <2>2, <2>3
<1>8. ASSUME NEW c \in Caller, NEW same, Compare(c, same)
      PROVE  EstimatesKept(files', call')
  <2>1. UNCHANGED files /\ call[c].at = "compare" /\ \E answer : Finish(c, answer)
    BY <1>8 DEF Compare
  <2> QED BY <1>3, <2>1
<1>9. ASSUME NEW c \in Caller, Killed(c)
      PROVE  EstimatesKept(files', call')
  BY <1>3, <1>9 DEF Killed, Answered
<1>10. ASSUME NEW c \in Caller, Publish(c)
       PROVE  EstimatesKept(files', call')
  <2>1. call[c].at = "publish" /\ EstimateHolds(files, call[c]) /\ Suits(focus, call[c])
    BY <1>10, ActiveSuits DEF Publish, EstimatesKept, Active
  <2>2. CASE Goto(c, "compare") /\ UNCHANGED files
    <3>1. /\ \A d \in Caller \ {c} : call'[d] = call[d]
          /\ call'[c].at = "compare" /\ call'[c].op = call[c].op /\ call'[c].want = call[c].want
      BY <1>1, <2>2, GotoMoves
    <3>2. EstimateHolds(files', call'[c]) /\ View(files', call'[c]) = View(files, call[c])
      BY <2>1, <2>2, <3>1 DEF EstimateHolds, View, Estimating, Active
    <3>3. Estimating(call'[c]) => Estimating(call[c])
      BY <2>1, <3>1 DEF Estimating, Active
    <3> QED BY <1>1, <2>2, <3>1, <3>2, <3>3, EstimatesMove DEF Views
  <2>3. CASE files' = With(call[c].path, call[c].want) /\ Finish(c, "stored")
    <3>1. /\ \A d \in Caller \ {c} : call'[d] = call[d]
          /\ call'[c].at = "done" /\ call'[c].op = call[c].op /\ call'[c].want = call[c].want
      BY <1>1, <2>3, FinishMoves DEF Answered
    <3>2. IsFiniteSet(RunsOf(files'))
      BY <1>1, <2>3, RunsAdded
    <3>3. CASE call[c].op = "estimate"
      <4>1. StateHolds(files', call[c].want) /\ Estimating(call[c])
        BY <2>1, <3>3, StateStays DEF EstimateHolds, Estimating, Active
      <4>2. Filed(call[c].want) \in Views(files, call)
        BY <2>1, <4>1 DEF Views, View
      <4>3. EstimateHolds(files', call'[c]) /\ View(files', call'[c]) \in Views(files, call)
        BY <3>1, <4>1, <4>2 DEF EstimateHolds, View
      <4>4. \A p \in StatesOf(files') \ StatesOf(files) : files'[p] = call[c].want
        BY <2>3 DEF With, StatesOf
      <4> QED BY <3>1, <3>2, <4>1, <4>2, <4>3, <4>4, EstimatesMove
    <3>4. CASE call[c].op # "estimate"
      <4>1. call[c].path[1] = "runs"
        BY <2>1, <3>4 DEF Suits, RunFits, EstimateFits
      <4>2. StatesOf(files') = StatesOf(files)
        BY <2>3, <4>1 DEF With, StatesOf
      <4>3. ~Estimating(call'[c])
        BY <3>1, <3>4 DEF Estimating
      <4> QED BY <3>1, <3>2, <4>2, <4>3, EstimatesMove DEF EstimateHolds
    <3> QED BY <3>3, <3>4
  <2> QED BY <1>10, <2>2, <2>3 DEF Publish
<1>11. ASSUME NEW c \in Caller, call[c].op = "run", Compare(c, SameRecord(Found(c), call[c].want))
       PROVE  EstimatesKept(files', call')
  <2> DEFINE same == SameRecord(Found(c), call[c].want)
  <2>1. Compare(c, same)
    BY <1>11
  <2> HIDE DEF same
  <2> QED BY <1>8, <2>1
<1>12. ASSUME NEW c \in Caller, call[c].op = "estimate", Compare(c, SameState(Found(c), call[c].want))
       PROVE  EstimatesKept(files', call')
  <2> DEFINE same == SameState(Found(c), call[c].want)
  <2>1. Compare(c, same)
    BY <1>12
  <2> HIDE DEF same
  <2> QED BY <1>8, <2>1
<1> QED BY <1>5, <1>6, <1>7, <1>9, <1>10, <1>11, <1>12 DEF ControlNext


(* Every step keeps estimates and runs together. *)
LEMMA EstimatesInductive ==
  ASSUME "control" \notin ResetFocuses
  PROVE  EstimatesInv /\ [WorkspaceNext]_workspaceVars => EstimatesInv'
<1> SUFFICES ASSUME EstimatesInv, [WorkspaceNext]_workspaceVars PROVE EstimatesInv'
  OBVIOUS
<1>1. Located'
  BY LocatedInductive DEF EstimatesInv
<1>2. CASE UNCHANGED workspaceVars
  BY <1>1, <1>2 DEF workspaceVars, commandVars, EstimatesInv
<1>3. CASE CommandNext /\ UNCHANGED <<resetVars, focus>>
  <2>1. focus = "control" => ControlNext \/ \E c \in Caller : Publish(c) \/ Killed(c)
    BY <1>3 DEF CommandNext
  <2> QED BY <1>1, <1>3, <2>1, FilesGrow, EstimatesNext DEF EstimatesInv
<1>4. CASE focus \in ResetFocuses /\ UNCHANGED focus
  BY <1>1, <1>4 DEF EstimatesInv
<1> QED BY <1>2, <1>3, <1>4 DEF WorkspaceNext

(* A state that holds counts every session once, and one generation. *)
LEMMA StateCounts ==
  ASSUME NEW s, StateHolds(files, s)
  PROVE  LET named == DOMAIN s.runs
         IN  /\ Cardinality({files[q].runtime.session : q \in named}) = Cardinality(named)
             /\ Cardinality({<<files[q].pins, files[q].runtime.manifest>> : q \in named}) = 1
<1> DEFINE named == DOMAIN s.runs
           session(q) == files[q].runtime.session
           sessions == {session(q) : q \in named}
           generation(q) == <<files[q].pins, files[q].runtime.manifest>>
<1>1. /\ IsFiniteSet(named) /\ named # {}
      /\ \A p, q \in named : p # q => session(p) # session(q)
      /\ \A p, q \in named : generation(p) = generation(q)
  BY DEF StateHolds
<1> HIDE DEF session, generation
<1>2. Cardinality(sessions) = Cardinality(named)
  <2> DEFINE f == [q \in named |-> session(q)]
  <2>1. /\ f \in [named -> sessions] /\ \A q \in named : f[q] = session(q)
        /\ \A x \in sessions : \E q \in named : x = session(q)
    OBVIOUS
  <2> HIDE DEF f, sessions, named
  <2>2. f \in Surjection(named, sessions)
    BY <2>1 DEF Surjection
  <2>3. f \in Injection(named, sessions)
    BY <1>1, <2>1 DEF Injection, IsInjective
  <2> QED BY <1>1, <2>2, <2>3, FS_Surjection
<1>3. Cardinality({generation(q) : q \in named}) = 1
  <2>1. PICK p \in named : TRUE
    BY <1>1
  <2>2. {generation(q) : q \in named} = {generation(p)}
    BY <1>1, <2>1
  <2> QED BY <2>2, FS_Singleton
<1> QED BY <1>2, <1>3 DEF session, generation

(* An estimate counts what it says: the runs it names are on file as they  *)
(* were counted, none is a checkpoint, all are of one proven generation    *)
(* and each of a session of its own, and two estimates of a batch do not   *)
(* each leave out what the other counts (EstimatesAreSound;                *)
(* estimateControllerState, buildControllerState), however ingestion and   *)
(* other estimates come in between, if the run store is not removed        *)
(* meanwhile.                                                              *)
THEOREM EstimatesCountTheirRuns ==
  ASSUME "control" \notin ResetFocuses
  PROVE  WorkspaceSpec => []EstimatesAreSound
<1>1. WorkspaceInit => EstimatesInv
  <2> SUFFICES ASSUME WorkspaceInit PROVE EstimatesInv
    OBVIOUS
  <2>1. \A c \in Caller : ~Estimating(call[c])
    BY NewCommands, NoneUnanswered DEF WorkspaceInit, Estimating, Active, Claims
  <2>2. RunsOf(files) = {} /\ StatesOf(files) = {}
    BY DEF WorkspaceInit, RunsOf, StatesOf
  <2>3. Views(files, call) = {}
    BY <2>1, <2>2 DEF Views
  <2>4. EstimatesKept(files, call)
    BY <2>1, <2>2, <2>3, FS_EmptySet DEF EstimatesKept, EstimateHolds, Ordered
  <2> QED BY <2>4, LocatedInitially DEF EstimatesInv
<1>2. EstimatesInv => EstimatesAreSound
  <2> SUFFICES ASSUME EstimatesInv, NEW p \in Named("control", "state")
               PROVE  LET state == files[p]
                          named == DOMAIN state.runs
                      IN  /\ \A q \in named :
                               /\ Has(q) /\ files[q] = state.runs[q]
                               /\ files[q].stage # "checkpoint" /\ files[q].runtime.stable /\ files[q].runtime.proven
                          /\ Cardinality({files[q].runtime.session : q \in named}) = Cardinality(named)
                          /\ Cardinality({<<files[q].pins, files[q].runtime.manifest>> : q \in named}) = 1
                          /\ \A r \in Named("control", "state") :
                               files[r].batch = state.batch =>
                                 named \subseteq DOMAIN files[r].runs \/ DOMAIN files[r].runs \subseteq named
    BY DEF EstimatesAreSound
  <2>1. focus = "control" /\ Named("control", "state") = StatesOf(files)
    BY DEF EstimatesInv, Located, Named, InHome, StatesOf
  <2>2. StateHolds(files, files[p]) /\ Ordered(files, Views(files, call))
    BY <2>1 DEF EstimatesInv, EstimatesKept
  <2>3. \A q \in DOMAIN files[p].runs :
          /\ Has(q) /\ files[q] = files[p].runs[q]
          /\ files[q].stage # "checkpoint" /\ files[q].runtime.stable /\ files[q].runtime.proven
    BY <2>2 DEF StateHolds, RunsOf, Has
  <2>4. ASSUME NEW r \in Named("control", "state"), files[r].batch = files[p].batch
        PROVE  DOMAIN files[p].runs \subseteq DOMAIN files[r].runs \/ DOMAIN files[r].runs \subseteq DOMAIN files[p].runs
    <3> DEFINE v == Filed(files[p])
               w == Filed(files[r])
    <3>1. v \in Views(files, call) /\ w \in Views(files, call)
      BY <2>1 DEF Views
    <3>2. v.batch = w.batch /\ v.runs = DOMAIN files[p].runs /\ w.runs = DOMAIN files[r].runs
      BY <2>4 DEF Filed
    <3> HIDE DEF v, w
    <3> QED BY <2>2, <3>1, <3>2 DEF Ordered
  <2> QED BY <2>2, <2>3, <2>4, StateCounts
<1> QED BY <1>1, <1>2, EstimatesInductive, PTL DEF WorkspaceSpec


-------------------------------------------------------------------------------
(* Evidence: what the commands of all stores do to their call, once and    *)
(* for all.                                                                *)

Others(c) == \A d \in Caller \ {c} : call'[d] = call[d]

Begins(c, op, at, path, want, read) ==
  /\ Others(c)
  /\ call'[c].op = op /\ call'[c].at = at /\ call'[c].path = path /\ call'[c].want = want /\ call'[c].read = read
  /\ call'[c].answer = None
Ends(c) == Others(c) /\ call'[c].at = "done" /\ ~Claims(call'[c]) /\ call'[c].answer \notin Fixed
StaysWith(c) ==
  /\ Others(c) /\ call[c].at \in {"publish", "compare"} /\ call'[c].at \in {"compare", "done"}
  /\ call'[c].op = call[c].op /\ call'[c].path = call[c].path /\ call'[c].want = call[c].want
  /\ call'[c].read = call[c].read /\ call'[c].answer \notin Fixed

(* What a new command is about to do. *)
LEMMA CommandBegins ==
  ASSUME Located, NEW c \in Caller, NEW op, NEW at, NEW path, NEW want, NEW read,
         Start(c, Command(op, at, path, want, read))
  PROVE  Begins(c, op, at, path, want, read)
<1> DEFINE k == Command(op, at, path, want, read)
<1>1. /\ IsCommand(k) /\ k.op = op /\ k.at = at /\ k.path = path /\ k.want = want /\ k.read = read
      /\ k.answer = None /\ Start(c, k)
  BY NewCommands
<1> HIDE DEF k
<1> QED BY <1>1, StartMoves DEF Located, Begins, Others

(* A refusal is the end of a command. *)
LEMMA RefusalEnds ==
  ASSUME Located, NEW c \in Caller, NEW op, Start(c, Refused(op))
  PROVE  Ends(c)
<1> DEFINE k == Refused(op)
<1>1. IsCommand(k) /\ k.at = "done" /\ k.answer = "refused" /\ Start(c, k)
  BY NewCommands
<1> HIDE DEF k
<1> QED BY <1>1, StartMoves DEF Located, Ends, Others, Claims, Answered, Fixed

(* An error is the end of a command. *)
LEMMA FinishEnds ==
  ASSUME Located, NEW c \in Caller, NEW answer, Finish(c, answer), answer \notin Answered \cup Fixed
  PROVE  Ends(c)
  BY FinishMoves DEF Located, Ends, Others, Claims

(* A command that publishes, compares or is killed keeps what it is about, *)
(* writes what it wants where nothing was, or ends.                        *)
LEMMA CommonSteps ==
  ASSUME Located, NEW c \in Caller, Publish(c) \/ Killed(c) \/ \E same : Compare(c, same)
  PROVE  \/ UNCHANGED files /\ Ends(c)
         \/ UNCHANGED files /\ StaysWith(c)
         \/ /\ call[c].at = "publish" /\ ~Has(call[c].path)
            /\ files' = With(call[c].path, call[c].want) /\ StaysWith(c)
<1>1. CASE Killed(c)
  BY <1>1, FinishEnds DEF Killed, Answered, Fixed
<1>2. ASSUME NEW answer, Finish(c, answer), answer \in Answered, call[c].at \in {"publish", "compare"}
      PROVE  StaysWith(c)
  BY <1>2, FinishMoves DEF Located, StaysWith, Others, Answered, Fixed
<1>3. ASSUME NEW same, Compare(c, same)
      PROVE  UNCHANGED files /\ (Ends(c) \/ StaysWith(c))
  <2>1. UNCHANGED files /\ call[c].at = "compare" /\ \E answer \in {"refused", "idempotent", "conflict"} : Finish(c, answer)
    BY <1>3 DEF Compare
  <2> QED BY <1>2, <2>1, FinishEnds DEF Answered, Fixed
<1>4. CASE Publish(c)
  <2>1. CASE Goto(c, "compare") /\ UNCHANGED files
    <3>1. call[c].answer = None
      BY <1>4 DEF Located, Fits, Publish
    <3> QED BY <1>4, <2>1, <3>1, GotoMoves, NoneAssumption DEF Located, StaysWith, Others, Publish, Fixed
  <2>2. CASE ~Has(call[c].path) /\ files' = With(call[c].path, call[c].want) /\ Finish(c, "stored")
    BY <1>2, <1>4, <2>2 DEF Publish, Answered
  <2> QED BY <1>4, <2>1, <2>2 DEF Publish
<1> QED BY <1>1, <1>3, <1>4


(* Receipts.  A receipt has its intent; the receipt of an admission is     *)
(* what a probe reported on the challenge that is there.                   *)
AnswersAs(receipt, results, i, challenge) ==
  /\ receipt.result \in results /\ receipt.outcome = receipt.result.outcome
  /\ receipt.result.admission = i
  /\ receipt.result.nonce = challenge.nonce /\ receipt.result.candidate = challenge.candidate
ReceiptHolds(f, results, p, content) ==
  /\ p[1] = "sagas" /\ p[3] = "receipt" => Intent(p[2]) \in DOMAIN f /\ content \in {"completed", "failed"}
  /\ p[1] = "admissions" /\ p[3] = "receipt" =>
       Challenge(p[2]) \in DOMAIN f /\ AnswersAs(content, results, p[2], f[Challenge(p[2])])
ReceiptsKept(f, g, results) ==
  /\ \A p \in DOMAIN f : ReceiptHolds(f, results, p, f[p])
  /\ \A c \in Caller : Active(g[c]) => ReceiptHolds(f, results, g[c].path, g[c].want)

(* A receipt that holds goes on to hold while results only come in. *)
LEMMA ReceiptStays ==
  ASSUME focus \in {"saga", "admission"}, Grow, NEW results, NEW more, results \subseteq more,
         NEW p, NEW content, ReceiptHolds(files, results, p, content)
  PROVE  ReceiptHolds(files', more, p, content)
<1>1. ~Rewritable(Intent(p[2])) /\ ~Rewritable(Challenge(p[2]))
  BY DEF Rewritable, Intent, Challenge
<1>2. \A receipt, i, challenge : AnswersAs(receipt, results, i, challenge) => AnswersAs(receipt, more, i, challenge)
  BY DEF AnswersAs
<1> QED BY <1>1, <1>2 DEF Grow, ReceiptHolds

(* A step of one caller leaves the other receipts alone. *)
LEMMA ReceiptsMove ==
  ASSUME Located, focus \in {"saga", "admission"}, Grow, NEW results, NEW more, results \subseteq more,
         ReceiptsKept(files, call, results),
         NEW c \in Caller, Others(c),
         Active(call'[c]) => ReceiptHolds(files', more, call'[c].path, call'[c].want),
         \A p \in DOMAIN files' \ DOMAIN files : ReceiptHolds(files', more, p, files'[p])
  PROVE  ReceiptsKept(files', call', more)
<1>1. ASSUME NEW p \in DOMAIN files
      PROVE  ReceiptHolds(files', more, p, files'[p])
  <2>1. files'[p] = files[p]
    BY DEF Grow, Rewritable, Located, InHome
  <2> QED BY <2>1, ReceiptStays DEF ReceiptsKept
<1>2. ASSUME NEW d \in Caller, d # c, Active(call'[d])
      PROVE  ReceiptHolds(files', more, call'[d].path, call'[d].want)
  <2>1. call'[d] = call[d]
    BY <1>2 DEF Others
  <2> QED BY <1>2, <2>1, ReceiptStays DEF ReceiptsKept
<1> QED BY <1>1, <1>2 DEF ReceiptsKept

(* Every receipt answers its intent and challenge. *)
LEMMA ReceiptsNext ==
  ASSUME Located, Grow, ReceiptsKept(files, call, outside.results), "results" \in DOMAIN outside,
         \/ focus = "saga" /\ (SagaNext \/ \E c \in Caller : Publish(c) \/ Killed(c))
         \/ focus = "admission" /\ (AdmissionNext \/ \E c \in Caller : Publish(c) \/ Killed(c))
  PROVE  ReceiptsKept(files', call', outside'.results) /\ "results" \in DOMAIN outside'
<1> DEFINE results == outside.results
           more == outside'.results
           Kept == ReceiptsKept(files', call', more) /\ "results" \in DOMAIN outside'
<1>1. ASSUME NEW c \in Caller, Ends(c), UNCHANGED <<files, outside>>
      PROVE  Kept
  BY <1>1, ReceiptsMove DEF Ends, Active
<1>2. ASSUME NEW c \in Caller, StaysWith(c), UNCHANGED outside,
             UNCHANGED files \/ files' = With(call[c].path, call[c].want)
      PROVE  Kept
  <2>1. ReceiptHolds(files', more, call[c].path, call[c].want)
    BY <1>2, ReceiptStays DEF ReceiptsKept, StaysWith, Active
  <2>2. \A p \in DOMAIN files' \ DOMAIN files : p = call[c].path /\ files'[p] = call[c].want
    BY <1>2 DEF With
  <2> QED BY <1>2, <2>1, <2>2, ReceiptsMove DEF StaysWith
<1>3. ASSUME NEW c \in Caller, Publish(c) \/ Killed(c) \/ \E same : Compare(c, same)
      PROVE  Kept
  <2>1. UNCHANGED outside
    BY <1>3 DEF Publish, Killed, Compare
  <2> QED BY <1>1, <1>2, <1>3, <2>1, CommonSteps
<1>4. ASSUME NEW c \in Caller, NEW op, NEW at, NEW path, NEW want, NEW read, Begins(c, op, at, path, want, read),
             UNCHANGED <<files, outside>>, ReceiptHolds(files, results, path, want)
      PROVE  Kept
  BY <1>4, ReceiptsMove DEF Begins
<1>5. ASSUME NEW c \in Caller, NEW i, NEW payload, Begin(c, i, payload)
      PROVE  Kept
  <2>1. ReceiptHolds(files, results, Intent(i), payload)
    BY DEF ReceiptHolds, Intent
  <2> QED BY <1>4, <1>5, <2>1, CommandBegins DEF Begin
<1>6. ASSUME NEW c \in Caller, NEW i, NEW outcome \in {"completed", "failed"}, Complete(c, i, outcome)
      PROVE  Kept
  <2>1. Has(Intent(i)) => ReceiptHolds(files, results, SagaReceipt(i), outcome)
    BY DEF ReceiptHolds, SagaReceipt, Has
  <2>2. UNCHANGED <<files, outside>>
    BY <1>6 DEF Complete
  <2>3. CASE Has(Intent(i)) /\ Start(c, Command("saga", "publish", SagaReceipt(i), outcome, None))
    BY <1>4, <2>1, <2>2, <2>3, CommandBegins
  <2>4. CASE Start(c, Refused("saga"))
    BY <1>1, <2>2, <2>4, RefusalEnds
  <2> QED BY <1>6, <2>3, <2>4 DEF Complete
<1>7. ASSUME NEW c \in Caller, NEW i, NEW candidate, Issue(c, i, candidate)
      PROVE  Kept
  <2> DEFINE want == [candidate |-> candidate, nonce |-> made]
  <2>1. Start(c, Command("admission", "publish", Challenge(i), want, None)) /\ UNCHANGED <<files, outside>>
    BY <1>7 DEF Issue
  <2> HIDE DEF want
  <2>2. ReceiptHolds(files, results, Challenge(i), want)
    BY DEF ReceiptHolds, Challenge
  <2> QED BY <1>4, <2>1, <2>2, CommandBegins
<1>8. ASSUME NEW c \in Caller, NEW i, NEW result \in outside.results, CompleteAdmission(c, i, result)
      PROVE  Kept
  <2> DEFINE receipt == AnsweredBy(result, i)
  <2>1. Has(Challenge(i)) /\ Answers(result, i) => ReceiptHolds(files, results, AdmissionReceipt(i), receipt)
    <3>1. receipt.result = result /\ receipt.outcome = result.outcome
      BY DEF AnsweredBy
    <3> HIDE DEF receipt
    <3>2. Answers(result, i) => AnswersAs(receipt, results, i, files[Challenge(i)])
      BY <3>1 DEF Answers, AnswersAs
    <3> QED BY <3>2 DEF ReceiptHolds, AdmissionReceipt, Has
  <2>2. UNCHANGED <<files, outside>>
    BY <1>8 DEF CompleteAdmission
  <2>3. CASE /\ Has(Challenge(i)) /\ Answers(result, i)
             /\ Start(c, Command("admission", "publish", AdmissionReceipt(i), receipt, None))
    <3> HIDE DEF receipt
    <3> QED BY <1>4, <2>1, <2>2, <2>3, CommandBegins
  <2>4. CASE Start(c, Refused("admission"))
    BY <1>1, <2>2, <2>4, RefusalEnds
  <2> QED BY <1>8, <2>3, <2>4 DEF CompleteAdmission
<1>9. ASSUME focus = "admission", NEW i, NEW outcome, Probe(i, outcome)
      PROVE  Kept
  <2> DEFINE result == [admission |-> i, candidate |-> files[Challenge(i)].candidate,
                        nonce |-> files[Challenge(i)].nonce, outcome |-> outcome]
             added == [outside EXCEPT !.results = @ \cup {result}]
  <2>1. UNCHANGED <<files, call>> /\ outside' = added
    BY <1>9 DEF Probe
  <2>2. results \subseteq added.results /\ DOMAIN added = DOMAIN outside
    OBVIOUS
  <2> QED BY <1>9, <2>1, <2>2, ReceiptStays DEF ReceiptsKept
<1>10. ASSUME NEW c \in Caller, NEW same, Compare(c, same)
       PROVE  Kept
  BY <1>3, <1>10
<1>11. SagaNext => Kept
  BY <1>5, <1>6, <1>10 DEF SagaNext
<1>12. focus = "admission" /\ AdmissionNext => Kept
  BY <1>7, <1>8, <1>9, <1>10 DEF AdmissionNext
<1> QED BY <1>3, <1>11, <1>12


(* Reveals.  As many cases are revealed as were committed to.  Without a   *)
(* race a commitment that is written stays, and the manifest is its own.   *)
Manifest == SealFile("manifest")
Reveal == SealFile("reveal")
InitHolds(f, k) ==
  Initing(k) => IF k.at = "commitment" THEN Commitment \notin DOMAIN f
                ELSE Commitment \in DOMAIN f /\ f[Commitment] = k.want
RevealHolds(f, k) ==
  k.op = "reveal" /\ Active(k) =>
    IF k.at = "read" THEN Commitment \in DOMAIN f /\ k.read = f[Commitment]
    ELSE k.want.cases = k.want.seal
SealKept(f, g) ==
  /\ \A c, d \in Caller : c # d /\ Initing(g[c]) => ~Initing(g[d])
  /\ \A c \in Caller : InitHolds(f, g[c]) /\ RevealHolds(f, g[c])
  /\ Manifest \in DOMAIN f => Commitment \in DOMAIN f /\ f[Manifest] = f[Commitment]
  /\ Reveal \in DOMAIN f => f[Reveal].cases = f[Reveal].seal

Agrees(reveal) == reveal.cases.holdout = reveal.seal.holdout
RevealAgrees(k) == k.op = "reveal" /\ Active(k) /\ k.at # "read" => Agrees(k.want)
CountsAgree(f, g) ==
  /\ \A c \in Caller : RevealAgrees(g[c])
  /\ Reveal \in DOMAIN f => Agrees(f[Reveal])

(* A command that initialises no seal leaves those files alone. *)
LEMMA SealMoves ==
  ASSUME SealKept(files, call), NEW c \in Caller, Others(c), ~Initing(call'[c]), RevealHolds(files', call'[c]),
         \A p \in {Commitment, Manifest} : /\ p \in DOMAIN files' <=> p \in DOMAIN files
                                           /\ p \in DOMAIN files => files'[p] = files[p],
         Reveal \in DOMAIN files' => files'[Reveal].cases = files'[Reveal].seal
  PROVE  SealKept(files', call')
<1>1. ASSUME NEW d \in Caller, d # c
      PROVE  InitHolds(files', call'[d]) /\ RevealHolds(files', call'[d])
  <2>1. call'[d] = call[d] /\ InitHolds(files, call[d]) /\ RevealHolds(files, call[d])
    BY <1>1 DEF Others, SealKept
  <2> QED BY <2>1 DEF InitHolds, RevealHolds
<1>2. InitHolds(files', call'[c])
  BY DEF InitHolds
<1>3. \A d, e \in Caller : d # e /\ Initing(call'[d]) => ~Initing(call'[e])
  BY DEF Others, SealKept
<1> QED BY <1>1, <1>2, <1>3 DEF SealKept

(* The files of a seal stay those of one initialisation, without a race. *)
LEMMA SealNextKeeps ==
  ASSUME RacedKnown, ~outside'.raced, Located, focus = "seal", SealKept(files, call),
         SealNext \/ \E c \in Caller : Publish(c) \/ Killed(c)
  PROVE  SealKept(files', call')
<1> DEFINE Kept == SealKept(files', call')
<1>0. Reveal # Commitment /\ Reveal # Manifest /\ Commitment # Manifest
  BY DEF Reveal, Commitment, Manifest, SealFile
<1>1. ASSUME NEW c \in Caller, Ends(c), UNCHANGED files
      PROVE  Kept
  BY <1>1, SealMoves DEF Ends, Initing, RevealHolds, Active, SealKept
<1>2. ASSUME NEW c \in Caller, call[c].op = "reveal", StaysWith(c), call[c].path = Reveal,
             UNCHANGED files \/ files' = With(call[c].path, call[c].want)
      PROVE  Kept
  <2>1. call[c].want.cases = call[c].want.seal
    BY <1>2 DEF SealKept, RevealHolds, StaysWith, Active
  <2>2. RevealHolds(files', call'[c]) /\ ~Initing(call'[c])
    BY <1>2, <2>1 DEF RevealHolds, StaysWith, Initing
  <2>3. CASE UNCHANGED files
    BY <1>2, <2>2, <2>3, SealMoves DEF SealKept, StaysWith
  <2>4. CASE files' = With(call[c].path, call[c].want)
    <3>1. /\ DOMAIN files' = DOMAIN files \cup {Reveal} /\ files'[Reveal] = call[c].want
          /\ \A p \in DOMAIN files : p # Reveal => files'[p] = files[p]
      BY <1>2, <2>4 DEF With
    <3> QED BY <1>0, <1>2, <2>1, <2>2, <3>1, SealMoves DEF StaysWith
  <2> QED BY <1>2, <2>3, <2>4
<1>3. ASSUME NEW c \in Caller, Publish(c) \/ Killed(c) \/ (\E same : Compare(c, same)),
             call[c].at \in {"publish", "compare"} => call[c].op = "reveal" /\ call[c].path = Reveal
      PROVE  Kept
  <2>1. StaysWith(c) => call[c].op = "reveal" /\ call[c].path = Reveal
    BY <1>3 DEF StaysWith
  <2> QED BY <1>1, <1>2, <1>3, <2>1, CommonSteps
<1>4. ASSUME NEW c \in Caller, call[c].at \in {"publish", "compare"}
      PROVE  call[c].op = "reveal" /\ call[c].path = Reveal
  <2>1. Suits(focus, call[c])
    BY <1>4, ActiveSuits DEF Active
  <2> QED BY <1>4, <2>1 DEF Suits, SealFits, Reveal
<1>5. ASSUME NEW c \in Caller, NEW holdout, SealInit(c, holdout)
      PROVE  Kept
  <2> DEFINE want == [seal |-> made, holdout |-> holdout]
             k == Command("init", "commitment", Commitment, want, None)
  <2>2. /\ UNCHANGED files
        /\ \/ Start(c, Refused("init"))
           \/ Commitment \notin DOMAIN files /\ Start(c, k) /\ \A d \in Caller : ~Initing(call[d])
    BY <1>5, BeginsAlone DEF Has
  <2>3. CASE Start(c, Refused("init"))
    BY <1>1, <2>2, <2>3, RefusalEnds
  <2>4. CASE Commitment \notin DOMAIN files /\ Start(c, k) /\ \A d \in Caller : ~Initing(call[d])
    <3> HIDE DEF want
    <3>1. Begins(c, "init", "commitment", Commitment, want, None)
      BY <2>4, CommandBegins
    <3>2. \A d \in Caller \ {c} : call'[d] = call[d]
      BY <3>1 DEF Begins, Others
    <3>3. InitHolds(files', call'[c]) /\ RevealHolds(files', call'[c])
      BY <2>2, <2>4, <3>1 DEF Begins, InitHolds, RevealHolds
    <3> QED BY <2>2, <2>4, <3>2, <3>3 DEF SealKept
  <2> QED BY <2>2, <2>3, <2>4
<1>6. ASSUME NEW c \in Caller, NEW candidate, SealReveal(c, candidate)
      PROVE  Kept
  <2> DEFINE want == [candidate |-> candidate, seal |-> None, cases |-> None]
             read == files[Commitment]
  <2>1. /\ UNCHANGED files
        /\ \/ Start(c, Refused("reveal"))
           \/ Commitment \in DOMAIN files /\ Start(c, Command("reveal", "read", Reveal, want, read))
    BY <1>6 DEF SealReveal, Commitment, Reveal, Has
  <2>2. CASE Start(c, Refused("reveal"))
    BY <1>1, <2>1, <2>2, RefusalEnds
  <2>3. CASE Commitment \in DOMAIN files /\ Start(c, Command("reveal", "read", Reveal, want, read))
    <3> HIDE DEF want
    <3>1. Begins(c, "reveal", "read", Reveal, want, read)
      BY <2>3, CommandBegins
    <3>2. RevealHolds(files', call'[c]) /\ ~Initing(call'[c])
      BY <2>1, <2>3, <3>1 DEF Begins, RevealHolds, Initing
    <3> QED BY <2>1, <3>1, <3>2, SealMoves DEF SealKept, Begins
  <2> QED BY <2>1, <2>2, <2>3
<1>7. ASSUME NEW c \in Caller, ReadManifest(c)
      PROVE  Kept
  <2> DEFINE want == [call[c].want EXCEPT !.seal = call[c].read, !.cases = files[Manifest]]
             k == [call[c] EXCEPT !.at = "publish", !.want = want]
  <2>1. IsCommand(call[c]) /\ call[c].op = "reveal" /\ call[c].at = "read"
    BY <1>7 DEF Located, Calls, ReadManifest
  <2>2. [call[c] EXCEPT !.at = "publish",
           !.want.seal = call[c].read, !.want.cases = files[Manifest]] = k
    BY <2>1 DEF IsCommand
  <2>3. UNCHANGED files /\ ((Manifest \in DOMAIN files /\ Update(c, k)) \/ Finish(c, "refused"))
    BY <1>7, <2>2 DEF ReadManifest, Manifest, Has
  <2>4. CASE Manifest \in DOMAIN files /\ Update(c, k)
    <3>1. /\ Commitment \in DOMAIN files /\ files[Manifest] = files[Commitment] /\ call[c].read = files[Commitment]
      BY <2>1, <2>4 DEF SealKept, RevealHolds, Active
    <3>2. want.cases = want.seal
      BY <3>1
    <3> HIDE DEF want
    <3>3. k = [call[c] EXCEPT !.at = "publish", !.want = want] /\ Update(c, k)
      BY <2>4
    <3> HIDE DEF k
    <3>4. IsCommand(k) /\ k.op = "reveal" /\ k.at = "publish" /\ k.want = want
      BY <2>1, <3>3 DEF IsCommand
    <3>5. call'[c] = k /\ Others(c)
      BY <3>3, <3>4, CallsMove DEF Update, Located, Others
    <3>6. RevealHolds(files', call'[c]) /\ ~Initing(call'[c])
      BY <3>2, <3>4, <3>5 DEF RevealHolds, Initing
    <3> QED BY <2>3, <3>5, <3>6, SealMoves DEF SealKept
  <2>5. CASE Finish(c, "refused")
    BY <1>1, <2>3, <2>5, FinishEnds DEF Answered, Fixed
  <2> QED BY <2>3, <2>4, <2>5
<1>8. ASSUME NEW c \in Caller, PublishSealed(c)
      PROVE  Kept
  <2>1. /\ call[c].op = "init" /\ call[c].at \in {"commitment", "manifest", "observed", "lock"}
        /\ files' = With(SealFile(call[c].at), call[c].want)
    BY <1>8 DEF PublishSealed, Parts
  <2>2. /\ Others(c) /\ call'[c].op = "init" /\ call'[c].want = call[c].want
        /\ call'[c].at \in {"manifest", "observed", "lock", "done"}
    <3>1. CASE Finish(c, "stored") /\ call[c].at = "lock"
      BY <2>1, <3>1, FinishMoves DEF Located, Answered, Others
    <3>2. CASE Goto(c, Following(call[c].at)) /\ call[c].at # "lock"
      <4>1. Following(call[c].at) \in {"manifest", "observed", "lock"}
        BY <2>1, <3>2, FollowingParts
      <4> QED BY <2>1, <3>2, <4>1, GotoMoves DEF Located, Others
    <3> QED BY <1>8, <3>1, <3>2 DEF PublishSealed
  <2>3. \A d \in Caller \ {c} : ~Initing(call[d]) /\ call'[d] = call[d]
    BY <2>1, <2>2 DEF SealKept, Initing, Others
  <2>4. InitHolds(files, call[c]) /\ Initing(call[c])
    BY <2>1 DEF SealKept, Initing
  <2>5. /\ DOMAIN files' = DOMAIN files \cup {SealFile(call[c].at)} /\ files'[SealFile(call[c].at)] = call[c].want
        /\ \A p \in DOMAIN files : p # SealFile(call[c].at) => files'[p] = files[p]
    BY <2>1 DEF With
  <2>6. Commitment \in DOMAIN files' /\ files'[Commitment] = call[c].want
    <3>1. CASE call[c].at = "commitment"
      BY <2>5, <3>1 DEF Commitment
    <3>2. CASE call[c].at # "commitment"
      <4>1. Commitment # SealFile(call[c].at)
        BY <3>2 DEF Commitment, SealFile
      <4> QED BY <2>4, <2>5, <3>2, <4>1 DEF InitHolds
    <3> QED BY <3>1, <3>2
  <2>7. Commitment \in DOMAIN files => files'[Commitment] = files[Commitment]
    BY <2>4, <2>6 DEF SealKept, InitHolds
  <2>8. Manifest \in DOMAIN files' => files'[Manifest] = call[c].want
    <3>1. CASE call[c].at = "manifest"
      BY <2>5, <3>1 DEF Manifest
    <3>2. CASE call[c].at # "manifest"
      <4>1. Manifest # SealFile(call[c].at)
        BY <3>2 DEF Manifest, SealFile
      <4>2. Manifest \in DOMAIN files' => Manifest \in DOMAIN files /\ files'[Manifest] = files[Manifest]
        BY <2>5, <4>1
      <4> QED BY <2>4, <4>2 DEF SealKept, InitHolds
    <3> QED BY <3>1, <3>2
  <2>9. Reveal \in DOMAIN files' => Reveal \in DOMAIN files /\ files'[Reveal] = files[Reveal]
    <3>1. Reveal # SealFile(call[c].at)
      BY <2>1 DEF Reveal, SealFile
    <3> QED BY <2>5, <3>1
  <2>10. ASSUME NEW d \in Caller
         PROVE  InitHolds(files', call'[d]) /\ RevealHolds(files', call'[d])
    <3>1. CASE d = c
      BY <2>2, <2>6, <3>1 DEF InitHolds, RevealHolds
    <3>2. CASE d # c
      <4>1. call'[d] = call[d] /\ ~Initing(call'[d]) /\ RevealHolds(files, call[d])
        BY <2>3, <3>2 DEF SealKept
      <4>2. RevealHolds(files', call'[d])
        BY <2>6, <2>7, <4>1 DEF RevealHolds
      <4> QED BY <4>1, <4>2 DEF InitHolds
    <3> QED BY <3>1, <3>2
  <2>11. Reveal \in DOMAIN files' => files'[Reveal].cases = files'[Reveal].seal
    BY <2>9 DEF SealKept
  <2>12. \A d, e \in Caller : d # e /\ Initing(call'[d]) => ~Initing(call'[e])
    BY <2>3
  <2> QED BY <2>6, <2>8, <2>10, <2>11, <2>12 DEF SealKept
<1>9. ASSUME NEW c \in Caller, Compare(c, FALSE)
      PROVE  Kept
  BY <1>3, <1>4, <1>9
<1>10. ASSUME NEW c \in Caller, Publish(c) \/ Killed(c)
       PROVE  Kept
  BY <1>3, <1>4, <1>10
<1> QED BY <1>5, <1>6, <1>7, <1>8, <1>9, <1>10 DEF SealNext


(* The number of cases agrees, whoever initialises. *)
LEMMA CountsNext ==
  ASSUME Located, focus = "seal", CountsAgree(files, call), SealNext \/ \E c \in Caller : Publish(c) \/ Killed(c)
  PROVE  CountsAgree(files', call')
<1> DEFINE Kept == CountsAgree(files', call')
<1>1. ASSUME NEW c \in Caller, Others(c), RevealAgrees(call'[c]),
             Reveal \in DOMAIN files' => Agrees(files'[Reveal])
      PROVE  Kept
  BY <1>1 DEF Others, CountsAgree
<1>2. ASSUME NEW c \in Caller, Ends(c), UNCHANGED files
      PROVE  Kept
  BY <1>1, <1>2 DEF Ends, RevealAgrees, Active, CountsAgree
<1>3. ASSUME NEW c \in Caller, NEW op, NEW at, NEW path, NEW want, NEW read, Begins(c, op, at, path, want, read),
             op # "reveal" \/ at = "read", UNCHANGED files
      PROVE  Kept
  BY <1>1, <1>3 DEF Begins, RevealAgrees, CountsAgree
<1>4. ASSUME NEW c \in Caller, Publish(c) \/ Killed(c) \/ (\E same : Compare(c, same))
      PROVE  Kept
  <2>1. call[c].at \in {"publish", "compare"} => call[c].op = "reveal" /\ call[c].path = Reveal /\ Agrees(call[c].want)
    <3> SUFFICES ASSUME call[c].at \in {"publish", "compare"}
                 PROVE  call[c].op = "reveal" /\ call[c].path = Reveal /\ Agrees(call[c].want)
      OBVIOUS
    <3>1. Suits(focus, call[c])
      BY ActiveSuits DEF Active
    <3> QED BY <3>1 DEF Suits, SealFits, Reveal, CountsAgree, RevealAgrees, Active
  <2>2. ASSUME StaysWith(c), UNCHANGED files \/ files' = With(call[c].path, call[c].want)
        PROVE  Kept
    <3>1. call[c].op = "reveal" /\ call[c].path = Reveal /\ Agrees(call[c].want)
      BY <2>1, <2>2 DEF StaysWith
    <3>2. RevealAgrees(call'[c])
      BY <2>2, <3>1 DEF StaysWith, RevealAgrees
    <3>3. Reveal \in DOMAIN files' => Agrees(files'[Reveal])
      BY <2>2, <3>1 DEF With, CountsAgree
    <3> QED BY <1>1, <2>2, <3>2, <3>3 DEF StaysWith
  <2> QED BY <1>2, <1>4, <2>2, CommonSteps
<1>5. ASSUME NEW c \in Caller, NEW holdout, SealInit(c, holdout)
      PROVE  Kept
  <2> DEFINE want == [seal |-> made, holdout |-> holdout]
  <2>1. /\ UNCHANGED files
        /\ \/ Start(c, Refused("init"))
           \/ Start(c, Command("init", "commitment", Commitment, want, None))
    BY <1>5 DEF SealInit, Commitment
  <2> HIDE DEF want
  <2>2. CASE Start(c, Refused("init"))
    BY <1>2, <2>1, <2>2, RefusalEnds
  <2>3. CASE Start(c, Command("init", "commitment", Commitment, want, None))
    BY <1>3, <2>1, <2>3, CommandBegins
  <2> QED BY <2>1, <2>2, <2>3
<1>6. ASSUME NEW c \in Caller, NEW candidate, SealReveal(c, candidate)
      PROVE  Kept
  <2> DEFINE want == [candidate |-> candidate, seal |-> None, cases |-> None]
             read == files[Commitment]
  <2>1. /\ UNCHANGED files
        /\ \/ Start(c, Refused("reveal"))
           \/ Start(c, Command("reveal", "read", Reveal, want, read))
    BY <1>6 DEF SealReveal, Commitment, Reveal
  <2> HIDE DEF want, read
  <2>2. CASE Start(c, Refused("reveal"))
    BY <1>2, <2>1, <2>2, RefusalEnds
  <2>3. CASE Start(c, Command("reveal", "read", Reveal, want, read))
    BY <1>3, <2>1, <2>3, CommandBegins
  <2> QED BY <2>1, <2>2, <2>3
<1>7. ASSUME NEW c \in Caller, ReadManifest(c)
      PROVE  Kept
  <2> DEFINE want == [call[c].want EXCEPT !.seal = call[c].read, !.cases = files[Manifest]]
             k == [call[c] EXCEPT !.at = "publish", !.want = want]
  <2>1. IsCommand(call[c]) /\ call[c].op = "reveal" /\ call[c].at = "read" /\ call[c].path = Reveal
    BY <1>7, ActiveSuits DEF Located, Calls, ReadManifest, Active, Suits, SealFits, Reveal
  <2>2. [call[c] EXCEPT !.at = "publish", !.want.seal = call[c].read, !.want.cases = files[Manifest]] = k
    BY <2>1 DEF IsCommand
  <2>3. UNCHANGED files /\ ((files[Manifest].holdout = call[c].read.holdout /\ Update(c, k)) \/ Finish(c, "refused"))
    BY <1>7, <2>2 DEF ReadManifest, Manifest
  <2>4. CASE files[Manifest].holdout = call[c].read.holdout /\ Update(c, k)
    <3>1. Agrees(want)
      BY <2>4 DEF Agrees
    <3> HIDE DEF want
    <3>2. k = [call[c] EXCEPT !.at = "publish", !.want = want] /\ Update(c, k)
      BY <2>4
    <3> HIDE DEF k
    <3>3. IsCommand(k) /\ k.op = "reveal" /\ k.at = "publish" /\ k.want = want
      BY <2>1, <3>2 DEF IsCommand
    <3>4. call'[c] = k /\ Others(c)
      BY <3>2, <3>3, CallsMove DEF Update, Located, Others
    <3>5. RevealAgrees(call'[c])
      BY <3>1, <3>3, <3>4 DEF RevealAgrees
    <3> QED BY <1>1, <2>3, <3>4, <3>5 DEF CountsAgree
  <2>5. CASE Finish(c, "refused")
    BY <1>2, <2>3, <2>5, FinishEnds DEF Answered, Fixed
  <2> QED BY <2>3, <2>4, <2>5
<1>8. ASSUME NEW c \in Caller, PublishSealed(c)
      PROVE  Kept
  <2>1. /\ call[c].op = "init" /\ call[c].at \in {"commitment", "manifest", "observed", "lock"}
        /\ files' = With(SealFile(call[c].at), call[c].want)
    BY <1>8 DEF PublishSealed, Parts
  <2>2. Others(c) /\ call'[c].op = "init"
    BY <1>8, <2>1, FinishMoves, GotoMoves DEF PublishSealed, Located, Answered, Others
  <2>3. Reveal # SealFile(call[c].at)
    BY <2>1 DEF Reveal, SealFile
  <2>4. Reveal \in DOMAIN files' => Agrees(files'[Reveal])
    BY <2>1, <2>3 DEF With, CountsAgree
  <2> QED BY <1>1, <2>2, <2>4 DEF RevealAgrees
<1> QED BY <1>4, <1>5, <1>6, <1>7, <1>8 DEF SealNext

(* Clusters.  Until a command has all of its clusters on file, those it    *)
(* still has to publish say what the ones on file do not; and neither the  *)
(* runs nor the clusters change meanwhile.                                 *)
Failed(f, names, batch) ==
  {q \in names : batch \in {None, f[q].batch} /\ f[q].stage # "checkpoint" /\ Facts(f[q]) # None}
Alike(f, names, batch, signature) == {q \in Failed(f, names, batch) : Signature(f[q]) = signature}

MembersHold(f, signature, members) ==
  \A q \in DOMAIN members :
    q \in RunsOf(f) /\ f[q] = members[q] /\ f[q].stage # "checkpoint" /\ Signature(f[q]) = signature

Clustering(k) == k.op = "cluster" /\ (k.at \in {"list", "clusters"} \/ k.answer = "clustered")
Remaining(k) == IF k.at = "clusters" THEN k.want ELSE {}
ClusterHolds(f, k) ==
  Clustering(k) =>
    /\ k.read.names \subseteq RunsOf(f)
    /\ k.at # "list" =>
         /\ \A cluster \in Remaining(k) :
              /\ MembersHold(f, cluster.signature, cluster.members)
              /\ DOMAIN cluster.members = Alike(f, k.read.names, k.read.batch, cluster.signature)
         /\ \A q \in Failed(f, k.read.names, k.read.batch) :
              \/ \E cluster \in Remaining(k) : cluster.signature = Signature(f[q])
              \/ /\ ClusterFile(Signature(f[q])) \in DOMAIN f
                 /\ DOMAIN f[ClusterFile(Signature(f[q]))] = Alike(f, k.read.names, k.read.batch, Signature(f[q]))

ClustersKept(f, g) ==
  /\ \A p \in DOMAIN f : p[1] = "clusters" => MembersHold(f, p[2], f[p])
  /\ \A c \in Caller : ClusterHolds(f, g[c])

(* The members of a cluster stay on file. *)
LEMMA MembersStay ==
  ASSUME Located, focus = "cluster", Grow, NEW signature, NEW members, MembersHold(files, signature, members)
  PROVE  MembersHold(files', signature, members)
  BY DEF MembersHold, RunsOf, Grow, Rewritable

(* The runs of a batch stay alike. *)
LEMMA AlikeStay ==
  ASSUME Located, focus = "cluster", Grow, NEW names, names \subseteq RunsOf(files), NEW batch
  PROVE  /\ Failed(files', names, batch) = Failed(files, names, batch)
         /\ \A s : Alike(files', names, batch, s) = Alike(files, names, batch, s)
         /\ \A q \in names : files'[q] = files[q]
         /\ names \subseteq RunsOf(files')
<1>1. \A q \in names : files'[q] = files[q] /\ q \in RunsOf(files')
  BY DEF RunsOf, Grow, Rewritable
<1>2. Failed(files', names, batch) = Failed(files, names, batch)
  BY <1>1 DEF Failed
<1>3. Failed(files, names, batch) \subseteq names
  BY DEF Failed
<1> QED BY <1>1, <1>2, <1>3 DEF Alike

(* A clustering that holds goes on to hold while runs only come in. *)
LEMMA ClusterStays ==
  ASSUME Located, focus = "cluster", Grow, NEW k, ClusterHolds(files, k)
  PROVE  ClusterHolds(files', k)
<1> SUFFICES ASSUME Clustering(k) PROVE ClusterHolds(files', k)
  BY DEF ClusterHolds
<1> DEFINE names == k.read.names
           batch == k.read.batch
<1>1. /\ names \subseteq RunsOf(files)
      /\ Failed(files', names, batch) = Failed(files, names, batch)
      /\ \A s : Alike(files', names, batch, s) = Alike(files, names, batch, s)
      /\ \A q \in Failed(files, names, batch) : files'[q] = files[q]
      /\ names \subseteq RunsOf(files')
  BY AlikeStay DEF ClusterHolds, Failed
<1>2. ASSUME k.at # "list", NEW cluster \in Remaining(k)
      PROVE  /\ MembersHold(files', cluster.signature, cluster.members)
             /\ DOMAIN cluster.members = Alike(files', names, batch, cluster.signature)
  BY <1>1, <1>2, MembersStay DEF ClusterHolds
<1>3. ASSUME k.at # "list", NEW q \in Failed(files, names, batch), NEW s, s = Signature(files[q])
      PROVE  \/ \E cluster \in Remaining(k) : cluster.signature = s
             \/ ClusterFile(s) \in DOMAIN files' /\ DOMAIN files'[ClusterFile(s)] = Alike(files', names, batch, s)
  <2>1. ~Rewritable(ClusterFile(s))
    BY DEF Rewritable, ClusterFile
  <2> QED BY <1>1, <1>3, <2>1 DEF ClusterHolds, Grow
<1> QED BY <1>1, <1>2, <1>3 DEF ClusterHolds

(* A step of one caller leaves the other clusterings alone. *)
LEMMA ClustersMove ==
  ASSUME Located, focus = "cluster", ClustersKept(files, call), Grow, NEW c \in Caller, Others(c),
         ClusterHolds(files', call'[c]),
         \A p \in DOMAIN files' \ DOMAIN files : p[1] = "clusters" => MembersHold(files', p[2], files'[p])
  PROVE  ClustersKept(files', call')
<1>1. ASSUME NEW p \in DOMAIN files', p[1] = "clusters"
      PROVE  MembersHold(files', p[2], files'[p])
  <2>1. CASE p \in DOMAIN files
    <3>1. files'[p] = files[p]
      BY <1>1, <2>1 DEF Grow, Rewritable
    <3> QED BY <1>1, <2>1, <3>1, MembersStay DEF ClustersKept
  <2> QED BY <1>1, <2>1
<1>2. ASSUME NEW d \in Caller, d # c
      PROVE  ClusterHolds(files', call'[d])
  <2>1. call'[d] = call[d] /\ ClusterHolds(files, call[d])
    BY <1>2 DEF Others, ClustersKept
  <2> QED BY <2>1, ClusterStays
<1> QED BY <1>1, <1>2 DEF ClustersKept


(* A clustering goes on with what it has left. *)
LEMMA ClusteredGoes ==
  ASSUME Located, NEW c \in Caller, NEW rest, Clustered(c, rest), call[c].op = "cluster"
  PROVE  /\ Others(c) /\ call'[c].op = "cluster" /\ call'[c].read = call[c].read
         /\ call'[c].at # "list" /\ Remaining(call'[c]) = rest
<1> DEFINE k == IF rest = {} THEN [call[c] EXCEPT !.at = "done", !.want = rest, !.answer = "clustered"]
                ELSE [call[c] EXCEPT !.at = "clusters", !.want = rest]
<1>1. IsCommand(call[c]) /\ Update(c, k)
  BY DEF Located, Calls, Clustered
<1>2. /\ IsCommand(k) /\ k.op = "cluster" /\ k.read = call[c].read /\ k.want = rest
      /\ k.at = IF rest = {} THEN "done" ELSE "clusters"
  <2>1. CASE rest = {}
    <3>1. k = [call[c] EXCEPT !.at = "done", !.want = rest, !.answer = "clustered"]
      BY <2>1
    <3> HIDE DEF k
    <3> QED BY <1>1, <2>1, <3>1 DEF IsCommand
  <2>2. CASE rest # {}
    <3>1. k = [call[c] EXCEPT !.at = "clusters", !.want = rest]
      BY <2>2
    <3> HIDE DEF k
    <3> QED BY <1>1, <2>2, <3>1 DEF IsCommand
  <2> QED BY <2>1, <2>2
<1> HIDE DEF k
<1>3. call'[c] = k /\ Others(c)
  BY <1>1, <1>2, CallsMove DEF Located, Update, Others
<1> QED BY <1>2, <1>3 DEF Remaining

(* A cluster that is on file need not be published again. *)
LEMMA ClusterLeft ==
  ASSUME NEW f, NEW k, ClusterHolds(f, k), k.op = "cluster", k.at = "clusters", NEW cluster \in k.want,
         ClusterFile(cluster.signature) \in DOMAIN f, f[ClusterFile(cluster.signature)] = cluster.members,
         NEW l, l.op = "cluster", l.read = k.read, l.at # "list", Remaining(l) = k.want \ {cluster}
  PROVE  ClusterHolds(f, l)
<1>1. /\ k.read.names \subseteq RunsOf(f)
      /\ \A x \in k.want : /\ MembersHold(f, x.signature, x.members)
                           /\ DOMAIN x.members = Alike(f, k.read.names, k.read.batch, x.signature)
      /\ \A q \in Failed(f, k.read.names, k.read.batch) :
           \/ \E x \in k.want : x.signature = Signature(f[q])
           \/ /\ ClusterFile(Signature(f[q])) \in DOMAIN f
              /\ DOMAIN f[ClusterFile(Signature(f[q]))] = Alike(f, k.read.names, k.read.batch, Signature(f[q]))
  BY DEF ClusterHolds, Clustering, Remaining
<1>2. ASSUME NEW q \in Failed(f, k.read.names, k.read.batch), NEW s, s = Signature(f[q])
      PROVE  \/ \E x \in k.want \ {cluster} : x.signature = s
             \/ ClusterFile(s) \in DOMAIN f /\ DOMAIN f[ClusterFile(s)] = Alike(f, k.read.names, k.read.batch, s)
  <2>1. CASE cluster.signature = s
    BY <1>1, <2>1
  <2>2. CASE cluster.signature # s
    BY <1>1, <1>2, <2>2
  <2> QED BY <2>1, <2>2
<1> QED BY <1>1, <1>2 DEF ClusterHolds

(* The clusters of a listing. *)
LEMMA ClustersOf ==
  ASSUME NEW names, names \subseteq RunsOf(files), NEW batch
  PROVE  /\ \A cluster \in Clusters(names, batch) :
              /\ MembersHold(files, cluster.signature, cluster.members)
              /\ DOMAIN cluster.members = Alike(files, names, batch, cluster.signature)
         /\ \A q \in Failed(files, names, batch) :
              \E cluster \in Clusters(names, batch) : cluster.signature = Signature(files[q])
<1> DEFINE cluster(s) == [signature |-> s, members |-> [p \in Group(names, batch, s) |-> files[p]]]
<1>1. Clusterable(names, batch) = Failed(files, names, batch)
  BY DEF Clusterable, Failed
<1>2. \A s : Group(names, batch, s) = Alike(files, names, batch, s)
  BY <1>1 DEF Group, Alike
<1>3. ASSUME NEW s
      PROVE  /\ cluster(s).signature = s /\ DOMAIN cluster(s).members = Alike(files, names, batch, s)
             /\ MembersHold(files, s, cluster(s).members)
  BY <1>2 DEF MembersHold, Alike, Failed
<1>4. Clusters(names, batch) = {cluster(s) : s \in {Signature(files[p]) : p \in Failed(files, names, batch)}}
  BY <1>1 DEF Clusters
<1> HIDE DEF cluster
<1> QED BY <1>3, <1>4

(* Every step of clustering.ts keeps clusterings complete. *)
LEMMA ClustersNext ==
  ASSUME Located, focus = "cluster", ClustersKept(files, call), Grow,
         ClusterNext \/ \E c \in Caller : Publish(c) \/ Killed(c)
  PROVE  ClustersKept(files', call')
<1> DEFINE Kept == ClustersKept(files', call')
<1>1. ASSUME NEW c \in Caller, Others(c), ~Clustering(call'[c]), UNCHANGED files
      PROVE  Kept
  BY <1>1, ClustersMove DEF ClusterHolds
<1>2. ASSUME NEW c \in Caller, Ends(c), UNCHANGED files
      PROVE  Kept
  BY <1>1, <1>2 DEF Ends, Clustering, Fixed
<1>3. ASSUME NEW c \in Caller, Publish(c) \/ Killed(c) \/ \E same : Compare(c, same)
      PROVE  Kept
  <2>1. CASE StaysWith(c)
    <3>1. Suits(focus, call[c])
      BY <2>1, ActiveSuits DEF StaysWith, Active
    <3>2. call[c].op = "run" /\ call[c].path[1] = "runs"
      BY <2>1, <3>1 DEF StaysWith, Suits, RunFits, ClusterFits
    <3>3. ~Clustering(call'[c]) /\ Others(c)
      BY <2>1, <3>2 DEF StaysWith, Clustering
    <3>4. UNCHANGED files \/ files' = With(call[c].path, call[c].want)
      BY <1>3 DEF Publish, Killed, Compare
    <3>5. \A p \in DOMAIN files' \ DOMAIN files : p[1] # "clusters"
      BY <3>2, <3>4 DEF With
    <3> QED BY <3>3, <3>5, ClustersMove DEF ClusterHolds
  <2>2. CASE UNCHANGED files /\ Ends(c)
    BY <1>2, <2>2
  <2> QED BY <1>3, <2>1, <2>2, CommonSteps
<1>4. ASSUME NEW c \in Caller, NEW i, NEW run, IngestRun(c, i, run)
      PROVE  Kept
  <2>1. UNCHANGED files
    BY <1>4 DEF IngestRun, IngestRunRecord
  <2>2. CASE Start(c, Refused("run"))
    BY <1>2, <2>1, <2>2, RefusalEnds
  <2>3. CASE IngestRunRecord(c, i, run)
    <3> DEFINE at == IF Has(RunRecord(i)) THEN "compare" ELSE "publish"
    <3>1. Start(c, Command("run", at, RunRecord(i), run, None))
      BY <2>3 DEF IngestRunRecord
    <3> HIDE DEF at
    <3>2. Begins(c, "run", at, RunRecord(i), run, None)
      BY <3>1, CommandBegins
    <3> QED BY <1>1, <2>1, <3>2 DEF Begins, Clustering
  <2> QED BY <1>4, <2>2, <2>3 DEF IngestRun
<1>5. ASSUME NEW c \in Caller, NEW batch, ClusterRuns(c, batch)
      PROVE  Kept
  <2> DEFINE read == [batch |-> batch, names |-> Named("runs", "record")]
  <2>1. Start(c, Command("cluster", "list", None, {}, read)) /\ UNCHANGED files
    BY <1>5 DEF ClusterRuns
  <2>2. read.names = RunsOf(files)
    BY DEF Named, RunsOf
  <2> HIDE DEF read
  <2>3. Begins(c, "cluster", "list", None, {}, read)
    BY <2>1, CommandBegins
  <2>4. ClusterHolds(files', call'[c])
    BY <2>1, <2>2, <2>3 DEF ClusterHolds, Begins
  <2> QED BY <2>1, <2>3, <2>4, ClustersMove DEF Begins
<1>6. ASSUME NEW c \in Caller, GroupRuns(c)
      PROVE  Kept
  <2> DEFINE names == call[c].read.names
             batch == call[c].read.batch
             rest == Clusters(names, batch)
  <2>1. call[c].op = "cluster" /\ call[c].at = "list" /\ Clustered(c, rest) /\ UNCHANGED files
    BY <1>6 DEF GroupRuns
  <2>2. names \subseteq RunsOf(files)
    BY <2>1 DEF ClustersKept, ClusterHolds, Clustering
  <2>3. /\ \A cluster \in rest : /\ MembersHold(files, cluster.signature, cluster.members)
                                 /\ DOMAIN cluster.members = Alike(files, names, batch, cluster.signature)
        /\ \A q \in Failed(files, names, batch) : \E cluster \in rest : cluster.signature = Signature(files[q])
    BY <2>2, ClustersOf
  <2> HIDE DEF rest
  <2>4. /\ Others(c) /\ call'[c].op = "cluster" /\ call'[c].read = call[c].read
        /\ call'[c].at # "list" /\ Remaining(call'[c]) = rest
    BY <2>1, ClusteredGoes
  <2>5. ClusterHolds(files', call'[c])
    BY <2>1, <2>2, <2>3, <2>4 DEF ClusterHolds
  <2> QED BY <2>1, <2>4, <2>5, ClustersMove
<1>7. ASSUME NEW c \in Caller, PublishCluster(c)
      PROVE  Kept
  <2>1. /\ call[c].op = "cluster" /\ call[c].at = "clusters"
        /\ \E cluster \in call[c].want :
             \/ /\ ~Has(ClusterFile(cluster.signature))
                /\ files' = With(ClusterFile(cluster.signature), cluster.members)
                /\ Clustered(c, call[c].want \ {cluster})
             \/ /\ Has(ClusterFile(cluster.signature)) /\ UNCHANGED files
                /\ IF files[ClusterFile(cluster.signature)] = cluster.members
                   THEN Clustered(c, call[c].want \ {cluster})
                   ELSE Finish(c, "conflict")
    BY <1>7 DEF PublishCluster
  <2>2. PICK cluster \in call[c].want :
          \/ /\ ~Has(ClusterFile(cluster.signature))
             /\ files' = With(ClusterFile(cluster.signature), cluster.members)
             /\ Clustered(c, call[c].want \ {cluster})
          \/ /\ Has(ClusterFile(cluster.signature)) /\ UNCHANGED files
             /\ IF files[ClusterFile(cluster.signature)] = cluster.members
                THEN Clustered(c, call[c].want \ {cluster})
                ELSE Finish(c, "conflict")
    BY <2>1
  <2>3. CASE UNCHANGED files /\ Finish(c, "conflict")
    BY <1>2, <2>3, FinishEnds DEF Answered, Fixed
  <2>4. ASSUME Clustered(c, call[c].want \ {cluster}), ClusterFile(cluster.signature) \in DOMAIN files',
               files'[ClusterFile(cluster.signature)] = cluster.members,
               \A p \in DOMAIN files' \ DOMAIN files : p = ClusterFile(cluster.signature)
        PROVE  Kept
    <3>1. /\ Others(c) /\ call'[c].op = "cluster" /\ call'[c].read = call[c].read
          /\ call'[c].at # "list" /\ Remaining(call'[c]) = call[c].want \ {cluster}
      BY <2>1, <2>4, ClusteredGoes
    <3>2. ClusterHolds(files', call[c])
      BY ClusterStays DEF ClustersKept
    <3>3. ClusterHolds(files', call'[c])
      BY <2>1, <2>4, <3>1, <3>2, ClusterLeft
    <3>4. MembersHold(files', cluster.signature, cluster.members)
      BY <2>1, <3>2 DEF ClusterHolds, Clustering, Remaining
    <3>5. ClusterFile(cluster.signature)[2] = cluster.signature
      BY DEF ClusterFile
    <3> QED BY <2>4, <3>1, <3>3, <3>4, <3>5, ClustersMove
  <2> QED BY <2>2, <2>3, <2>4 DEF With, Has
<1>8. ASSUME NEW c \in Caller, call[c].op = "run", Compare(c, SameRecord(Found(c), call[c].want))
      PROVE  Kept
  BY <1>3, <1>8
<1> QED BY <1>3, <1>4, <1>5, <1>6, <1>7, <1>8 DEF ClusterNext


(* Numbers, for the history of a replay. *)

(* What f must satisfy to be what Expected defines, up to the step m. *)
Derived(plan, f, m) == [n \in 0..m |-> SnapshotAfter(plan, n, IF n = 0 THEN None ELSE f[n - 1])]

(* There is such a function, for any number of steps. *)
LEMMA DerivedExists ==
  ASSUME NEW plan, NEW b \in Nat
  PROVE  \E f : f = Derived(plan, f, b)
<1> DEFINE S == {m \in Nat : \E f : f = Derived(plan, f, m)}
<1>1. 0 \in S
  <2> DEFINE f == [n \in 0..0 |-> SnapshotAfter(plan, n, None)]
  <2>1. f = Derived(plan, f, 0)
    BY DEF Derived
  <2> HIDE DEF f
  <2> QED BY <2>1
<1>2. ASSUME NEW m \in S
      PROVE  m + 1 \in S
  <2>1. m \in Nat /\ \E f : f = Derived(plan, f, m)
    OBVIOUS
  <2>2. PICK f : f = Derived(plan, f, m)
    BY <2>1
  <2> DEFINE g == [n \in 0..m + 1 |-> IF n # m + 1 THEN f[n] ELSE SnapshotAfter(plan, n, f[n - 1])]
  <2>3. \A n \in 0..m : g[n] = f[n] /\ n - 1 \in 0..m \cup {-1}
    BY <2>1
  <2>4. ASSUME NEW n \in 0..m + 1
        PROVE  g[n] = SnapshotAfter(plan, n, IF n = 0 THEN None ELSE g[n - 1])
    <3>1. CASE n = m + 1
      <4>1. n # 0 /\ n - 1 \in 0..m /\ g[n] = SnapshotAfter(plan, n, f[n - 1])
        BY <2>1, <3>1
      <4> HIDE DEF g
      <4> QED BY <2>3, <4>1
    <3>2. CASE n # m + 1
      <4>1. n \in 0..m /\ (n # 0 => n - 1 \in 0..m)
        BY <2>1, <3>2
      <4>2. f[n] = SnapshotAfter(plan, n, IF n = 0 THEN None ELSE f[n - 1])
        BY <2>2, <4>1 DEF Derived
      <4> HIDE DEF g
      <4> QED BY <2>3, <4>1, <4>2
    <3> QED BY <3>1, <3>2
  <2>5. g = [n \in 0..m + 1 |-> g[n]]
    OBVIOUS
  <2> HIDE DEF g
  <2>6. g = Derived(plan, g, m + 1)
    BY <2>4, <2>5 DEF Derived
  <2> QED BY <2>1, <2>6
<1>3. S \in SUBSET Nat
  OBVIOUS
<1> HIDE DEF S
<1>4. b \in S
  BY <1>1, <1>2, <1>3, NumbersInduct
<1> QED BY <1>4 DEF S

(* Every snapshot that is expected follows from the one before. *)
LEMMA ExpectedFollow ==
  ASSUME NEW plan, Len(plan.candidates) \in Nat
  PROVE  \A n \in Steps(plan) :
           Expected(plan)[n] = SnapshotAfter(plan, n, IF n = 0 THEN None ELSE Expected(plan)[n - 1])
<1> DEFINE expected == CHOOSE f : f = Derived(plan, f, Len(plan.candidates))
<1>1. Expected(plan) = expected
  BY DEF Expected, Derived, Steps
<1>2. expected = Derived(plan, expected, Len(plan.candidates))
  BY DerivedExists
<1> HIDE DEF expected
<1>3. \A n \in 0..Len(plan.candidates) :
        expected[n] = SnapshotAfter(plan, n, IF n = 0 THEN None ELSE expected[n - 1])
  BY <1>2 DEF Derived
<1> QED BY <1>1, <1>3 DEF Steps


(* The snapshot of a step has evaluated the candidates up to it. *)
LEMMA ExpectedAre ==
  ASSUME NEW plan, Len(plan.candidates) \in Nat, NEW n \in Steps(plan)
  PROVE  /\ Expected(plan)[n].plan = plan /\ Expected(plan)[n].step = n
         /\ Expected(plan)[n].selected = First(plan, {k \in 1..n : Eligible(plan, k)})
<1> DEFINE E == Expected(plan)
<1>1. Steps(plan) = 0..Len(plan.candidates)
  BY DEF Steps
<1>2. ASSUME NEW m \in Steps(plan)
      PROVE  /\ E[m].plan = plan /\ E[m].step = m
             /\ E[m].evaluated = IF m = 0 THEN {} ELSE E[m - 1].evaluated \cup {m}
             /\ E[m].selected = First(plan, {k \in E[m].evaluated : Eligible(plan, k)})
  <2>1. E[m] = SnapshotAfter(plan, m, IF m = 0 THEN None ELSE E[m - 1])
    BY <1>2, ExpectedFollow
  <2> HIDE DEF E
  <2> QED BY <2>1 DEF SnapshotAfter
<1> HIDE DEF E
<1> DEFINE S == {m \in Nat : m \in Steps(plan) => E[m].evaluated = 1..m}
<1>3. 0 \in S
  <2>1. 0 \in Steps(plan)
    BY <1>1
  <2>2. E[0].evaluated = {}
    BY <1>2, <2>1, Zenon
  <2>3. {} = 1..0
    OBVIOUS
  <2> QED BY <2>2, <2>3
<1>4. ASSUME NEW m \in S
      PROVE  m + 1 \in S
  <2>1. m \in Nat /\ m + 1 \in Nat
    OBVIOUS
  <2>2. ASSUME m + 1 \in Steps(plan)
        PROVE  E[m + 1].evaluated = 1..m + 1
    <3>1. m \in Steps(plan) /\ m + 1 # 0 /\ (m + 1) - 1 = m
      BY <1>1, <2>1, <2>2
    <3>2. E[m].evaluated = 1..m
      BY <3>1
    <3>3. E[m + 1].evaluated = (1..m) \cup {m + 1}
      BY <1>2, <2>2, <3>1, <3>2
    <3>4. (1..m) \cup {m + 1} = 1..m + 1
      BY <2>1
    <3> QED BY <3>3, <3>4
  <2> QED BY <2>1, <2>2
<1>5. S = Nat
  <2>1. S \in SUBSET Nat
    OBVIOUS
  <2> HIDE DEF S
  <2> QED BY <1>3, <1>4, <2>1, NumbersInduct
<1>6. n \in Nat /\ E[n].evaluated = 1..n
  BY <1>1, <1>5
<1> QED BY <1>2, <1>6 DEF E

(* Among some candidates there is one that comes first. *)
LEMMA FirstExists ==
  ASSUME NEW plan \in Plans, NEW from \in SUBSET (1..Len(plan.candidates)), from # {}
  PROVE  \E n \in from : \A m \in from \ {n} : Before(plan, n, m)
<1> DEFINE b == Len(plan.candidates)
           passed(k) == Cardinality(plan.candidates[k])
           Best(some, n) == n \in some /\ \A m \in some \ {n} : passed(n) > passed(m) \/ (passed(n) = passed(m) /\ n < m)
           S == {c \in Nat : \A some \in SUBSET (1..b) : some # {} /\ some \subseteq 1..c => \E n : Best(some, n)}
<1>1. b \in Nat /\ \A k \in 1..b : passed(k) \in Nat
  BY PlanAssumption, FS_CardinalityType
<1> HIDE DEF passed, b
<1>2. 0 \in S
  <2>1. 1..0 = {}
    OBVIOUS
  <2> QED BY <2>1
<1>3. ASSUME NEW c \in S
      PROVE  c + 1 \in S
  <2>1. c \in Nat /\ c + 1 \in Nat
    OBVIOUS
  <2>2. ASSUME NEW some \in SUBSET (1..b), some # {}, some \subseteq 1..c + 1
        PROVE  \E n : Best(some, n)
    <3> DEFINE rest == some \ {c + 1}
    <3>1. rest \in SUBSET (1..b) /\ rest \subseteq 1..c
      BY <2>1, <2>2
    <3>2. CASE rest = {}
      <4>1. some = {c + 1}
        BY <2>2, <3>2
      <4>2. Best(some, c + 1)
        BY <4>1
      <4> HIDE DEF Best
      <4> QED BY <4>2
    <3>3. CASE rest # {}
      <4>1. PICK n : Best(rest, n)
        BY <3>1, <3>3
      <4>2. CASE c + 1 \notin some
        <5>1. rest = some
          BY <4>2
        <5> HIDE DEF Best, rest
        <5> QED BY <4>1, <5>1
      <4>3. CASE c + 1 \in some /\ passed(c + 1) > passed(n)
        <5>1. n \in 1..b /\ c + 1 \in 1..b /\ \A m \in rest : passed(m) <= passed(n)
          BY <1>1, <3>1, <4>1, <4>3
        <5>2. \A m \in some \ {c + 1} : m \in 1..b /\ passed(c + 1) > passed(m)
          BY <1>1, <4>3, <5>1
        <5>3. Best(some, c + 1)
          BY <4>3, <5>2
        <5> HIDE DEF Best
        <5> QED BY <5>3
      <4>4. CASE c + 1 \in some /\ ~(passed(c + 1) > passed(n))
        <5>1. n \in 1..c /\ n \in 1..b /\ n \in some /\ c + 1 \in 1..b
          BY <3>1, <4>1, <4>4
        <5>2. passed(n) > passed(c + 1) \/ (passed(n) = passed(c + 1) /\ n < c + 1)
          BY <1>1, <2>1, <4>4, <5>1
        <5>3. Best(some, n)
          BY <4>1, <5>1, <5>2
        <5> HIDE DEF Best
        <5> QED BY <5>3
      <4> QED BY <4>2, <4>3, <4>4
    <3> QED BY <3>2, <3>3
  <2> HIDE DEF Best
  <2> QED BY <2>1, <2>2
<1>4. S \in SUBSET Nat
  OBVIOUS
<1>5. b \in S
  <2> HIDE DEF S
  <2> QED BY <1>1, <1>2, <1>3, <1>4, NumbersInduct
<1>6. PICK n : Best(from, n)
  <2> HIDE DEF Best
  <2> QED BY <1>5 DEF b
<1> QED BY <1>6 DEF Before, passed

(* First is such a one: none of the others passes more. *)
LEMMA FirstIsBest ==
  ASSUME NEW plan \in Plans, NEW from \in SUBSET (1..Len(plan.candidates)), from # {}
  PROVE  /\ First(plan, from) \in from
         /\ \A m \in from : Cardinality(plan.candidates[m]) <= Cardinality(plan.candidates[First(plan, from)])
<1> DEFINE n == First(plan, from)
<1>1. n \in from /\ \A m \in from \ {n} : Before(plan, n, m)
  BY FirstExists DEF First
<1> HIDE DEF n
<1>2. \A k \in 1..Len(plan.candidates) : Cardinality(plan.candidates[k]) \in Nat
  BY PlanAssumption, FS_CardinalityType
<1>3. ASSUME NEW m \in from
      PROVE  Cardinality(plan.candidates[m]) <= Cardinality(plan.candidates[n])
  <2>1. n \in 1..Len(plan.candidates) /\ m \in 1..Len(plan.candidates)
    BY <1>1
  <2> QED BY <1>1, <1>2, <2>1 DEF Before
<1> QED BY <1>1, <1>3 DEF n


(* The history of a campaign: its plan, and the snapshots that follow from *)
(* it without a gap; whoever is about to publish one publishes the next.   *)
StepHolds(f, p, state) ==
  /\ PlanFile \in DOMAIN f
  /\ \E n \in Steps(f[PlanFile]) : /\ p = StepFile(n) /\ state = Expected(f[PlanFile])[n]
                                   /\ n > 0 => StepFile(n - 1) \in DOMAIN f
ReplayHolds(f, k) ==
  /\ k.at = "plan" => k.want \in Plans
  /\ k.at = "load" => PlanFile \in DOMAIN f /\ k.want = f[PlanFile] /\ k.read.steps \in Nat
  /\ k.at = "step" => /\ StepHolds(f, k.path, k.want)
                      /\ k.read.target \in Nat /\ k.read.target <= Len(f[PlanFile].candidates)
  /\ k.answer # "drift"
  /\ k.answer = "replayed" => k.path \in DOMAIN f /\ f[k.path] = k.want
HistoryKept(f, g) ==
  /\ PlanFile \in DOMAIN f => f[PlanFile] \in Plans
  /\ \A p \in DOMAIN f : p[1] = "campaigns" /\ p # PlanFile => StepHolds(f, p, f[p])
  /\ \A c \in Caller : ReplayHolds(f, g[c])

(* A step of a campaign stays where it is. *)
LEMMA StepStays ==
  ASSUME Grow, NEW p, NEW state, StepHolds(files, p, state)
  PROVE  StepHolds(files', p, state)
<1>1. ~Rewritable(PlanFile)
  BY DEF Rewritable, PlanFile
<1> QED BY <1>1 DEF StepHolds, Grow

(* A replay that holds goes on to hold. *)
LEMMA ReplayStays ==
  ASSUME Located, focus = "replay", Grow, NEW k, ReplayHolds(files, k)
  PROVE  ReplayHolds(files', k)
<1>1. ~Rewritable(PlanFile)
  BY DEF Rewritable, PlanFile
<1>2. \A p \in DOMAIN files : p \in DOMAIN files' /\ files'[p] = files[p]
  BY DEF Grow, Rewritable, Located, InHome
<1>3. k.at = "step" => PlanFile \in DOMAIN files
  BY DEF ReplayHolds, StepHolds
<1> QED BY <1>2, <1>3, StepStays DEF ReplayHolds

(* A step of one caller leaves the other replays alone. *)
LEMMA HistoryMoves ==
  ASSUME Located, focus = "replay", HistoryKept(files, call), Grow, NEW c \in Caller, Others(c),
         ReplayHolds(files', call'[c]), PlanFile \in DOMAIN files' => files'[PlanFile] \in Plans,
         \A p \in DOMAIN files' \ DOMAIN files : p[1] = "campaigns" /\ p # PlanFile => StepHolds(files', p, files'[p])
  PROVE  HistoryKept(files', call')
<1>1. ASSUME NEW p \in DOMAIN files', p[1] = "campaigns", p # PlanFile
      PROVE  StepHolds(files', p, files'[p])
  <2>1. CASE p \in DOMAIN files
    <3>1. files'[p] = files[p]
      BY <1>1, <2>1 DEF Grow, Rewritable
    <3> QED BY <1>1, <2>1, <3>1, StepStays DEF HistoryKept
  <2> QED BY <1>1, <2>1
<1>2. ASSUME NEW d \in Caller, d # c
      PROVE  ReplayHolds(files', call'[d])
  <2>1. call'[d] = call[d] /\ ReplayHolds(files, call[d])
    BY <1>2 DEF Others, HistoryKept
  <2> QED BY <2>1, ReplayStays
<1> QED BY <1>1, <1>2 DEF HistoryKept

(* What becomes of a command that goes on to a snapshot, or has an answer. *)
LEMMA SnapshottingGoes ==
  ASSUME Located, NEW c \in Caller, NEW state, NEW target, Snapshotting(c, state, target)
  PROVE  /\ Others(c) /\ call'[c].at = "step" /\ call'[c].path = StepFile(state.step) /\ call'[c].want = state
         /\ call'[c].read.target = target /\ call'[c].answer = None
<1> DEFINE read == [target |-> target]
           k == Command("replay", "step", StepFile(state.step), state, read)
<1>1. Update(c, k) /\ read.target = target
  BY DEF Snapshotting
<1> HIDE DEF read
<1>2. /\ IsCommand(k) /\ k.at = "step" /\ k.path = StepFile(state.step) /\ k.want = state /\ k.read = read
      /\ k.answer = None
  BY NewCommands
<1> HIDE DEF k
<1>3. call'[c] = k /\ Others(c)
  BY <1>1, <1>2, CallsMove DEF Located, Update, Others
<1> QED BY <1>1, <1>2, <1>3

(* A replay ends with the step it reached. *)
LEMMA ReplayedGoes ==
  ASSUME Located, NEW c \in Caller, NEW state, Replayed(c, state)
  PROVE  /\ Others(c) /\ call'[c].at = "done" /\ call'[c].path = StepFile(state.step) /\ call'[c].want = state
         /\ call'[c].answer = "replayed"
<1> DEFINE old == Command("replay", "done", StepFile(state.step), state, None)
           k == [old EXCEPT !.answer = "replayed"]
<1>1. Update(c, k)
  BY DEF Replayed
<1>2. IsCommand(old) /\ old.at = "done" /\ old.path = StepFile(state.step) /\ old.want = state
  BY NewCommands
<1> HIDE DEF old
<1>3. k = [old EXCEPT !.answer = "replayed"]
  OBVIOUS
<1> HIDE DEF k
<1>4. /\ IsCommand(k) /\ k.at = "done" /\ k.path = StepFile(state.step) /\ k.want = state
      /\ k.answer = "replayed"
  BY <1>2, <1>3 DEF IsCommand
<1>5. call'[c] = k /\ Others(c)
  BY <1>1, <1>4, CallsMove DEF Located, Update, Others
<1> QED BY <1>4, <1>5

(* The history replays, and its last step is one of it. *)
LEMMA HistoryStands ==
  ASSUME HistoryKept(files, call), PlanFile \in DOMAIN files
  PROVE  /\ HistoryReplays(files[PlanFile])
         /\ \A n \in StepsOnFile : StepFile(n) \in DOMAIN files /\ n \in Steps(files[PlanFile])
         /\ StepsOnFile # {} => Last(StepsOnFile) \in StepsOnFile
<1> DEFINE plan == files[PlanFile]
<1>1. plan \in Plans /\ Len(plan.candidates) \in Nat
  BY PlanAssumption DEF HistoryKept
<1>2. Steps(plan) = 0..Len(plan.candidates)
  BY DEF Steps
<1>3. \A n : StepFile(n)[1] = "campaigns" /\ StepFile(n)[3] = "step" /\ StepFile(n)[4] = n /\ StepFile(n) # PlanFile
  <2>1. \A n : StepFile(n)[1] = "campaigns" /\ StepFile(n)[3] = "step" /\ StepFile(n)[4] = n
    BY DEF StepFile
  <2>2. PlanFile[3] = "plan"
    BY DEF PlanFile
  <2> QED BY <2>1, <2>2
<1>4. ASSUME NEW n \in StepsOnFile
      PROVE  /\ n \in Steps(plan) /\ StepFile(n) \in DOMAIN files /\ files[StepFile(n)] = Expected(plan)[n]
             /\ n > 0 => n - 1 \in StepsOnFile
  <2>1. PICK p \in DOMAIN files : p[1] = "campaigns" /\ p[3] = "step" /\ p[4] = n
    BY <1>4 DEF StepsOnFile, Named
  <2>2. p # PlanFile
    BY <2>1 DEF PlanFile
  <2>3. PICK m \in Steps(plan) : /\ p = StepFile(m) /\ files[p] = Expected(plan)[m]
                                 /\ m > 0 => StepFile(m - 1) \in DOMAIN files
    BY <2>1, <2>2 DEF HistoryKept, StepHolds
  <2>4. m = n
    BY <1>3, <2>1, <2>3
  <2>5. n > 0 => n - 1 \in StepsOnFile
    BY <1>3, <2>3, <2>4 DEF StepsOnFile, Named
  <2> QED BY <2>3, <2>4, <2>5
<1>5. StepsOnFile \in SUBSET (0..Len(plan.candidates))
  BY <1>2, <1>4
<1>6. StepsOnFile # {} => Last(StepsOnFile) \in StepsOnFile
  <2> DEFINE S == StepsOnFile
             b == Len(plan.candidates)
  <2>1. b \in Nat /\ S \in SUBSET (0..b)
    BY <1>1, <1>5
  <2> HIDE DEF S, b
  <2>2. S # {} => \E n \in S : \A m \in S : m <= n
    BY <2>1, GreatestNumber
  <2>3. S # {} => Last(S) \in S
    BY <2>2 DEF Last
  <2> QED BY <2>3 DEF S
<1> QED BY <1>4, <1>5, <1>6 DEF HistoryReplays

(* Who goes on with the next snapshot of the plan stands well. *)
LEMMA NextSnapshot ==
  ASSUME Located, NEW c \in Caller, NEW plan \in Plans, PlanFile \in DOMAIN files', files'[PlanFile] = plan,
         NEW n \in Steps(plan), n > 0 => StepFile(n - 1) \in DOMAIN files',
         NEW target \in Nat, target <= Len(plan.candidates), Snapshotting(c, Expected(plan)[n], target)
  PROVE  Others(c) /\ ReplayHolds(files', call'[c])
<1> DEFINE state == Expected(plan)[n]
<1>1. state.step = n
  BY ExpectedAre, PlanAssumption
<1> HIDE DEF state
<1>2. /\ Others(c) /\ call'[c].at = "step" /\ call'[c].path = StepFile(n) /\ call'[c].want = state
      /\ call'[c].read.target = target /\ call'[c].answer = None
  BY <1>1, SnapshottingGoes DEF state
<1>3. StepHolds(files', StepFile(n), state)
  BY DEF StepHolds, state
<1> QED BY <1>2, <1>3, NoneAssumption DEF ReplayHolds

(* Who ends with a snapshot that is on file stands well. *)
LEMMA LastSnapshot ==
  ASSUME Located, NEW c \in Caller, NEW state, StepFile(state.step) \in DOMAIN files',
         files'[StepFile(state.step)] = state, Replayed(c, state)
  PROVE  Others(c) /\ ReplayHolds(files', call'[c])
  BY ReplayedGoes DEF ReplayHolds

(* Steps of a replay keep the history. *)
LEMMA HistoryNext ==
  ASSUME Located, focus = "replay", HistoryKept(files, call), Grow,
         ReplayNext \/ \E c \in Caller : Publish(c) \/ Killed(c)
  PROVE  HistoryKept(files', call')
<1> DEFINE Kept == HistoryKept(files', call')
<1>1. \A n : StepFile(n) # PlanFile
  BY DEF StepFile, PlanFile
<1>2. ASSUME NEW c \in Caller, UNCHANGED files, Others(c), ReplayHolds(files, call'[c])
      PROVE  Kept
  BY <1>2, HistoryMoves DEF HistoryKept
<1>3. ASSUME NEW c \in Caller, Ends(c), UNCHANGED files
      PROVE  Kept
  BY <1>2, <1>3 DEF Ends, ReplayHolds, Fixed
<1>4. ASSUME NEW c \in Caller, Publish(c) \/ Killed(c)
      PROVE  Kept
  <2>1. ~Publish(c)
    BY ActiveSuits DEF Publish, Active, Suits, ReplayFits
  <2>2. UNCHANGED files /\ Finish(c, "killed")
    BY <1>4, <2>1 DEF Killed
  <2> QED BY <1>3, <2>2, FinishEnds DEF Answered, Fixed
<1>5. ASSUME NEW c \in Caller, NEW plan \in Plans, PrepareReplay(c, plan)
      PROVE  Kept
  <2>1. \/ UNCHANGED files /\ Start(c, Command("replay", "plan", PlanFile, plan, None))
        \/ UNCHANGED files /\ Start(c, Refused("replay"))
    BY <1>5 DEF PrepareReplay
  <2>2. CASE UNCHANGED files /\ Start(c, Command("replay", "plan", PlanFile, plan, None))
    <3>1. Begins(c, "replay", "plan", PlanFile, plan, None)
      BY <2>2, CommandBegins
    <3> QED BY <1>2, <2>2, <3>1, NoneAssumption DEF Begins, ReplayHolds
  <2> QED BY <1>3, <2>1, <2>2, RefusalEnds
<1>6. ASSUME NEW c \in Caller, NEW steps \in 1..2, ReplayCampaign(c, steps)
      PROVE  Kept
  <2> DEFINE read == [steps |-> steps]
  <2>1. \/ UNCHANGED files /\ Has(PlanFile) /\ Start(c, Command("replay", "load", None, files[PlanFile], read))
        \/ UNCHANGED files /\ Start(c, Refused("replay"))
    BY <1>6 DEF ReplayCampaign
  <2>2. read.steps \in Nat
    OBVIOUS
  <2> HIDE DEF read
  <2>3. CASE UNCHANGED files /\ Has(PlanFile) /\ Start(c, Command("replay", "load", None, files[PlanFile], read))
    <3>1. Begins(c, "replay", "load", None, files[PlanFile], read)
      BY <2>3, CommandBegins
    <3> QED BY <1>2, <2>2, <2>3, <3>1, NoneAssumption DEF Begins, ReplayHolds, Has
  <2> QED BY <1>3, <2>1, <2>3, RefusalEnds
<1>7. ASSUME NEW c \in Caller, PublishPlan(c)
      PROVE  Kept
  <2> DEFINE plan == call[c].want
  <2>1. plan \in Plans /\ files' = IF Has(PlanFile) THEN files ELSE With(PlanFile, plan)
    BY <1>7 DEF PublishPlan, HistoryKept, ReplayHolds
  <2>2. PlanFile \in DOMAIN files' /\ \A p \in DOMAIN files' \ DOMAIN files : p = PlanFile /\ files'[p] = plan
    BY <2>1 DEF Has, With
  <2>3. files'[PlanFile] \in Plans
    BY <2>1, <2>2 DEF Has, HistoryKept
  <2>4. IF files'[PlanFile] = plan THEN Snapshotting(c, SnapshotAfter(plan, 0, None), 0) ELSE Finish(c, "conflict")
    BY <1>7 DEF PublishPlan
  <2>5. CASE files'[PlanFile] = plan
    <3>1. Len(plan.candidates) \in Nat /\ 0 \in Steps(plan)
      BY <2>1, PlanAssumption DEF Steps
    <3>2. Expected(plan)[0] = SnapshotAfter(plan, 0, None)
      BY <3>1, ExpectedFollow
    <3>3. 0 \in Nat /\ 0 <= Len(plan.candidates) /\ ~(0 > 0)
      BY <3>1
    <3>4. Snapshotting(c, Expected(plan)[0], 0)
      BY <2>4, <2>5, <3>2
    <3> HIDE DEF plan
    <3>5. Others(c) /\ ReplayHolds(files', call'[c])
      BY <2>1, <2>2, <2>5, <3>1, <3>3, <3>4, NextSnapshot
    <3> QED BY <2>2, <2>3, <3>5, HistoryMoves
  <2>6. CASE files'[PlanFile] # plan
    <3>1. UNCHANGED files
      BY <2>1, <2>6 DEF With
    <3> QED BY <1>3, <2>4, <2>6, <3>1, FinishEnds DEF Answered, Fixed
  <2> QED BY <2>5, <2>6
<1>8. ASSUME NEW c \in Caller, LoadCampaign(c)
      PROVE  Kept
  <2> DEFINE plan == files[PlanFile]
             last == Last(StepsOnFile)
             steps == call[c].read.steps
             target == IF last + steps < Len(plan.candidates) THEN last + steps ELSE Len(plan.candidates)
             state == Expected(plan)[last]
  <2>1. PlanFile \in DOMAIN files /\ call[c].want = plan /\ plan \in Plans /\ steps \in Nat
    BY <1>8 DEF LoadCampaign, HistoryKept, ReplayHolds
  <2>2. HistoryReplays(plan) /\ (StepsOnFile # {} => last \in StepsOnFile)
    BY <2>1, HistoryStands
  <2>3. \A n \in StepsOnFile : StepFile(n) \in DOMAIN files /\ n \in Steps(plan)
    BY <2>1, HistoryStands
  <2>4. Len(plan.candidates) \in Nat /\ Steps(plan) = 0..Len(plan.candidates)
    BY <2>1, PlanAssumption DEF Steps
  <2>5. last \in Steps(plan) /\ (last # 0 => last \in StepsOnFile)
    <3>1. StepsOnFile = {} => last = 0
      BY DEF Last
    <3> QED BY <2>2, <2>3, <2>4, <3>1
  <2>6. state.step = last
    BY <2>4, <2>5, ExpectedAre
  <2>7. UNCHANGED files /\ IF last = 0 THEN Snapshotting(c, state, target)
                           ELSE IF last < target THEN Snapshotting(c, SnapshotAfter(plan, last + 1, state), target)
                           ELSE Replayed(c, state)
    BY <1>8, <2>1, <2>2, <2>6 DEF LoadCampaign
  <2>8. last \in Nat /\ target \in Nat /\ target <= Len(plan.candidates)
    <3>1. last \in Nat /\ last + steps \in Nat
      BY <2>1, <2>4, <2>5
    <3> QED BY <2>4, <3>1
  <2> HIDE DEF last, target
  <2>9. CASE last = 0
    <3>1. Others(c) /\ ReplayHolds(files', call'[c])
      <4> HIDE DEF plan
      <4>1. PlanFile \in DOMAIN files' /\ files'[PlanFile] = plan
        BY <2>1, <2>7 DEF plan
      <4> QED BY <2>1, <2>5, <2>7, <2>8, <2>9, <4>1, NextSnapshot
    <3> QED BY <1>2, <2>7, <3>1
  <2>10. CASE last # 0 /\ last < target
    <3>1. last + 1 \in Steps(plan) /\ last + 1 > 0 /\ (last + 1) - 1 = last /\ last + 1 # 0
      BY <2>4, <2>8, <2>10
    <3>2. Expected(plan)[last + 1] = SnapshotAfter(plan, last + 1, state)
      <4>1. Expected(plan)[last + 1]
              = SnapshotAfter(plan, last + 1, IF last + 1 = 0 THEN None ELSE Expected(plan)[(last + 1) - 1])
        BY <2>4, <3>1, ExpectedFollow
      <4> QED BY <3>1, <4>1
    <3>3. StepFile(last) \in DOMAIN files
      BY <2>3, <2>5, <2>10
    <3>4. Others(c) /\ ReplayHolds(files', call'[c])
      <4>1. PlanFile \in DOMAIN files' /\ files'[PlanFile] = plan /\ StepFile((last + 1) - 1) \in DOMAIN files'
        BY <2>1, <2>7, <3>1, <3>3
      <4>2. Snapshotting(c, Expected(plan)[last + 1], target)
        BY <2>7, <2>10, <3>2
      <4> HIDE DEF plan, state
      <4> QED BY <2>1, <2>8, <3>1, <4>1, <4>2, NextSnapshot
    <3> QED BY <1>2, <2>7, <3>4
  <2>11. CASE last # 0 /\ ~(last < target)
    <3>1. Replayed(c, state) /\ StepFile(last) \in DOMAIN files /\ files[StepFile(last)] = state
      BY <2>2, <2>3, <2>5, <2>7, <2>11 DEF HistoryReplays
    <3> HIDE DEF state
    <3>2. Others(c) /\ ReplayHolds(files', call'[c])
      BY <2>6, <2>7, <3>1, LastSnapshot
    <3> QED BY <1>2, <2>7, <3>2
  <2> QED BY <2>9, <2>10, <2>11
<1>9. ASSUME NEW c \in Caller, PublishStep(c)
      PROVE  Kept
  <2> DEFINE path == call[c].path
             state == call[c].want
             target == call[c].read.target
             plan == files[PlanFile]
  <2>1. PlanFile \in DOMAIN files /\ plan \in Plans /\ target \in Nat /\ target <= Len(plan.candidates)
        /\ StepHolds(files, path, state)
    BY <1>9 DEF PublishStep, HistoryKept, ReplayHolds, StepHolds
  <2>2. PICK n \in Steps(plan) : /\ path = StepFile(n) /\ state = Expected(plan)[n]
                                 /\ n > 0 => StepFile(n - 1) \in DOMAIN files
    BY <2>1 DEF StepHolds
  <2>3. Len(plan.candidates) \in Nat /\ Steps(plan) = 0..Len(plan.candidates)
    BY <2>1, PlanAssumption DEF Steps
  <2>4. state.step = n /\ state.plan = plan
    <3> HIDE DEF plan, state
    <3> QED BY <2>2, <2>3, ExpectedAre
  <2>5. files' = IF Has(path) THEN files ELSE With(path, state)
    BY <1>9 DEF PublishStep
  <2>6. Has(path) => files[path] = state
    <3>1. ASSUME Has(path)
          PROVE  files[path] = state
      <4>1. path[1] = "campaigns" /\ path # PlanFile /\ path[4] = n /\ \A m : StepFile(m)[4] = m
        BY <1>1, <2>2 DEF StepFile
      <4>2. PICK m \in Steps(plan) : path = StepFile(m) /\ files[path] = Expected(plan)[m]
        BY <3>1, <4>1 DEF HistoryKept, StepHolds, Has
      <4> QED BY <2>2, <4>1, <4>2
    <3> QED BY <3>1
  <2>7. path \in DOMAIN files' /\ files'[path] = state
    BY <2>5, <2>6 DEF Has, With
  <2>8. \A p \in DOMAIN files' \ DOMAIN files : p = path
    BY <2>5 DEF With
  <2>9. PlanFile \in DOMAIN files' /\ files'[PlanFile] = plan
    BY <1>1, <2>1, <2>2, <2>5 DEF With
  <2>10. StepHolds(files', path, state)
    BY <2>1, StepStays
  <2>11. IF n < target THEN Snapshotting(c, SnapshotAfter(plan, n + 1, state), target)
         ELSE Replayed(c, state)
    BY <1>9, <2>4, <2>7 DEF PublishStep
  <2>12. Others(c) /\ ReplayHolds(files', call'[c])
    <3>1. CASE n < target
      <4>1. n + 1 \in Steps(plan) /\ n + 1 > 0 /\ (n + 1) - 1 = n /\ n + 1 # 0
        BY <2>1, <2>3, <3>1
      <4>2. Expected(plan)[n + 1] = SnapshotAfter(plan, n + 1, state)
        <5>1. Expected(plan)[n + 1]
                = SnapshotAfter(plan, n + 1, IF n + 1 = 0 THEN None ELSE Expected(plan)[(n + 1) - 1])
          BY <2>3, <4>1, ExpectedFollow
        <5> QED BY <2>2, <4>1, <5>1
      <4>3. Snapshotting(c, Expected(plan)[n + 1], target) /\ StepFile((n + 1) - 1) \in DOMAIN files'
        BY <2>2, <2>7, <2>11, <3>1, <4>1, <4>2
      <4> HIDE DEF plan, state, target, path
      <4> QED BY <2>1, <2>9, <4>1, <4>3, NextSnapshot
    <3>2. CASE ~(n < target)
      <4>1. Replayed(c, state) /\ StepFile(state.step) \in DOMAIN files' /\ files'[StepFile(state.step)] = state
        BY <2>2, <2>4, <2>7, <2>11, <3>2
      <4> HIDE DEF state
      <4> QED BY <4>1, LastSnapshot
    <3> QED BY <3>1, <3>2
  <2> QED BY <2>1, <2>7, <2>8, <2>9, <2>10, <2>12, HistoryMoves
<1>10. CASE EditInput
  BY <1>10 DEF EditInput
<1> QED BY <1>4, <1>5, <1>6, <1>7, <1>8, <1>9, <1>10 DEF ReplayNext

(* Whatever a longer history retains passes no fewer cases. *)
LEMMA RetainedGrows ==
  ASSUME NEW plan \in Plans, NEW m \in Steps(plan), NEW n \in Steps(plan), m < n
  PROVE  LET passed(k) == Cardinality(IF k = None THEN plan.baseline ELSE plan.candidates[k])
         IN  passed(Expected(plan)[m].selected) <= passed(Expected(plan)[n].selected)
<1> DEFINE passed(k) == Cardinality(IF k = None THEN plan.baseline ELSE plan.candidates[k])
           b == Len(plan.candidates)
           A == {k \in 1..m : Eligible(plan, k)}
           B == {k \in 1..n : Eligible(plan, k)}
<1>1. /\ b \in Nat /\ None \notin 1..b /\ IsFiniteSet(plan.baseline)
      /\ \A k \in 1..b : IsFiniteSet(plan.candidates[k])
  BY PlanAssumption
<1>2. m \in 0..b /\ n \in 0..b
  BY DEF Steps
<1>3. A \subseteq B /\ A \in SUBSET (1..b) /\ B \in SUBSET (1..b)
  <2>1. \A k \in 1..m : k \in 1..n /\ k \in 1..b
    BY <1>1, <1>2
  <2>2. \A k \in 1..n : k \in 1..b
    BY <1>1, <1>2
  <2> QED BY <2>1, <2>2
<1>4. Expected(plan)[m].selected = First(plan, A) /\ Expected(plan)[n].selected = First(plan, B)
  BY <1>1, ExpectedAre
<1>5. passed(None) = Cardinality(plan.baseline) /\ passed(None) \in Nat
  BY <1>1, FS_CardinalityType
<1>6. \A k \in 1..b : passed(k) = Cardinality(plan.candidates[k]) /\ passed(k) \in Nat
  BY <1>1, FS_CardinalityType
<1>7. \A k \in B : passed(None) <= passed(k)
  <2>1. ASSUME NEW k \in B
        PROVE  passed(None) <= passed(k)
    <3>1. k \in 1..b /\ plan.baseline \subseteq plan.candidates[k]
      BY <1>3 DEF Eligible
    <3>2. Cardinality(plan.baseline) <= Cardinality(plan.candidates[k])
      BY <1>1, <3>1, FS_Subset
    <3> HIDE DEF passed
    <3> QED BY <1>5, <1>6, <3>1, <3>2
  <2> QED BY <2>1
<1> HIDE DEF A, B
<1>8. ASSUME B # {}
      PROVE  First(plan, B) \in B /\ \A k \in B : passed(k) <= passed(First(plan, B))
  <2>1. First(plan, B) \in B
        /\ \A k \in B : Cardinality(plan.candidates[k]) <= Cardinality(plan.candidates[First(plan, B)])
    BY <1>3, <1>8, FirstIsBest
  <2> HIDE DEF passed
  <2> QED BY <1>3, <1>6, <2>1
<1>9. ASSUME A # {}
      PROVE  First(plan, A) \in A
  BY <1>3, <1>9, FirstIsBest
<1>10. passed(First(plan, A)) <= passed(First(plan, B))
  <2>1. CASE B = {}
    <3>1. First(plan, A) = None /\ First(plan, B) = None
      BY <1>3, <2>1 DEF First
    <3> HIDE DEF passed
    <3> QED BY <1>5, <3>1
  <2>2. CASE B # {} /\ A = {}
    <3>1. First(plan, A) = None
      BY <2>2 DEF First
    <3> HIDE DEF passed
    <3> QED BY <1>7, <1>8, <2>2, <3>1
  <2>3. CASE A # {}
    <3>1. First(plan, A) \in B /\ B # {}
      BY <1>3, <1>9, <2>3
    <3> HIDE DEF passed
    <3> QED BY <1>8, <3>1
  <2> QED BY <2>1, <2>2, <2>3
<1> QED BY <1>4, <1>10


(* The evidence of whichever store there is. *)
EvidenceInv ==
  /\ Located
  /\ focus \in {"saga", "admission"} => "results" \in DOMAIN outside /\ ReceiptsKept(files, call, outside.results)
  /\ focus = "seal" => RacedKnown /\ CountsAgree(files, call) /\ (outside.raced \/ SealKept(files, call))
  /\ focus = "cluster" => ClustersKept(files, call)
  /\ focus = "replay" => HistoryKept(files, call)

(* Without files there is no evidence. *)
LEMMA EvidenceInitially == WorkspaceInit => EvidenceInv
<1> SUFFICES ASSUME WorkspaceInit PROVE EvidenceInv
  OBVIOUS
<1>1. DOMAIN files = {} /\ \A c \in Caller : call[c] = Idle
  BY DEF WorkspaceInit
<1>2. Idle.at = "idle" /\ Idle.answer = None /\ Idle.op = None
  BY NewCommands
<1>3. \A c \in Caller : ~Active(call[c]) /\ call[c].answer \notin Fixed /\ call[c].at = "idle"
  BY <1>1, <1>2, NoneUnanswered, NoneAssumption DEF Active, Claims, Fixed
<1>4. "results" \in DOMAIN outside
  BY DEF WorkspaceInit
<1>5. ReceiptsKept(files, call, outside.results)
  BY <1>1, <1>3 DEF ReceiptsKept
<1>6. SealKept(files, call)
  BY <1>1, <1>3 DEF SealKept, Initing, InitHolds, RevealHolds
<1>9. RacedKnown /\ CountsAgree(files, call)
  BY <1>1, <1>3 DEF WorkspaceInit, RacedKnown, CountsAgree, RevealAgrees
<1>7. ClustersKept(files, call)
  BY <1>1, <1>3 DEF ClustersKept, ClusterHolds, Clustering, Fixed
<1>8. HistoryKept(files, call)
  BY <1>1, <1>3 DEF HistoryKept, ReplayHolds, Fixed
<1> QED BY <1>4, <1>5, <1>6, <1>7, <1>8, <1>9, LocatedInitially DEF EvidenceInv

(* Every step keeps the evidence sound. *)
LEMMA EvidenceInductive ==
  ASSUME {"saga", "admission", "seal", "cluster", "replay"} \cap ResetFocuses = {}
  PROVE  EvidenceInv /\ [WorkspaceNext]_workspaceVars => EvidenceInv'
<1> SUFFICES ASSUME EvidenceInv, [WorkspaceNext]_workspaceVars PROVE EvidenceInv'
  OBVIOUS
<1>1. Located'
  BY LocatedInductive DEF EvidenceInv
<1>2. CASE UNCHANGED workspaceVars
  BY <1>1, <1>2 DEF workspaceVars, commandVars, EvidenceInv, RacedKnown
<1>3. CASE CommandNext /\ UNCHANGED <<resetVars, focus>>
  <2>1. UNCHANGED focus /\ Grow
    BY <1>3, FilesGrow
  <2>2. CASE focus \in {"saga", "admission"}
    <3>1. \/ focus = "saga" /\ (SagaNext \/ \E c \in Caller : Publish(c) \/ Killed(c))
          \/ focus = "admission" /\ (AdmissionNext \/ \E c \in Caller : Publish(c) \/ Killed(c))
      BY <1>3, <2>2 DEF CommandNext
    <3>2. ReceiptsKept(files', call', outside'.results) /\ "results" \in DOMAIN outside'
      BY <2>1, <2>2, <3>1, ReceiptsNext DEF EvidenceInv
    <3> QED BY <1>1, <2>1, <2>2, <3>2 DEF EvidenceInv
  <2>3. CASE focus = "seal"
    <3>1. SealNext \/ \E c \in Caller : Publish(c) \/ Killed(c)
      BY <1>3, <2>3 DEF CommandNext
    <3>2. RacedKnown' /\ (outside.raced => outside'.raced) /\ CountsAgree(files', call')
      BY <2>3, <3>1, RacedStays, CountsNext DEF EvidenceInv
    <3>3. outside'.raced \/ SealKept(files', call')
      BY <2>3, <3>1, <3>2, SealNextKeeps DEF EvidenceInv
    <3> QED BY <1>1, <2>1, <2>3, <3>2, <3>3 DEF EvidenceInv
  <2>4. CASE focus = "cluster"
    <3>1. ClusterNext \/ \E c \in Caller : Publish(c) \/ Killed(c)
      BY <1>3, <2>4 DEF CommandNext
    <3>2. ClustersKept(files', call')
      BY <2>1, <2>4, <3>1, ClustersNext DEF EvidenceInv
    <3> QED BY <1>1, <2>1, <2>4, <3>2 DEF EvidenceInv
  <2>5. CASE focus = "replay"
    <3>1. ReplayNext \/ \E c \in Caller : Publish(c) \/ Killed(c)
      BY <1>3, <2>5 DEF CommandNext
    <3>2. HistoryKept(files', call')
      BY <2>1, <2>5, <3>1, HistoryNext DEF EvidenceInv
    <3> QED BY <1>1, <2>1, <2>5, <3>2 DEF EvidenceInv
  <2>6. CASE focus \notin {"saga", "admission", "seal", "cluster", "replay"}
    BY <1>1, <2>1, <2>6 DEF EvidenceInv
  <2> QED BY <2>2, <2>3, <2>4, <2>5, <2>6
<1>4. CASE focus \in ResetFocuses /\ UNCHANGED focus
  BY <1>1, <1>4 DEF EvidenceInv
<1> QED BY <1>2, <1>3, <1>4 DEF WorkspaceNext

(* Evidence is what it says (EvidenceIsSound), however many commands run   *)
(* at the same time and are killed, if no reset takes files in between: a  *)
(* receipt has its intent, or answers the very challenge that is there,    *)
(* whatever old results are presented (completeSaga, completeAdmission);   *)
(* as many cases are revealed as were committed to, and those of the same  *)
(* seal unless two inits ran into each other (sealInit, sealReveal); a     *)
(* clustering that ends well leaves every failed run in its cluster        *)
(* (clusterRunRecords), and a campaign replays into one history, in which  *)
(* what is retained never passes fewer cases (campaign-replay.ts).         *)
THEOREM EvidenceStands ==
  ASSUME {"saga", "admission", "seal", "cluster", "replay"} \cap ResetFocuses = {}
  PROVE  WorkspaceSpec => []EvidenceIsSound
<1>1. EvidenceInv => EvidenceIsSound
  <2> SUFFICES ASSUME EvidenceInv PROVE EvidenceIsSound
    OBVIOUS
  <2>1. ASSUME NEW i
        PROVE  ReceiptsAnswer(i)
    <3>1. Has(SagaReceipt(i)) => Has(Intent(i)) /\ files[SagaReceipt(i)] \in {"completed", "failed"}
      <4>1. ASSUME Has(SagaReceipt(i))
            PROVE  Has(Intent(i)) /\ files[SagaReceipt(i)] \in {"completed", "failed"}
        <5>1. /\ SagaReceipt(i)[1] = "sagas" /\ SagaReceipt(i)[2] = i /\ SagaReceipt(i)[3] = "receipt"
              /\ SagaReceipt(i) \in DOMAIN files
          BY <4>1 DEF SagaReceipt, Has
        <5>2. focus = "saga"
          BY <5>1 DEF EvidenceInv, Located, InHome
        <5>3. ReceiptHolds(files, outside.results, SagaReceipt(i), files[SagaReceipt(i)])
          BY <5>1, <5>2 DEF EvidenceInv, ReceiptsKept
        <5> QED BY <5>1, <5>3 DEF ReceiptHolds, Has
      <4> QED BY <4>1
    <3>2. Has(AdmissionReceipt(i)) =>
            AnswersAs(files[AdmissionReceipt(i)], outside.results, i, files[Challenge(i)])
      <4>1. ASSUME Has(AdmissionReceipt(i))
            PROVE  AnswersAs(files[AdmissionReceipt(i)], outside.results, i, files[Challenge(i)])
        <5>1. /\ AdmissionReceipt(i)[1] = "admissions" /\ AdmissionReceipt(i)[2] = i
              /\ AdmissionReceipt(i)[3] = "receipt" /\ AdmissionReceipt(i) \in DOMAIN files
          BY <4>1 DEF AdmissionReceipt, Has
        <5>2. focus = "admission"
          BY <5>1 DEF EvidenceInv, Located, InHome
        <5>3. ReceiptHolds(files, outside.results, AdmissionReceipt(i), files[AdmissionReceipt(i)])
          BY <5>1, <5>2 DEF EvidenceInv, ReceiptsKept
        <5> QED BY <5>1, <5>3 DEF ReceiptHolds
      <4> QED BY <4>1
    <3>3. SagaState(i) = "unknown" => ~Has(SagaReceipt(i))
      BY <3>1 DEF SagaState
    <3>4. AdmissionState(i) \notin {"unknown", "pending"} =>
            Has(AdmissionReceipt(i)) /\ AdmissionState(i) = files[AdmissionReceipt(i)].outcome
      BY DEF AdmissionState
    <3> QED BY <3>2, <3>3, <3>4 DEF ReceiptsAnswer, AnswersAs
  <2>2. RevealIsSealed
    <3>1. ASSUME Has(SealFile("reveal"))
          PROVE  /\ files[SealFile("reveal")].cases.holdout = files[SealFile("reveal")].seal.holdout
                 /\ outside.raced \/ files[SealFile("reveal")].cases = files[SealFile("reveal")].seal
      <4>1. SealFile("reveal")[1] = "seal" /\ SealFile("reveal") \in DOMAIN files
        BY <3>1 DEF SealFile, Has
      <4>2. focus = "seal"
        BY <4>1 DEF EvidenceInv, Located, InHome
      <4> QED BY <4>1, <4>2 DEF EvidenceInv, SealKept, CountsAgree, Agrees, Reveal
    <3> QED BY <3>1 DEF RevealIsSealed
  <2>3. ClustersAreComplete
    <3>1. ASSUME NEW p \in Named("clusters", "cluster"), NEW q \in DOMAIN files[p]
          PROVE  Has(q) /\ files[q] = files[p][q] /\ files[q].stage # "checkpoint" /\ Signature(files[q]) = p[2]
      <4>1. p \in DOMAIN files /\ p[1] = "clusters"
        BY <3>1 DEF Named
      <4>2. focus = "cluster"
        BY <4>1 DEF EvidenceInv, Located, InHome
      <4>3. MembersHold(files, p[2], files[p])
        BY <4>1, <4>2 DEF EvidenceInv, ClustersKept
      <4> QED BY <4>3 DEF MembersHold, RunsOf, Has
    <3>2. ASSUME NEW c \in Caller, call[c].answer = "clustered",
                 NEW q \in Clusterable(call[c].read.names, call[c].read.batch)
          PROVE  LET path == ClusterFile(Signature(files[q]))
                 IN  Has(path) /\ q \in DOMAIN files[path] /\ DOMAIN files[path] \subseteq call[c].read.names
      <4> DEFINE k == call[c]
                 names == k.read.names
                 batch == k.read.batch
                 path == ClusterFile(Signature(files[q]))
      <4>1. focus = "cluster" /\ k.op = "cluster" /\ k.at = "done"
        BY <3>2 DEF EvidenceInv, Located, Fits, FixedFits
      <4>2. Clustering(k) /\ Remaining(k) = {} /\ k.at # "list"
        BY <3>2, <4>1 DEF Clustering, Remaining
      <4>3. ClusterHolds(files, k)
        BY <4>1 DEF EvidenceInv, ClustersKept
      <4>4. q \in Failed(files, names, batch)
        BY <3>2 DEF Clusterable, Failed
      <4>5. path \in DOMAIN files /\ DOMAIN files[path] = Alike(files, names, batch, Signature(files[q]))
        BY <4>2, <4>3, <4>4 DEF ClusterHolds
      <4> QED BY <4>4, <4>5 DEF Alike, Failed, Has
    <3> QED BY <3>1, <3>2 DEF ClustersAreComplete
  <2>4. ReplayIsIdempotent
    <3>1. StepsOnFile # {} => focus = "replay" /\ PlanFile \in DOMAIN files
      <4>1. ASSUME NEW p \in Named("campaigns", "step")
            PROVE  focus = "replay" /\ PlanFile \in DOMAIN files
        <5>1. p \in DOMAIN files /\ p[1] = "campaigns" /\ p[3] = "step" /\ PlanFile[3] = "plan"
          BY DEF Named, PlanFile
        <5>2. focus = "replay" /\ p # PlanFile
          BY <5>1 DEF EvidenceInv, Located, InHome
        <5> QED BY <5>1, <5>2 DEF EvidenceInv, HistoryKept, StepHolds
      <4> QED BY <4>1 DEF StepsOnFile
    <3>2. PlanFile \in DOMAIN files => focus = "replay"
      BY DEF EvidenceInv, Located, InHome, PlanFile
    <3>3. StepsOnFile # {} => Has(PlanFile) /\ HistoryReplays(files[PlanFile])
      BY <3>1, HistoryStands DEF EvidenceInv, Has
    <3>4. ASSUME NEW c \in Caller
          PROVE  /\ call[c].answer # "drift"
                 /\ call[c].answer = "replayed" => Has(call[c].path) /\ Found(c) = call[c].want
      <4>1. call[c].answer \in {"drift", "replayed"} => focus = "replay"
        BY DEF EvidenceInv, Located, Fits, FixedFits
      <4>2. focus = "replay" => ReplayHolds(files, call[c])
        BY DEF EvidenceInv, HistoryKept
      <4> QED BY <4>1, <4>2 DEF ReplayHolds, Has, Found
    <3>5. ASSUME NEW m \in StepsOnFile, NEW n \in StepsOnFile, m < n
          PROVE  LET plan == files[PlanFile]
                     passed(k) == Cardinality(IF k = None THEN plan.baseline ELSE plan.candidates[k])
                 IN  passed(files[StepFile(m)].selected) <= passed(files[StepFile(n)].selected)
      <4> DEFINE plan == files[PlanFile]
      <4>1. focus = "replay" /\ PlanFile \in DOMAIN files
        BY <3>1, <3>5
      <4>2. plan \in Plans
        BY <4>1 DEF EvidenceInv, HistoryKept
      <4>3. m \in Steps(plan) /\ n \in Steps(plan)
            /\ files[StepFile(m)] = Expected(plan)[m] /\ files[StepFile(n)] = Expected(plan)[n]
        BY <3>3, <3>5 DEF HistoryReplays
      <4> HIDE DEF plan
      <4>4. LET passed(k) == Cardinality(IF k = None THEN plan.baseline ELSE plan.candidates[k])
            IN  passed(Expected(plan)[m].selected) <= passed(Expected(plan)[n].selected)
        BY <3>5, <4>2, <4>3, RetainedGrows
      <4> QED BY <4>3, <4>4 DEF plan
    <3> QED BY <3>3, <3>4, <3>5 DEF ReplayIsIdempotent
  <2> QED BY <2>1, <2>2, <2>3, <2>4 DEF EvidenceIsSound
<1> QED BY <1>1, EvidenceInitially, EvidenceInductive, PTL DEF WorkspaceSpec

================================================================================
