---------------------------- MODULE CampaignReplay ----------------------------
(***************************************************************************)
(* The replay of a recorded campaign (campaign-replay.ts).  prepare        *)
(* publishes the plan and the first snapshot, replay loads the campaign    *)
(* and publishes one snapshot per candidate; a snapshot is derived from    *)
(* the plan, its inputs and the previous snapshot.  Whoever loads replays  *)
(* every snapshot that is there.  Commands run concurrently and may be     *)
(* killed between two publications; the inputs may be edited.              *)
(*                                                                         *)
(* A plan is a record: baseline and candidates (for each the set of        *)
(* qualification cases it passed), minimum (minimum_gain, in cases).       *)
(***************************************************************************)
EXTENDS EvidenceStore

CONSTANT Plans

ASSUME PlanAssumption ==
    \A plan \in Plans :
      /\ Len(plan.candidates) \in Nat /\ None \notin 1..Len(plan.candidates)
      /\ IsFiniteSet(plan.baseline) /\ \A n \in 1..Len(plan.candidates) : IsFiniteSet(plan.candidates[n])

PlanFile == <<"campaigns", "c", "plan">>
StepFile(n) == <<"campaigns", "c", "step", n>>
StepsOnFile == {p[4] : p \in Named("campaigns", "step")}

Eligible(plan, n) ==
    /\ plan.baseline \subseteq plan.candidates[n]
    /\ Cardinality(plan.candidates[n]) - Cardinality(plan.baseline) >= plan.minimum

(* The place of a candidate in the stable order by qualification.          *)
Before(plan, m, n) ==
    LET passed(k) == Cardinality(plan.candidates[k])
    IN  passed(m) > passed(n) \/ (passed(m) = passed(n) /\ m < n)

First(plan, from) ==
    IF from = {} THEN None
    ELSE CHOOSE n \in from : \A m \in from \ {n} : Before(plan, n, m)

(* snapshot: "previous" is the snapshot of the step before.  What is       *)
(* retained is what is selected, or the baseline.                          *)
SnapshotAfter(plan, step, previous) ==
    LET evaluated == IF step = 0 THEN {} ELSE previous.evaluated \cup {step}
    IN  [plan |-> plan, step |-> step, evaluated |-> evaluated,
         best |-> First(plan, evaluated),
         selected |-> First(plan, {n \in evaluated : Eligible(plan, n)})]

(* loadCampaign: the plan, the inputs as they are, and every snapshot that *)
(* is listed, replayed from the first on.  What is not published yet when  *)
(* nothing is listed is the first snapshot.                                *)
Steps(plan) == 0 .. Len(plan.candidates)
Expected(plan) ==
    LET expected[n \in Steps(plan)] ==
          SnapshotAfter(plan, n, IF n = 0 THEN None ELSE expected[n - 1])
    IN  expected
InputsStand == ~outside.edited
HistoryReplays(plan) ==
    /\ StepsOnFile \subseteq Steps(plan)
    /\ \A n \in StepsOnFile : /\ n > 0 => n - 1 \in StepsOnFile
                              /\ files[StepFile(n)] = Expected(plan)[n]
Last(steps) == IF steps = {} THEN 0 ELSE CHOOSE n \in steps : \A m \in steps : m <= n

(* The command publishes "state" next, and goes on to the step "target".   *)
Snapshotting(c, state, target) ==
    Update(c, Command("replay", "step", StepFile(state.step), state, [target |-> target]))
Replayed(c, state) ==
    Update(c, [Command("replay", "done", StepFile(state.step), state, None) EXCEPT !.answer = "replayed"])

(* prepareCampaignReplay                                                   *)
PrepareReplay(c, plan) ==
    /\ Start(c, IF InputsStand THEN Command("replay", "plan", PlanFile, plan, None) ELSE Refused("replay"))
    /\ UNCHANGED <<files, outside>>

PublishPlan(c) ==
    /\ call[c].op = "replay" /\ call[c].at = "plan"
    /\ files' = IF Has(PlanFile) THEN files ELSE With(PlanFile, call[c].want)
    /\ IF files'[PlanFile] = call[c].want
       THEN Snapshotting(c, SnapshotAfter(call[c].want, 0, None), 0)
       ELSE Finish(c, "conflict")
    /\ UNCHANGED outside

(* replayCampaign for some steps: the plan and its inputs, then the        *)
(* snapshots, which others may publish meanwhile.                          *)
ReplayCampaign(c, steps) ==
    /\ Start(c, IF Has(PlanFile) /\ InputsStand
                THEN Command("replay", "load", None, files[PlanFile], [steps |-> steps])
                ELSE Refused("replay"))
    /\ UNCHANGED <<files, outside>>

LoadCampaign(c) ==
    /\ call[c].op = "replay" /\ call[c].at = "load"
    /\ LET plan == call[c].want
           state == Expected(plan)[Last(StepsOnFile)]
           target == IF state.step + call[c].read.steps < Len(plan.candidates)
                     THEN state.step + call[c].read.steps ELSE Len(plan.candidates)
       IN  IF ~HistoryReplays(plan) THEN Finish(c, "drift")
           ELSE IF state.step = 0 THEN Snapshotting(c, state, target)
           ELSE IF state.step < target
           THEN Snapshotting(c, SnapshotAfter(plan, state.step + 1, state), target)
           ELSE Replayed(c, state)
    /\ UNCHANGED <<files, outside>>

(* publish: whoever loses the race must find the very same snapshot.       *)
PublishStep(c) ==
    /\ call[c].op = "replay" /\ call[c].at = "step"
    /\ LET path == call[c].path
           state == call[c].want
           target == call[c].read.target
       IN  /\ files' = IF Has(path) THEN files ELSE With(path, state)
           /\ IF files'[path] # state THEN Finish(c, "drift")
              ELSE IF state.step < target
              THEN Snapshotting(c, SnapshotAfter(state.plan, state.step + 1, state), target)
              ELSE Replayed(c, state)
    /\ UNCHANGED outside

EditInput ==
    /\ InputsStand
    /\ outside' = [outside EXCEPT !.edited = TRUE]
    /\ UNCHANGED <<files, call, made>>

ReplayNext ==
    \/ \E c \in Caller, plan \in Plans : PrepareReplay(c, plan)
    \/ \E c \in Caller, steps \in 1..2 : ReplayCampaign(c, steps)
    \/ \E c \in Caller : PublishPlan(c) \/ LoadCampaign(c) \/ PublishStep(c)
    \/ EditInput

(* Concurrent replay is idempotent (docs/campaign-replay.md): however      *)
(* prepares and replays of any length run at the same time and are killed, *)
(* the snapshots on file are those of the one plan, without a gap, nobody  *)
(* finds a history that does not replay, whoever has an answer finds it on *)
(* file, and what is retained never passes fewer cases than before.        *)
ReplayIsIdempotent ==
    /\ StepsOnFile # {} => Has(PlanFile) /\ HistoryReplays(files[PlanFile])
    /\ \A c \in Caller :
         /\ call[c].answer # "drift"
         /\ call[c].answer = "replayed" => Has(call[c].path) /\ Found(c) = call[c].want
    /\ \A m, n \in StepsOnFile :
         LET plan == files[PlanFile]
             passed(k) == Cardinality(IF k = None THEN plan.baseline ELSE plan.candidates[k])
         IN  m < n => passed(files[StepFile(m)].selected) <= passed(files[StepFile(n)].selected)
===============================================================================
