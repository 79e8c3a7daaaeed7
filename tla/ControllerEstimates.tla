------------------------ MODULE ControllerEstimates ------------------------
(***************************************************************************)
(* The controller's estimates (control/store.ts, control/estimator.ts): a  *)
(* command lists the run store, reads the runs of one batch, refuses them  *)
(* all when they do not measure one and the same thing, and publishes the  *)
(* counts under an ID derived from their content.  Runs are ingested       *)
(* meanwhile, so a batch may be estimated many times.                      *)
(*                                                                         *)
(* A run is a record: batch; stage ("checkpoint" or "final"); pins (the    *)
(* digests of its harness, None without); runtime (None, or the attested   *)
(* generation with its session, manifest, stable and proven: the evidence  *)
(* files bear it out and it meets the policy's profile and assurance);     *)
(* context (all else a measurement must share); succeeded; failure (None,  *)
(* or what the harness reports); business (None, "passed", "failed");      *)
(* check (None or whether the check passed).                               *)
(***************************************************************************)
EXTENDS FeedbackStore

CONSTANTS RunContents, Batches,
          Metrics        \* the policy's metrics: source, minimum (minimum_samples)

(* validateControllerPolicy: no two metrics have one source.               *)
ASSUME MetricsAssumption ==
    \A m, n \in Metrics : m.source = n.source => m = n

(* validateRunRecord: a business outcome needs a harness that succeeded,   *)
(* a failed one needs a failed check, and only a harness that did not has  *)
(* a failure to report.                                                    *)
ValidRun(run) ==
    /\ run.failure # None => ~run.succeeded
    /\ run.business \in {"passed", "failed"} => run.succeeded
    /\ run.business = "failed" => run.check = FALSE

IngestRun(c, i, run) ==
    IF ValidRun(run) THEN IngestRunRecord(c, i, run)
    ELSE Start(c, Refused("run")) /\ UNCHANGED <<files, outside>>

StatePath(state) == <<"control", state, "state">>

(* estimateControllerState, up to the listing of the run store.            *)
Estimate(c, batch) ==
    /\ Start(c, Command("estimate", "list", None, None,
                        [batch |-> batch, names |-> Named("runs", "record")]))
    /\ UNCHANGED <<files, outside>>

(* Mutant: checkpoints of sessions that still run are counted. *)
SelectedAll(names, batch) == {p \in names : files[p].batch = batch}

(* readBatch: the records of the batch, without the checkpoints.           *)
Selected(names, batch) == {p \in names : files[p].batch = batch /\ files[p].stage # "checkpoint"}

(* generationOf, validateControllerRuntimeEvidence                         *)
Attested(run) ==
    /\ run.pins # None /\ run.runtime # None
    /\ run.runtime.stable /\ run.runtime.proven
Generation(run) == <<run.pins, run.runtime.manifest>>

(* buildControllerState: the runs that may be counted together.            *)
Comparable(names) ==
    /\ names # {}
    /\ \A p \in names : Attested(files[p])
    /\ \A p, q \in names :
         /\ Generation(files[p]) = Generation(files[q]) /\ files[p].context = files[q].context
         /\ p # q => files[p].runtime.session # files[q].runtime.session

(* metricObservation                                                       *)
Observation(source, run) ==
    CASE source = "harness"  -> IF run.succeeded THEN "success" ELSE "failure"
      [] source = "business" -> IF run.business = None THEN "excluded"
                                ELSE IF run.business = "passed" THEN "success" ELSE "failure"
      [] source = "check"    -> IF run.check = None THEN "excluded"
                                ELSE IF run.check THEN "success" ELSE "failure"

Observed(m, names, what) == Cardinality({p \in names : Observation(m.source, files[p]) = what})

(* estimateMetric; the mean and its interval follow from the counts.       *)
EstimateMetric(m, names) ==
    [successes |-> Observed(m, names, "success"), failures |-> Observed(m, names, "failure"),
     excluded |-> Observed(m, names, "excluded")]
Sufficient(m, estimate) == estimate.successes + estimate.failures >= m.minimum

BuildState(names, batch) ==
    LET metrics == [m \in Metrics |-> EstimateMetric(m, names)]
    IN  [batch |-> batch, runs |-> [p \in names |-> files[p]], metrics |-> metrics,
         ready |-> \A m \in Metrics : Sufficient(m, metrics[m])]

(* validateControllerState                                                 *)
ValidState(state) ==
    /\ \A m \in Metrics :
         LET e == state.metrics[m]
         IN  e.successes + e.failures + e.excluded = Cardinality(DOMAIN state.runs)
    /\ state.ready = \A m \in Metrics : Sufficient(m, state.metrics[m])

ReadBatch(c) ==
    /\ call[c].op = "estimate" /\ call[c].at = "list"
    /\ LET runs == Selected(call[c].read.names, call[c].read.batch)
           state == BuildState(runs, call[c].read.batch)
       IN  IF Comparable(runs) /\ ValidState(state)
           THEN Update(c, [call[c] EXCEPT !.at = "publish", !.path = StatePath(state), !.want = state])
           ELSE Finish(c, "refused")
    /\ UNCHANGED <<files, outside>>

SameState(old, new) == ValidState(old) /\ old = new

ControlNext ==
    \/ \E c \in Caller, i \in RecordIds, run \in RunContents : IngestRun(c, i, run)
    \/ \E c \in Caller, batch \in Batches : Estimate(c, batch)
    \/ \E c \in Caller :
         \/ ReadBatch(c)
         \/ call[c].op = "run" /\ Compare(c, SameRecord(Found(c), call[c].want))
         \/ call[c].op = "estimate" /\ Compare(c, SameState(Found(c), call[c].want))

(* An estimate that anybody can find counts what it says: every run it     *)
(* names is on file as it was counted and is the last word of a session of *)
(* its own; all ran in one generation that was stable and proven; and      *)
(* however ingestion and other estimates came in between, two estimates of *)
(* a batch never each leave out a run that the other one has.              *)
EstimatesAreSound ==
    \A p \in Named("control", "state") :
      LET state == files[p]
          named == DOMAIN state.runs
      IN  /\ \A q \in named :
               /\ Has(q) /\ files[q] = state.runs[q]
               /\ files[q].stage # "checkpoint" /\ files[q].runtime.stable /\ files[q].runtime.proven
          /\ Cardinality({files[q].runtime.session : q \in named}) = Cardinality(named)
          /\ Cardinality({<<files[q].pins, files[q].runtime.manifest>> : q \in named}) = 1
          /\ \A r \in Named("control", "state") :
               files[r].batch = state.batch =>
                 named \subseteq DOMAIN files[r].runs \/ DOMAIN files[r].runs \subseteq named
=============================================================================
