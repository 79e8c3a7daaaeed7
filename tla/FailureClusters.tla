---------------------------- MODULE FailureClusters ----------------------------
(***************************************************************************)
(* The clusters of failed runs (clustering.ts): a command lists the run    *)
(* store, groups the failed runs of one batch, or of all, by what failed,  *)
(* and publishes one file per group, one after the other.  The name of a   *)
(* file follows from what failed and the batch, not from who is in it; so  *)
(* a group that has grown since meets the file of the smaller one, and the *)
(* command ends there, with some of its files published.                   *)
(***************************************************************************)
EXTENDS ControllerEstimates

CONSTANT FailedRuns     \* the runs that are ingested here

ClusterFile(signature) == <<"clusters", signature, "cluster">>

(* clusterFacts: a harness failure, or the checks that a completed run     *)
(* failed; the category keeps them apart.                                  *)
Facts(run) ==
    IF run.failure # None THEN <<"harness", run.failure>>
    ELSE IF run.succeeded /\ run.business = "failed" THEN <<"business_failure", "check">>
    ELSE None
Signature(run) == <<Facts(run), run.batch>>

Clusterable(names, batch) ==
    {p \in names : /\ batch \in {None, files[p].batch}
                   /\ files[p].stage # "checkpoint" /\ Facts(files[p]) # None}

Group(names, batch, signature) ==
    {p \in Clusterable(names, batch) : Signature(files[p]) = signature}

Clusters(names, batch) ==
    {[signature |-> s, members |-> [p \in Group(names, batch, s) |-> files[p]]] :
       s \in {Signature(files[p]) : p \in Clusterable(names, batch)}}

(* clusterRunRecords: the names are listed first.                          *)
ClusterRuns(c, batch) ==
    /\ Start(c, Command("cluster", "list", None, {}, [batch |-> batch, names |-> Named("runs", "record")]))
    /\ UNCHANGED <<files, outside>>

Clustered(c, rest) ==
    Update(c, IF rest = {} THEN [call[c] EXCEPT !.at = "done", !.want = rest, !.answer = "clustered"]
              ELSE [call[c] EXCEPT !.at = "clusters", !.want = rest])

GroupRuns(c) ==
    /\ call[c].op = "cluster" /\ call[c].at = "list"
    /\ Clustered(c, Clusters(call[c].read.names, call[c].read.batch))
    /\ UNCHANGED <<files, outside>>

(* Signatures are digests: they are sorted in no order that matters.       *)
(* Nothing changes a cluster file, so whoever loses the publication finds  *)
(* at any later time what was published.                                   *)
PublishCluster(c) ==
    /\ call[c].op = "cluster" /\ call[c].at = "clusters"
    /\ \E cluster \in call[c].want :
         LET path == ClusterFile(cluster.signature)
         IN  \/ /\ ~Has(path)
                /\ files' = With(path, cluster.members)
                /\ Clustered(c, call[c].want \ {cluster})
             \/ /\ Has(path) /\ UNCHANGED files
                /\ IF files[path] = cluster.members THEN Clustered(c, call[c].want \ {cluster})
                   ELSE Finish(c, "conflict")
    /\ UNCHANGED outside

ClusterNext ==
    \/ \E c \in Caller, i \in RecordIds, run \in FailedRuns : IngestRun(c, i, run)
    \/ \E c \in Caller, batch \in Batches \cup {None} : ClusterRuns(c, batch)
    \/ \E c \in Caller :
         \/ GroupRuns(c) \/ PublishCluster(c)
         \/ call[c].op = "run" /\ Compare(c, SameRecord(Found(c), call[c].want))

(* Every member of a cluster is on file as it was counted, is the last     *)
(* word of its session, and failed as the cluster says; and whoever was    *)
(* told that his runs are clustered finds every failed run of his listing  *)
(* in its cluster, and no others there, whichever commands clustered parts *)
(* of it before, failed half way or were killed.                           *)
ClustersAreComplete ==
    /\ \A p \in Named("clusters", "cluster") : \A q \in DOMAIN files[p] :
         Has(q) /\ files[q] = files[p][q] /\ files[q].stage # "checkpoint" /\ Signature(files[q]) = p[2]
    /\ \A c \in Caller : call[c].answer = "clustered" =>
         \A q \in Clusterable(call[c].read.names, call[c].read.batch) :
           LET path == ClusterFile(Signature(files[q]))
           IN  Has(path) /\ q \in DOMAIN files[path] /\ DOMAIN files[path] \subseteq call[c].read.names

(* What docs/evaluation-and-guardrails.md says: repeated passes over a     *)
(* growing store re-cluster cleanly.                                       *)
ReclustersCleanly == \A c \in Caller : call[c].op = "cluster" => call[c].answer # "conflict"
================================================================================
