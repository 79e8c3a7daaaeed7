---------------------------- MODULE FeedbackStore ----------------------------
(* Ingestion of feedback (store.ts) and of run records (runs.ts).  A       *)
(* record is published under its ID; only feedback counts the records      *)
(* first.                                                                  *)
EXTENDS EvidenceStore

CONSTANTS RecordIds, Contents,
          Ephemeral,     \* contents that are not to be kept
          StoreLimit     \* policy.max_store_records

ASSUME LimitAssumption == StoreLimit \in Nat

Feedback(i) == <<"store", i, "record">>
RunRecord(i) == <<"runs", i, "record">>
Records == Named("store", "record")

(* An existing record is compared at once, otherwise the store is counted. *)
IngestFeedback(c, i, content) ==
    /\ Start(c, IF content \in Ephemeral THEN Refused("feedback")
                ELSE Command("feedback", IF Has(Feedback(i)) THEN "compare" ELSE "count",
                             Feedback(i), content, None))
    /\ UNCHANGED <<files, outside>>

(* Mutant: one record too many is accepted. *)
CountRecordsLate(c) ==
    /\ call[c].at = "count"
    /\ IF Cardinality(Records) > StoreLimit THEN Finish(c, "limit") ELSE Goto(c, "publish")
    /\ UNCHANGED <<files, outside>>

CountRecords(c) ==
    /\ call[c].at = "count"
    /\ IF Cardinality(Records) >= StoreLimit THEN Finish(c, "limit") ELSE Goto(c, "publish")
    /\ UNCHANGED <<files, outside>>

IngestRunRecord(c, i, content) ==
    /\ Start(c, Command("run", IF Has(RunRecord(i)) THEN "compare" ELSE "publish",
                        RunRecord(i), content, None))
    /\ UNCHANGED <<files, outside>>

(* Mutant: only the IDs are compared. *)
SameRecordId(old, new) == TRUE

SameRecord(old, new) == old = new

(* queryFeedback and summarizeFeedback: nothing at all is read from a      *)
(* store above its limit.                                                  *)
Readable == Cardinality(Records) <= StoreLimit
QueryFeedback(content) == {p \in Records : Readable /\ files[p] = content}

FeedbackNext ==
    \/ \E c \in Caller, i \in RecordIds, content \in Contents :
         IngestFeedback(c, i, content) \/ IngestRunRecord(c, i, content)
    \/ \E c \in Caller :
         \/ CountRecords(c)
         \/ call[c].op \in {"feedback", "run"} /\ Compare(c, SameRecord(Found(c), call[c].want))

(* The limit of the feedback store is passed by less than the number of    *)
(* commands that run at the same time: each counts before it publishes.    *)
StoreIsBounded == Cardinality(Records) <= StoreLimit + Cardinality(Caller) - 1

(* What docs/architecture.md says of writers that work in parallel: they   *)
(* only collide on an ID they both use.  So a writer who was told that a   *)
(* record is stored finds it when he asks for it.                          *)
ParallelWritersOnlyCollideOnIds ==
    \A c \in Caller :
      call[c].op = "feedback" /\ call[c].answer \in Answered /\ ~call[c].overtaken =>
        call[c].path \in QueryFeedback(call[c].want)
=============================================================================
