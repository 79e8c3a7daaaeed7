---------------------------- MODULE BranchArchive ----------------------------
(***************************************************************************)
(* The archive of branches and their evaluations (branch.ts).  A branch    *)
(* binds the bytes of its draft; an evaluation binds a branch and, when it *)
(* is to count, an execution receipt.  Nothing stored is trusted: whoever  *)
(* reads replays every proof from the files as they are now, and refuses   *)
(* the whole archive when one of them does not fit.                        *)
(*                                                                         *)
(* A receipt is a record: id, exec (session and task), content (all but    *)
(* its id and time; it includes exec), pass.  outside.draft is the current *)
(* version of every branch's draft and other files.                        *)
(***************************************************************************)
EXTENDS EvidenceStore

CONSTANTS Branches, Receipts

Branch(b) == <<"branches", b, "branch">>
EvaluationOf(exec) == <<"branches", exec, "evaluation">>
Diagnosis(n) == <<"branches", "random", "evaluation", n>>

RecordBranch(c, b, parent) ==
    /\ Start(c, IF parent = None \/ Has(Branch(parent))
                THEN Command("branch", "publish", Branch(b), [parent |-> parent, draft |-> outside.draft[b]], None)
                ELSE Refused("branch"))
    /\ UNCHANGED <<files, outside>>

(* prepareEvaluation, as far as it depends on anything but the receipt:    *)
(* the branch is there and its files are those it was recorded with.       *)
Replays(b) == Has(Branch(b)) /\ files[Branch(b)].draft = outside.draft[b]

(* Receipts share an identity by their ID, content or execution.           *)
Shares(r, s) == r.id = s.id \/ r.content = s.content \/ r.exec = s.exec

Proven == {p \in Named("branches", "evaluation") : files[p].receipt # None}

(* Mutant: reuse is only looked for before an evaluation is published. *)
ArchiveVerifiesSingly == \A p \in Proven : Replays(files[p].branch)

(* verifiedEvaluations does not throw.                                     *)
ArchiveVerifies ==
    /\ \A p \in Proven : Replays(files[p].branch)
    /\ \A p, q \in Proven : Shares(files[p].receipt, files[q].receipt) => files[p] = files[q]

(* An evaluation without a receipt is a diagnosis under a random ID.       *)
EvaluateBranch(c, b, receipt) ==
    /\ Start(c, IF ~Has(Branch(b)) THEN Refused("branch")
                ELSE IF receipt = None
                THEN Command("branch", "publish", Diagnosis(made), [branch |-> b, receipt |-> None], None)
                ELSE IF ~Replays(b) THEN Refused("branch")
                ELSE Command("branch", "verify", EvaluationOf(receipt.exec),
                             [branch |-> b, receipt |-> receipt], None))
    /\ UNCHANGED <<files, outside>>

(* Looks for an identity that is bound otherwise; the publication is a     *)
(* later step.                                                             *)
VerifyArchive(c) ==
    /\ call[c].at = "verify"
    /\ IF ArchiveVerifies /\ \A p \in Proven :
            Shares(files[p].receipt, call[c].want.receipt) => files[p] = call[c].want
       THEN Goto(c, "publish")
       ELSE Finish(c, "conflict")
    /\ UNCHANGED <<files, outside>>

SameBranchRecord(old, new) == old = new

EditDraft(b) ==
    /\ outside.draft[b] = 0
    /\ outside' = [outside EXCEPT !.draft[b] = 1]
    /\ UNCHANGED <<files, call, made>>

(* branchStats: the visits of a branch.                                    *)
Visits(b) == {p \in Proven : files[p].branch = b}

BranchNext ==
    \/ \E c \in Caller, b \in Branches :
         \/ \E parent \in Branches \cup {None} : RecordBranch(c, b, parent)
         \/ \E receipt \in Receipts \cup {None} : EvaluateBranch(c, b, receipt)
    \/ \E c \in Caller :
         \/ VerifyArchive(c)
         \/ call[c].op = "branch" /\ Compare(c, SameBranchRecord(Found(c), call[c].want))
    \/ \E b \in Branches : EditDraft(b)

(* Statistics are refused or true: no receipt, content or execution is     *)
(* counted twice, on one branch or on two, and every visit is that of a    *)
(* branch whose files are still those that were evaluated, although two    *)
(* evaluations may have been verified before either was published.         *)
NoDoubleVisit ==
    ArchiveVerifies =>
      /\ \A p, q \in Proven : p # q => ~Shares(files[p].receipt, files[q].receipt)
      /\ \A b \in Branches : Visits(b) # {} => files[Branch(b)].draft = outside.draft[b]
=============================================================================
