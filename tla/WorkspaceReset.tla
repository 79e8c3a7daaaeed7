---------------------------- MODULE WorkspaceReset ----------------------------
(***************************************************************************)
(* The reset of a workspace (reset.ts), next to whatever else runs, and    *)
(* the version control it relies on.  It lists the files, asks git whether *)
(* the tracked stores are clean, removes .dal, and writes a receipt.       *)
(***************************************************************************)
EXTENDS EvidenceStore

CONSTANTS TrackedStores,    \* EVIDENCE_DIRECTORIES
          MaxResets         \* bound

(* The seal, the one file that is ever overwritten, is not in them.        *)
ASSUME TrackedAssumption == "seal" \notin TrackedStores

VARIABLES reset,      \* at: idle, listed, checked, removed; listed and checked:
                      \* the paths that existed then
          repository, \* present: is there one; head: what it has of the tracked
                      \* stores; history: all it ever had
          resets,     \* resets begun
          lost        \* [path, checked] of what a removal took that no commit has

resetVars == <<reset, repository, resets, lost>>

Tracked(p) == p[1] \in TrackedStores
TrackedFiles == [p \in {q \in DOMAIN files : Tracked(q)} |-> files[p]]

Commit ==
    /\ repository.present /\ repository.head # TrackedFiles
    /\ repository' = [repository EXCEPT !.head = TrackedFiles,
         !.history = @ \cup {<<p, files[p]>> : p \in DOMAIN TrackedFiles}]
    /\ UNCHANGED <<commandVars, reset, resets, lost>>

ResetInventory ==
    /\ reset.at = "idle" /\ resets < MaxResets
    /\ resets' = resets + 1
    /\ reset' = [reset EXCEPT !.at = "listed", !.listed = DOMAIN files]
    /\ UNCHANGED <<commandVars, repository, lost>>

(* Mutant: new files do not count as changes. *)
DirtyKnown == \E p \in DOMAIN repository.head : ~Has(p) \/ files[p] # repository.head[p]

(* evidenceDirtyPaths: additions, changes and deletions.                   *)
Dirty == repository.head # TrackedFiles

ResetCheck ==
    /\ reset.at = "listed"
    /\ reset' = IF repository.present /\ Dirty THEN [reset EXCEPT !.at = "idle"]
                ELSE [reset EXCEPT !.at = "checked", !.checked = DOMAIN files]
    /\ UNCHANGED <<commandVars, repository, resets, lost>>

(* rm -r: all of it, or a part when the process is killed.                 *)
Take(gone) ==
    /\ files' = [p \in DOMAIN files \ gone |-> files[p]]
    /\ lost' = lost \cup {[path |-> p, checked |-> p \in reset.checked] :
                            p \in {q \in gone : <<q, files[q]>> \notin repository.history}}
    /\ call' = [c \in Caller |-> [call[c] EXCEPT !.overtaken = TRUE]]
    /\ UNCHANGED <<made, outside, repository, resets>>

RemoveStores ==
    /\ reset.at = "checked"
    /\ Take(DOMAIN files)
    /\ reset' = [reset EXCEPT !.at = "removed"]

RemoveSome ==
    /\ reset.at = "checked"
    /\ \E p \in DOMAIN files : Take({p})
    /\ reset' = [reset EXCEPT !.at = "idle"]

WriteReceipt ==
    /\ reset.at = "removed"
    /\ files' = With(<<"resets", resets, "receipt">>, reset.listed)
    /\ reset' = [reset EXCEPT !.at = "idle"]
    /\ UNCHANGED <<call, made, outside, repository, resets, lost>>

ResetKilled ==
    /\ reset.at # "idle"
    /\ reset' = [reset EXCEPT !.at = "idle"]
    /\ UNCHANGED <<commandVars, repository, resets, lost>>

ResetInit ==
    /\ reset = [at |-> "idle", listed |-> {}, checked |-> {}]
    /\ repository \in {[present |-> present, head |-> files, history |-> {}] : present \in BOOLEAN}
    /\ resets = 0 /\ lost = {}

ResetNext ==
    Commit \/ ResetInventory \/ ResetCheck \/ RemoveStores \/ RemoveSome \/ WriteReceipt \/ ResetKilled

(* In a repository, evidence of a tracked store that was there when the    *)
(* reset asked git is in a commit before it is removed, also when the      *)
(* reset is killed, when an earlier reset has not been committed, and when *)
(* records are replaced by others of the same name.                        *)
CheckedEvidenceIsCommitted ==
    repository.present => \A l \in lost : Tracked(l.path) => ~l.checked

(* What docs/operator-guide.md says: reset never deletes uncommitted       *)
(* evidence.                                                               *)
ResetSparesUncommitted == lost = {}
=============================================================================
