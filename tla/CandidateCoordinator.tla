------------------------- MODULE CandidateCoordinator -------------------------
(***************************************************************************)
(* The coordinator of plugin candidates (plugins/dal-hmr-candidate): it    *)
(* copies the live files of a plugin into a staging directory (prepare),   *)
(* drops that record when the live files are still those (reject), and     *)
(* observes the reloads of the host.  Admission is quarantined.            *)
(*                                                                         *)
(* A file is read or written at a time and others run in between: the      *)
(* developer edits the live files, the agent the staged ones.  A snapshot  *)
(* is a function from files to versions; its digest tells snapshots apart. *)
(***************************************************************************)
EXTENDS Integers, FiniteSets

CONSTANTS CandidateFiles,   \* the files of the plugin
          Candidates,
          Clients,          \* calls that may be under way
          MaxEdits,         \* bound on edits, also the versions
          MaxReloads,       \* bound on reloads
          Nothing

ASSUME BoundAssumption == MaxEdits \in Nat

VARIABLES source, staged,  \* [file -> version]; staged: Nothing where nothing was written
          generation,      \* candidate, sha (a snapshot), sequence, admitted
          prepared,        \* Nothing or [id, baseline]
          busy,
          call,            \* what the clients are doing
          edits,
          touched          \* staged files the agent edited, or a failed prepare wrote

candidateVars == <<source, staged, generation, prepared, busy, call, edits, touched>>

Waiting == [at |-> "idle", id |-> Nothing, seen |-> <<>>, left |-> CandidateFiles, answer |-> Nothing]
Edited == -1     \* a version that only the agent writes

(* Mutant: a second operation is let in. *)
EnterBusy(c, at, id) ==
    /\ call[c].at = "idle"
    /\ call' = [call EXCEPT ![c] = [Waiting EXCEPT !.at = at, !.id = id]]
    /\ busy' = TRUE

(* #exclusive: a second operation is refused, not queued.                  *)
Enter(c, at, id) ==
    /\ call[c].at = "idle" /\ ~busy
    /\ call' = [call EXCEPT ![c] = [Waiting EXCEPT !.at = at, !.id = id]]
    /\ busy' = TRUE

Leave(c, answer) ==
    /\ call' = [call EXCEPT ![c] = [Waiting EXCEPT !.answer = answer]]
    /\ busy' = FALSE

Prepare(c, id) ==
    /\ generation.candidate = Nothing
    /\ Enter(c, "baseline", id)
    /\ UNCHANGED <<source, staged, generation, prepared, edits, touched>>

Reject(c) ==
    /\ prepared # Nothing
    /\ Enter(c, "compare", Nothing)
    /\ UNCHANGED <<source, staged, generation, prepared, edits, touched>>

(* snapshot: the files one after the other, in any order here.             *)
Unread(c) == CandidateFiles \ DOMAIN call[c].seen
ReadLive(c) ==
    /\ call[c].at \in {"baseline", "compare"} /\ Unread(c) # {}
    /\ \E f \in Unread(c) :
         call' = [call EXCEPT ![c].seen = [g \in DOMAIN @ \cup {f} |-> IF g = f THEN source[f] ELSE @[g]]]
    /\ UNCHANGED <<source, staged, generation, prepared, busy, edits, touched>>

(* prepare writes the staged files, each renamed into place, and then      *)
(* remembers the baseline; a failure leaves what was remembered before.    *)
Stage(c) ==
    /\ call[c].at = "baseline" /\ Unread(c) = {} /\ call[c].left # {}
    /\ \E f \in call[c].left : /\ staged' = [staged EXCEPT ![f] = call[c].seen[f]]
                              /\ call' = [call EXCEPT ![c].left = @ \ {f}]
    /\ UNCHANGED <<source, generation, prepared, busy, edits, touched>>

Remember(c) ==
    /\ call[c].at = "baseline" /\ Unread(c) = {} /\ call[c].left = {}
    /\ prepared' = [id |-> call[c].id, baseline |-> call[c].seen]
    /\ touched' = {f \in CandidateFiles : staged[f] = Edited}
    /\ Leave(c, "prepared")
    /\ UNCHANGED <<source, staged, generation, edits>>

Fail(c) ==
    /\ call[c].at # "idle"
    /\ Leave(c, "failed")
    /\ touched' = touched \cup (CandidateFiles \ call[c].left)
    /\ UNCHANGED <<source, staged, generation, prepared, edits>>

(* reject: only while the live files are the baseline.                     *)
Undrifted(c) == call[c].seen = prepared.baseline /\ generation.candidate = Nothing
FinishReject(c) ==
    /\ call[c].at = "compare" /\ Unread(c) = {}
    /\ IF Undrifted(c) THEN prepared' = Nothing /\ Leave(c, "rejected")
       ELSE Leave(c, "quarantined") /\ UNCHANGED prepared
    /\ UNCHANGED <<source, staged, generation, edits, touched>>

(* applyPrepared refuses at once.                                          *)
ApplyPrepared(c) ==
    /\ call[c].at = "idle"
    /\ call' = [call EXCEPT ![c].answer = "quarantined"]
    /\ UNCHANGED <<source, staged, generation, prepared, busy, edits, touched>>

(* #observeReload: a reload of the entry that can be read is a new         *)
(* generation, any other one only counts; neither is ever admitted.        *)
ObserveReload(readable) ==
    /\ generation.sequence < MaxReloads
    /\ generation' = IF readable
         THEN [candidate |-> Nothing, sha |-> source, sequence |-> generation.sequence + 1, admitted |-> FALSE]
         ELSE [generation EXCEPT !.sequence = @ + 1, !.admitted = FALSE]
    /\ UNCHANGED <<source, staged, prepared, busy, call, edits, touched>>

EditLive(f) ==
    /\ edits < MaxEdits
    /\ edits' = edits + 1
    /\ \E version \in 0 .. MaxEdits : source' = [source EXCEPT ![f] = version]
    /\ UNCHANGED <<staged, generation, prepared, busy, call, touched>>

EditStaged(f) ==
    /\ edits < MaxEdits /\ staged[f] # Nothing
    /\ edits' = edits + 1 /\ touched' = touched \cup {f}
    /\ staged' = [staged EXCEPT ![f] = Edited]
    /\ UNCHANGED <<source, generation, prepared, busy, call>>

CandidateInit ==
    /\ source = [f \in CandidateFiles |-> 0] /\ staged = [f \in CandidateFiles |-> Nothing]
    /\ generation = [candidate |-> Nothing, sha |-> source, sequence |-> 0, admitted |-> FALSE]
    /\ prepared = Nothing /\ busy = FALSE /\ call = [c \in Clients |-> Waiting]
    /\ edits = 0 /\ touched = {}

CandidateNext ==
    \/ \E c \in Clients :
         \/ \E id \in Candidates : Prepare(c, id)
         \/ Reject(c) \/ ReadLive(c) \/ Stage(c) \/ Remember(c) \/ Fail(c)
         \/ FinishReject(c) \/ ApplyPrepared(c)
    \/ \E readable \in BOOLEAN : ObserveReload(readable)
    \/ \E f \in CandidateFiles : EditLive(f) \/ EditStaged(f)

(***************************************************************************)
(* Properties.                                                             *)
(***************************************************************************)
(* While no operation is under way, every staged file is the remembered    *)
(* candidate's, but those the agent has edited and those a later prepare   *)
(* wrote before it failed: two prepares never mix their files, and a       *)
(* failure half way replaces no file that it had not come to.              *)
StagedIsPrepared ==
    ~busy /\ prepared # Nothing =>
      \A f \in CandidateFiles \ touched : staged[f] = prepared.baseline[f]
=============================================================================
