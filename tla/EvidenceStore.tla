---------------------------- MODULE EvidenceStore ----------------------------
(***************************************************************************)
(* The files under .dal that the commands of the CLI write, as a function  *)
(* from the paths that exist to their contents, and what the commands have *)
(* in common: each is a process of its own that reads some files, decides, *)
(* and publishes at most one file exclusively (publishJsonExclusive writes *)
(* a temporary file and links it: the first publication wins).  A command  *)
(* that loses compares what it finds with what it wanted.  Any command may *)
(* be killed between two of its steps.                                     *)
(*                                                                         *)
(* A path is <<store, name, part>>.  The modules that extend this one add  *)
(* the commands of one store each; "outside" holds what they read that is  *)
(* not under .dal.                                                         *)
(***************************************************************************)
EXTENDS Integers, Sequences, FiniteSets

CONSTANTS Caller,      \* commands that may run at the same time
          MaxCalls,    \* bound: commands started in all, by the store they are about
          None

ASSUME CallerAssumption == Caller # {} /\ IsFiniteSet(Caller)
ASSUME NoneAssumption ==   \* it is no answer
    None \notin {"stored", "idempotent", "conflict", "refused", "clustered", "replayed", "drift"}

VARIABLES files,     \* [path -> content] of the files that exist
          call,      \* what every caller is doing
          made,      \* number of commands started; also a source of fresh names
          outside,   \* facts that are not under .dal
          focus      \* the store whose commands run in this behaviour

commandVars == <<files, call, made, outside>>

Has(p) == p \in DOMAIN files
Named(store, part) == {p \in DOMAIN files : p[1] = store /\ p[3] = part}
With(p, content) == [q \in DOMAIN files \cup {p} |-> IF q = p THEN content ELSE files[q]]

(* A command: what it is, where it is, the file it is about, the content   *)
(* it wants there, what it has read so far, its answer, and whether a      *)
(* removal of the stores has overtaken it.                                 *)
Idle == [op |-> None, at |-> "idle", path |-> None, want |-> None, read |-> None,
         answer |-> None, overtaken |-> FALSE]
Command(op, at, path, want, read) ==
    [Idle EXCEPT !.op = op, !.at = at, !.path = path, !.want = want, !.read = read]
Answered == {"stored", "idempotent"}

Free == {c \in Caller : call[c].at \in {"idle", "done"} /\ made < MaxCalls[focus]}

Start(c, command) ==
    /\ c \in Free
    /\ made' = made + 1
    /\ call' = [call EXCEPT ![c] = command]

Update(c, command) == call' = [call EXCEPT ![c] = command] /\ UNCHANGED made
Goto(c, at) == Update(c, [call[c] EXCEPT !.at = at])
Ended(op, answer) == [Idle EXCEPT !.op = op, !.at = "done", !.answer = answer]
Finish(c, answer) ==
    Update(c, IF answer \in Answered THEN [call[c] EXCEPT !.at = "done", !.answer = answer]
              ELSE Ended(call[c].op, answer))
Refused(op) == Ended(op, "refused")

(* publishJsonExclusive *)
Publish(c) ==
    /\ call[c].at = "publish"
    /\ \/ /\ ~Has(call[c].path)
          /\ files' = With(call[c].path, call[c].want)
          /\ Finish(c, "stored")
       \/ /\ Has(call[c].path)
          /\ Goto(c, "compare")
          /\ UNCHANGED files
    /\ UNCHANGED outside

Killed(c) ==
    /\ call[c].at \notin {"idle", "done"}
    /\ Finish(c, "killed")
    /\ UNCHANGED <<files, outside>>

Found(c) == files[call[c].path]

(* What the loser finds; nothing, when the stores were removed meanwhile.  *)
Compare(c, same) ==
    /\ call[c].at = "compare"
    /\ Finish(c, IF ~Has(call[c].path) THEN "refused"
                 ELSE IF same THEN "idempotent" ELSE "conflict")
    /\ UNCHANGED <<files, outside>>

(* An answer tells the truth: whoever was told that a record is stored, or *)
(* that an equal one was, finds a record there that says what he wanted;   *)
(* so two callers who were both told so agree.  "same" is whether they are *)
(* equal in the sense of their store.                                      *)
AnswerHolds(c, same) ==
    call[c].answer \in Answered /\ ~call[c].overtaken => Has(call[c].path) /\ same
=============================================================================
