--------------------------- MODULE SessionRecorder ---------------------------
(***************************************************************************)
(* The recorder of runs (plugins/dal-run-record).  Listeners that run to   *)
(* their end project the events of a session into an accumulator; flush    *)
(* and dispose write what it holds into .dal/runs.  A write waits several  *)
(* times - for the digest of the policy, for the temporary file, for the   *)
(* rename - and the listeners run meanwhile.  Part of a record is taken    *)
(* when the write begins, part of it when the waiting is over.             *)
(*                                                                         *)
(* Accumulators are objects (a write keeps the one it began with, although *)
(* the map of sessions may forget it), so there is a heap of them.         *)
(***************************************************************************)
EXTENDS Integers, Sequences, FiniteSets

CONSTANTS Sessions, Writers,
          Scripts,      \* what may happen: events, life (of the sessions when the plugin is
                        \* loaded), installed (the service), faults (of the disk and the
                        \* process), and bounds: length, transitions
          Configured,   \* a controller observation is configured
          TraceLimit, MaxObjects, MaxWrites, \* bounds; the first is 512 in the code
          None

Kinds == {"turn/start", "turn/end", "tool/call", "tool/result",
          "system/message", "request/context", "request/header", "replace"}
Compared == {"tool/call", "tool/result", "system/message", "request/context", "request/header"}

ASSUME ScriptAssumption ==
    \A script \in Scripts :
      /\ script.life \in {"here", "away"} /\ script.installed \in BOOLEAN
      /\ \A event \in script.events :
           /\ event.type \in Kinds
           /\ event.type = "turn/end" => event.reason \in STRING
           /\ "fits" \in DOMAIN event <=> event.type \in Compared
           /\ event.type \in Compared => event.fits \in BOOLEAN
ASSUME NoneAssumption == None \notin Nat

VARIABLES heap,       \* sequence of accumulators
          sessions,   \* [session -> index of its accumulator or None]
          writers,    \* pending flush and dispose calls
          temporaries, records, \* the store: its files with their stages
          host,       \* [session -> life, seq, since: seq when it was announced, clouded: it
                      \* came back while it was being disposed of, or a write of it failed]
          runtime,    \* the generation service: installed, transition
          script,     \* the one of this behaviour
          deviated,   \* [session -> an event of it was not as configured]
          transitions, \* [session -> transitions since it was created]
          written     \* number of flushes and disposals, for the bound

recorderVars == <<heap, sessions, writers, temporaries, records, host, runtime, script, deviated, transitions, written>>
hostVars == <<host, runtime, script, deviated, transitions>>

Accumulator ==
    [seq |-> 0, events |-> 0, turns |-> 0, open |-> FALSE, reason |-> None,
     trace |-> <<>>, index |-> <<>>, calls |-> 0, unknownTool |-> FALSE,
     context |-> None, prompt |-> None, observed |-> FALSE, unprojected |-> FALSE,
     mismatch |-> FALSE, attempted |-> FALSE, binding |-> None]

(* accumulator(): the one of the session, or a new one.                    *)
Fresh(s) == sessions[s] = None
At(s) == IF Fresh(s) THEN Len(heap) + 1 ELSE sessions[s]
State(s) == IF Fresh(s) THEN Accumulator ELSE heap[sessions[s]]
Keep(s, state) ==
    /\ Fresh(s) => Len(heap) < MaxObjects
    /\ heap' = IF Fresh(s) THEN Append(heap, state) ELSE [heap EXCEPT ![At(s)] = state]
    /\ sessions' = [sessions EXCEPT ![s] = At(s)]

(***************************************************************************)
(* The host: a session is created, or comes back from its log in the same  *)
(* process; the runtime generation moves on.                               *)
(***************************************************************************)
Writing(s) == {w \in Writers : writers[w].session = s}

(* create: binds once, and only before the first event.                    *)
Create(s) ==
    LET state == State(s)
        binding == IF runtime.installed THEN runtime.transition ELSE None
    IN  /\ host[s].life = "away"
        /\ Keep(s, IF state.attempted THEN state
                   ELSE IF state.events > 0 THEN [state EXCEPT !.attempted = TRUE]
                   ELSE [state EXCEPT !.attempted = TRUE, !.binding = binding])
        /\ host' = [host EXCEPT ![s].life = "here", ![s].since = host[s].seq, ![s].clouded = Writing(s) # {}]
        /\ deviated' = [deviated EXCEPT ![s] = FALSE]
        /\ transitions' = [transitions EXCEPT ![s] = 0]
        /\ UNCHANGED <<writers, temporaries, records, runtime, script, written>>

(* The service counts a transition, or is taken away; one that comes back  *)
(* has counted one.                                                        *)
Transition ==
    /\ runtime.transition < script.transitions
    /\ \E installed \in BOOLEAN :
         runtime' = [installed |-> installed, transition |-> runtime.transition + 1]
    /\ transitions' = [s \in Sessions |-> transitions[s] + 1]
    /\ UNCHANGED <<heap, sessions, writers, temporaries, records, host, script, deviated, written>>

(***************************************************************************)
(* onEvent: what each kind of event does to the accumulator.  A call ID is *)
(* only meaningful within its turn.                                        *)
(***************************************************************************)
Key(state, event) == <<state.turns, event.id>>
Position(state, key) == IF key \in DOMAIN state.index THEN state.index[key] ELSE None
Known(state, key) == key \in DOMAIN state.index
Index(state, key, n) == [k \in DOMAIN state.index \cup {key} |-> IF k = key THEN n ELSE state.index[k]]

(* Mutant: a call ID that is used again belongs to the last call. *)
CallOverwrites(state, event) ==
    LET key == Key(state, event)
        room == Len(state.trace) < TraceLimit
    IN  [state EXCEPT
           !.mismatch = @ \/ ~event.fits, !.unknownTool = @ \/ ~event.fits, !.calls = @ + 1,
           !.trace = IF room THEN Append(@, [key |-> key, outcome |-> "unknown"]) ELSE @,
           !.index = IF room THEN Index(state, key, Len(state.trace) + 1) ELSE @]

(* tool/call: a call ID that is used again makes both calls unknown.       *)
Call(state, event) ==
    LET key == Key(state, event)
        room == Len(state.trace) < TraceLimit
        previous == Position(state, key)
        settled == IF previous = None THEN state.trace
                   ELSE [state.trace EXCEPT ![previous].outcome = "unknown"]
    IN  [state EXCEPT
           !.mismatch = @ \/ ~event.fits, !.unknownTool = @ \/ ~event.fits, !.calls = @ + 1,
           !.trace = IF room THEN Append(settled, [key |-> key, outcome |-> "unknown"]) ELSE settled,
           !.index = IF Known(state, key) THEN Index(state, key, None)
                     ELSE IF room THEN Index(state, key, Len(state.trace) + 1) ELSE @]

(* tool/result: settles the one call it belongs to, once.                  *)
Result(state, event) ==
    LET position == Position(state, Key(state, event))
    IN  [state EXCEPT !.trace = IF position # None /\ @[position].outcome = "unknown"
                     THEN [@ EXCEPT ![position].outcome = IF event.fits THEN "ok" ELSE "failed"] ELSE @]

(* system/message: only one prompt can be projected.                       *)
Prompt(state, event) ==
    LET unprojected == state.unprojected \/ state.observed
        digest == IF unprojected THEN "unknown" ELSE IF event.fits THEN "pinned" ELSE "other"
    IN  [state EXCEPT !.observed = TRUE, !.unprojected = unprojected, !.prompt = digest,
                      !.mismatch = @ \/ digest # "pinned"]

(* request/context and request/header: model and parameters.               *)
Context(state, event) ==
    [state EXCEPT !.context = IF event.fits THEN "pinned" ELSE "other", !.mismatch = @ \/ ~event.fits]

(* The prompt of a request/header counts until a system message came.      *)
Header(state, event) ==
    IF state.observed \/ state.unprojected THEN Context(state, event)
    ELSE [Context(state, event) EXCEPT !.prompt = IF event.fits THEN "pinned" ELSE "other"]

(* A surface replacement rewrites what went before.                        *)
Replace(state) == [state EXCEPT !.unprojected = TRUE, !.prompt = "unknown", !.mismatch = TRUE]

Turn(state) == [state EXCEPT !.turns = @ + 1, !.open = TRUE, !.reason = None]
EndTurn(state, reason) == [state EXCEPT !.open = FALSE, !.reason = reason]

Project(state, event) ==
    CASE event.type = "turn/start"     -> Turn(state)
      [] event.type = "turn/end"       -> EndTurn(state, event.reason)
      [] event.type = "tool/call"      -> Call(state, event)
      [] event.type = "tool/result"    -> Result(state, event)
      [] event.type = "system/message" -> Prompt(state, event)
      [] event.type = "request/context" -> Context(state, event)
      [] event.type = "request/header" -> Header(state, event)
      [] event.type = "replace"        -> Replace(state)

Deviates(event) ==
    event.type = "replace" \/ ("fits" \in DOMAIN event /\ event.type # "tool/result" /\ ~event.fits)

OnEvent(s) ==
    /\ host[s].life = "here" /\ host[s].seq < script.length
    /\ \E event \in script.events :
         /\ Keep(s, Project([State(s) EXCEPT !.seq = host[s].seq + 1, !.events = @ + 1], event))
         /\ deviated' = [deviated EXCEPT ![s] = @ \/ Deviates(event)]
    /\ host' = [host EXCEPT ![s].seq = @ + 1]
    /\ UNCHANGED <<writers, temporaries, records, runtime, script, transitions, written>>

(***************************************************************************)
(* flush and dispose.  A writer is the call, its accumulator and the       *)
(* record it makes: what is read when it begins, and the number of calls,  *)
(* read when the digest is there; the trace, read later still, is left out.*)
(***************************************************************************)
Resting == [at |-> "idle", session |-> None, state |-> None, record |-> None]
Recognised == {"completed", "error", "max-tokens", "blocked", "aborted"}
Outcome(reason) ==
    CASE reason \in {"error", "max-tokens"} -> "failed"
      [] reason = "blocked"                 -> "blocked"
      [] reason = "completed"               -> "succeeded"
      [] OTHER                              -> "aborted"

(* Mutant: that the generation is bound is enough. *)
StableOnceBound(state) == state.binding # None

(* generationStable; a service that is gone or replaced is not a number.   *)
GenerationStable(state) == runtime.installed /\ runtime.transition = state.binding

(* controllerObservationFor: does the record join the configured batch.    *)
Batched(state, final) ==
    /\ Configured /\ final
    /\ state.turns > 0 /\ ~state.open /\ state.reason \in Recognised
    /\ ~state.mismatch /\ ~state.unknownTool
    /\ state.context = "pinned" /\ state.prompt = "pinned"
    /\ state.binding # None => GenerationStable(state)

(* Mutant: a checkpoint and a final record have one name. *)
OneName(s, seq, final) == <<s, seq, TRUE>>

Name(s, seq, final) == <<s, seq, final>>

(* The beginning of writeRecord.  pending, deviated, transitions and       *)
(* clouded say what was the case then; the record does not have them.      *)
Snapshot(s, state, final) ==
    [name |-> Name(s, state.seq, final), stage |-> IF final THEN "final" ELSE "checkpoint",
     outcome |-> Outcome(state.reason), batched |-> Batched(state, final),
     stable |-> final /\ GenerationStable(state),
     calls |-> state.calls,
     then |-> [calls |-> state.calls, deviated |-> deviated[s], transitions |-> transitions[s],
               clouded |-> host[s].clouded]]

WriteRecord(w, s, final) ==
    /\ written < MaxWrites /\ written' = written + 1
    /\ writers' = [writers EXCEPT ![w] =
        [at |-> IF Batched(State(s), final) THEN "open" ELSE "digest", session |-> s,
         state |-> sessions[s], record |-> Snapshot(s, State(s), final)]]

(* Only a session with a closed turn is flushed.                           *)
Flush(w, s) ==
    /\ writers[w].at = "idle" /\ host[s].life = "here" /\ ~Fresh(s)
    /\ State(s).turns > 0 /\ ~State(s).open /\ State(s).reason # None
    /\ WriteRecord(w, s, FALSE)
    /\ UNCHANGED <<heap, sessions, temporaries, records, hostVars>>

(* A session without events is forgotten at once.                          *)
Dispose(w, s) ==
    /\ writers[w].at = "idle" /\ host[s].life = "here"
    /\ host' = [host EXCEPT ![s].life = "away"]
    /\ IF Fresh(s) \/ State(s).events = 0
       THEN sessions' = [sessions EXCEPT ![s] = None] /\ UNCHANGED <<writers, written>>
       ELSE WriteRecord(w, s, TRUE) /\ UNCHANGED sessions
    /\ UNCHANGED <<heap, temporaries, records, runtime, script, deviated, transitions>>

(* A disposal drops whatever accumulator its session has at the end; one   *)
(* that nobody refers to any more is garbage.                              *)
Finish(w) ==
    /\ writers' = [writers EXCEPT ![w] = Resting]
    /\ sessions' = IF writers[w].record.stage = "final"
                   THEN [sessions EXCEPT ![writers[w].session] = None] ELSE sessions
    /\ heap' = [n \in DOMAIN heap |-> IF \/ \E s \in Sessions : sessions'[s] = n
                                        \/ \E v \in Writers : writers'[v].state = n
                                     THEN heap[n] ELSE Accumulator]

(* The digest of the policy has been read; now the metrics are taken.      *)
Digest(w) ==
    /\ writers[w].at = "digest"
    /\ writers' = [writers EXCEPT ![w].at = "open", ![w].record.calls = heap[writers[w].state].calls]
    /\ UNCHANGED <<heap, sessions, temporaries, records, hostVars, written>>

(* The temporary file is opened exclusively.                               *)
Open(w) ==
    /\ writers[w].at = "open"
    /\ IF writers[w].record.name \in temporaries
       THEN Finish(w) /\ UNCHANGED temporaries
       ELSE /\ temporaries' = temporaries \cup {writers[w].record.name}
            /\ writers' = [writers EXCEPT ![w].at = "rename"]
            /\ UNCHANGED <<sessions, heap>>
    /\ UNCHANGED <<records, hostVars, written>>

Rename(w) ==
    /\ writers[w].at = "rename"
    /\ records' = {r \in records : r.name # writers[w].record.name}
                  \cup {[name |-> writers[w].record.name, stage |-> writers[w].record.stage]}
    /\ temporaries' = temporaries \ {writers[w].record.name}
    /\ Finish(w)
    /\ UNCHANGED <<hostVars, written>>

(* A full disk: a temporary file that could not be written stays.          *)
WriteFails(w) ==
    /\ script.faults /\ writers[w].at \in {"open", "rename"}
    /\ Finish(w)
    /\ host' = [host EXCEPT ![writers[w].session].clouded = TRUE]
    /\ UNCHANGED <<temporaries, records, runtime, script, deviated, transitions, written>>

(* The process ends; the next one has another pid for its temporary files, *)
(* and learns of the sessions again.                                       *)
Crash ==
    /\ script.faults
    /\ heap' = [n \in DOMAIN heap |-> Accumulator] /\ sessions' = [s \in Sessions |-> None]
    /\ writers' = [w \in Writers |-> Resting]
    /\ temporaries' = {}
    /\ host' = [s \in Sessions |-> [host[s] EXCEPT !.life = "away", !.clouded = TRUE]]
    /\ UNCHANGED <<records, runtime, script, deviated, transitions, written>>

(* The plugin may be loaded when a session is under way.                   *)
RecorderInit ==
    /\ heap = <<>> /\ sessions = [s \in Sessions |-> None]
    /\ writers = [w \in Writers |-> Resting]
    /\ temporaries = {} /\ records = {}
    /\ script \in Scripts
    /\ host = [s \in Sessions |-> [life |-> script.life, seq |-> 0, since |-> 0, clouded |-> FALSE]]
    /\ runtime = [installed |-> script.installed, transition |-> 0]
    /\ deviated = [s \in Sessions |-> FALSE] /\ transitions = [s \in Sessions |-> 0]
    /\ written = 0

RecorderNext ==
    \/ \E s \in Sessions : Create(s) \/ OnEvent(s)
    \/ \E w \in Writers : \/ \E s \in Sessions : Flush(w, s) \/ Dispose(w, s)
                         \/ Digest(w) \/ Open(w) \/ Rename(w) \/ WriteFails(w)
    \/ Transition \/ Crash

(***************************************************************************)
(* Properties.                                                             *)
(***************************************************************************)
(* A call in a trace has an outcome only if no other call shares its ID    *)
(* and turn, so an outcome is never that of another call, however calls    *)
(* and results interleave and repeat.                                      *)
TraceIsHonest ==
    \A n \in DOMAIN heap : \A i, j \in DOMAIN heap[n].trace :
      heap[n].trace[i].outcome # "unknown" /\ i # j => heap[n].trace[i].key # heap[n].trace[j].key

(* The records whose temporary files are complete and about to be renamed. *)
RecordsNow == {writers[w].record : w \in {v \in Writers : writers[v].at = "rename"}}

(* What a record claims holds of the whole session. Only final records     *)
(* join the batch, of sessions all of whose events were as configured,     *)
(* unless the session came back under a disposal; a record that is stable  *)
(* for its session is final, of a session bound before its first event     *)
(* that saw no transition until it ended.                                  *)
ClaimsHold ==
    \A r \in RecordsNow :
      /\ r.batched /\ ~r.then.clouded => r.stage = "final" /\ ~r.then.deviated
      /\ r.stable => r.stage = "final" /\ r.then.transitions = 0

(* A disposed session with events has its final record, whatever flushes   *)
(* run at the same time, unless the disk failed, the process ended, or it  *)
(* came back while it was being disposed of.                               *)
DisposedIsRecorded ==
    \A s \in Sessions :
      host[s].life = "away" /\ Writing(s) = {} /\ host[s].seq > host[s].since /\ ~host[s].clouded =>
        [name |-> Name(s, host[s].seq, TRUE), stage |-> "final"] \in records

(* What index.ts says of flush: an immutable record per sequence number.   *)
CheckpointsArePerSeq ==
    \A r \in RecordsNow : r.stage = "checkpoint" => r.calls = r.then.calls
=============================================================================
