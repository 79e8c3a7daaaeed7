--------------------------- MODULE PluginHost_proofs ---------------------------
(***************************************************************************)
(* Proofs about the two plugins of the host: the coordinator of candidates *)
(* and the recorder of runs, for any files, clients, sessions, writers,    *)
(* scripts and limits.                                                     *)
(***************************************************************************)
EXTENDS PluginHost, SequenceTheorems, TLAPS

-------------------------------------------------------------------------------
(* The coordinator: its inductive invariant.                               *)

Versions == Int
Client == [at : {"idle", "baseline", "compare"}, id : Candidates \cup {Nothing},
           seen : UNION {[F -> Versions] : F \in SUBSET CandidateFiles},
           left : SUBSET CandidateFiles,
           answer : {Nothing, "prepared", "failed", "rejected", "quarantined"}]

CandidateTypes ==
  /\ source \in [CandidateFiles -> Versions]
  /\ staged \in [CandidateFiles -> Versions \cup {Nothing, Edited}]
  /\ call \in [Clients -> Client]
  /\ busy \in BOOLEAN /\ touched \subseteq CandidateFiles
  /\ prepared # Nothing => prepared.baseline \in [CandidateFiles -> Versions]

(* One operation at a time. *)
Exclusive ==
  /\ \A c \in Clients : call[c].at # "idle" => busy
  /\ \A c, d \in Clients : call[c].at # "idle" /\ call[d].at # "idle" => c = d

(* A prepare writes only when it has read everything, and what it wrote is *)
(* there unless the agent edited it.                                       *)
Staging(c) ==
  call[c].at = "baseline" =>
    /\ call[c].left # CandidateFiles => Unread(c) = {}
    /\ \A f \in CandidateFiles \ call[c].left : staged[f] \in {call[c].seen[f], Edited}

(* What a prepare has not written yet is the remembered candidate's, but   *)
(* for what was touched before.                                            *)
Unwritten(f) == \A c \in Clients : call[c].at = "baseline" => f \in call[c].left
Untouched ==
  prepared # Nothing =>
    \A f \in CandidateFiles \ touched : Unwritten(f) => staged[f] = prepared.baseline[f]

CandidateInv ==
  /\ CandidateTypes /\ Exclusive
  /\ \A c \in Clients : Staging(c)
  /\ Untouched

-------------------------------------------------------------------------------
(* The recorder: its inductive invariant.                                  *)

CallIds == UNION {{event.id : event \in {e \in one.events : e.type \in {"tool/call", "tool/result"}}} :
                    one \in Scripts}
CallKey == Nat \X CallIds
Positions == UNION {[K -> Nat \cup {None}] : K \in SUBSET CallKey}
Verdicts == {None, "pinned", "other", "unknown"}
TraceEntry == [key : CallKey, outcome : {"unknown", "ok", "failed"}]
Accumulators ==
  [seq : Nat, events : Nat, turns : Nat, open : BOOLEAN, reason : STRING \cup {None},
   trace : Seq(TraceEntry), index : Positions, calls : Nat, unknownTool : BOOLEAN,
   context : Verdicts, prompt : Verdicts, observed : BOOLEAN, unprojected : BOOLEAN,
   mismatch : BOOLEAN, attempted : BOOLEAN, binding : Nat \cup {None}]
Names == Sessions \X Nat \X BOOLEAN
Stages == {"final", "checkpoint"}
Drafts ==
  [name : Names, stage : Stages, outcome : {"failed", "blocked", "succeeded", "aborted"},
   batched : BOOLEAN, stable : BOOLEAN, calls : Nat,
   then : [calls : Nat, deviated : BOOLEAN, transitions : Nat, clouded : BOOLEAN]]

(* The index knows every call of the trace; it has the position of a call  *)
(* that is the only one with its key, and only such a call has an outcome. *)
Honest(a) ==
  /\ \A i \in DOMAIN a.trace :
       /\ a.trace[i].key \in DOMAIN a.index
       /\ a.trace[i].outcome # "unknown" => a.index[a.trace[i].key] = i
  /\ \A key \in DOMAIN a.index :
       a.index[key] # None =>
         /\ a.index[key] \in DOMAIN a.trace /\ a.trace[a.index[key]].key = key
         /\ \A j \in DOMAIN a.trace : a.trace[j].key = key => j = a.index[key]

RecorderTypes ==
  /\ heap \in Seq(Accumulators)
  /\ sessions \in [Sessions -> Nat \cup {None}]
  /\ \A s \in Sessions : sessions[s] # None => sessions[s] \in DOMAIN heap
  /\ DOMAIN writers = Writers
  /\ \A w \in Writers :
       \/ writers[w] = Resting
       \/ /\ writers[w] \in [at : {"digest", "open", "rename"}, session : Sessions, state : Nat, record : Drafts]
          /\ writers[w].state \in DOMAIN heap
  /\ temporaries \subseteq Names
  /\ records \subseteq [name : Names, stage : Stages]
  /\ host \in [Sessions -> [life : {"here", "away"}, seq : Nat, since : Nat, clouded : BOOLEAN]]
  /\ runtime \in [installed : BOOLEAN, transition : Nat]
  /\ script \in Scripts
  /\ deviated \in [Sessions -> BOOLEAN]
  /\ transitions \in [Sessions -> Nat]

(* No accumulator belongs to two sessions; a binding is of the past, and   *)
(* as many transitions ago at least as its session has seen.               *)
HeapFits ==
  /\ \A n \in DOMAIN heap : /\ Honest(heap[n])
                            /\ heap[n].binding # None => heap[n].binding <= runtime.transition
  /\ \A s, t \in Sessions : sessions[s] = sessions[t] /\ sessions[s] # None => s = t
  /\ \A s \in Sessions :
       sessions[s] # None =>
         /\ heap[sessions[s]].seq <= host[s].seq
         /\ heap[sessions[s]].binding # None =>
              heap[sessions[s]].binding + transitions[s] <= runtime.transition

(* What a record says follows from what was the case when it was begun.    *)
DraftFits(w) ==
  writers[w].at # "idle" =>
    LET r == writers[w].record
    IN  /\ r.name[1] = writers[w].session /\ r.name[2] <= host[r.name[1]].seq
        /\ r.stage = IF r.name[3] THEN "final" ELSE "checkpoint"
        /\ r.batched /\ ~r.then.clouded => r.stage = "final" /\ ~r.then.deviated
        /\ r.stable => r.stage = "final" /\ r.then.transitions = 0

Closing(s) == {w \in Writers : writers[w].at # "idle" /\ writers[w].session = s
                               /\ writers[w].record.stage = "final"}
LastName(s) == <<s, host[s].seq, TRUE>>
New(s) == host[s].seq > host[s].since

(* A session that is here, and did not come back under a disposal, is not  *)
(* being disposed of and has all its events in its accumulator; one that   *)
(* is away is disposed of once, and has its record or is about to get it.  *)
SessionFits(s) ==
  ~host[s].clouded =>
    /\ host[s].life = "here" =>
         /\ Closing(s) = {}
         /\ New(s) => /\ sessions[s] # None
                      /\ heap[sessions[s]].seq = host[s].seq /\ heap[sessions[s]].events > 0
                      /\ LastName(s) \notin temporaries
         /\ deviated[s] => sessions[s] # None /\ heap[sessions[s]].mismatch
    /\ \A v, w \in Closing(s) : v = w
    /\ New(s) /\ host[s].life = "away" =>
         /\ \/ [name |-> LastName(s), stage |-> "final"] \in records
            \/ \E w \in Closing(s) : writers[w].record.name = LastName(s)
         /\ LastName(s) \in temporaries =>
              \E w \in Closing(s) : writers[w].at = "rename" /\ writers[w].record.name = LastName(s)

RecorderInv ==
  /\ RecorderTypes /\ HeapFits
  /\ \A w \in Writers : DraftFits(w)
  /\ \A s \in Sessions : SessionFits(s) /\ host[s].since <= host[s].seq
  /\ \A name \in temporaries : name[2] <= host[name[1]].seq
  /\ \A r \in records : r.stage = IF r.name[3] THEN "final" ELSE "checkpoint"

-------------------------------------------------------------------------------
(* The coordinator's steps.                                                *)

(* No file is read yet. *)
LEMMA NothingSeen == <<>> \in UNION {[F -> Versions] : F \in SUBSET CandidateFiles}
<1>1. <<>> \in [{} -> Versions] /\ {} \in SUBSET CandidateFiles
  OBVIOUS
<1> QED BY <1>1

(* A call that begins. *)
LEMMA EnteredIsClient ==
  ASSUME NEW at \in {"idle", "baseline", "compare"}, NEW id \in Candidates \cup {Nothing}
  PROVE  /\ [Waiting EXCEPT !.at = at, !.id = id] \in Client
         /\ [Waiting EXCEPT !.at = at, !.id = id].at = at
         /\ [Waiting EXCEPT !.at = at, !.id = id].left = CandidateFiles
  BY NothingSeen DEF Waiting, Client

(* A call that ended. *)
LEMMA LeftIsClient ==
  ASSUME NEW answer \in {Nothing, "prepared", "failed", "rejected", "quarantined"}
  PROVE  /\ [Waiting EXCEPT !.answer = answer] \in Client
         /\ [Waiting EXCEPT !.answer = answer].at = "idle"
  BY NothingSeen DEF Waiting, Client

(* Prepare and reject begin only when nothing is under way. *)
LEMMA EnterKeeps ==
  ASSUME CandidateInv, NEW c \in Clients, NEW at \in {"baseline", "compare"},
         NEW id \in Candidates \cup {Nothing}, Enter(c, at, id),
         UNCHANGED <<source, staged, generation, prepared, edits, touched>>
  PROVE  CandidateInv'
<1> DEFINE new == [Waiting EXCEPT !.at = at, !.id = id]
<1>1. new \in Client /\ new.at = at /\ new.left = CandidateFiles
  BY EnteredIsClient
<1>2. ~busy /\ call' = [call EXCEPT ![c] = new] /\ busy'
  BY DEF Enter
<1>3. \A d \in Clients : call[d].at = "idle"
  BY <1>2 DEF CandidateInv, Exclusive
<1> HIDE DEF new
<1>4. CandidateTypes'
  BY <1>1, <1>2 DEF CandidateInv, CandidateTypes
<1>5. call'[c] = new /\ \A d \in Clients : d # c => call'[d].at = "idle"
  BY <1>2, <1>3 DEF CandidateInv, CandidateTypes
<1>6. Exclusive'
  BY <1>2, <1>5 DEF Exclusive
<1>7. ASSUME NEW d \in Clients
      PROVE  Staging(d)'
  BY <1>1, <1>5 DEF Staging
<1>8. Untouched'
  BY <1>3 DEF CandidateInv, Untouched, Unwritten
<1> QED BY <1>4, <1>6, <1>7, <1>8 DEF CandidateInv

(* The one operation ends. *)
LEMMA LeaveKeeps ==
  ASSUME CandidateInv, NEW c \in Clients, call[c].at # "idle",
         NEW answer \in {"prepared", "failed", "rejected", "quarantined"}, Leave(c, answer),
         UNCHANGED <<source, staged>>, touched' \subseteq CandidateFiles,
         prepared' # Nothing => prepared'.baseline \in [CandidateFiles -> Versions],
         prepared' # Nothing =>
           \A f \in CandidateFiles \ touched' : staged[f] = prepared'.baseline[f]
  PROVE  CandidateInv'
<1> DEFINE new == [Waiting EXCEPT !.answer = answer]
<1>1. new \in Client /\ new.at = "idle"
  BY LeftIsClient
<1>2. call' = [call EXCEPT ![c] = new] /\ busy' = FALSE
  BY DEF Leave
<1> HIDE DEF new
<1>3. CandidateTypes'
  BY <1>1, <1>2 DEF CandidateInv, CandidateTypes
<1>4. \A d \in Clients : call'[d].at = "idle"
  BY <1>1, <1>2 DEF CandidateInv, CandidateTypes, Exclusive
<1> QED BY <1>3, <1>4 DEF CandidateInv, Exclusive, Staging, Untouched

(* A step of the one operation that stays at it. *)
LEMMA AdvanceKeeps ==
  ASSUME CandidateInv, NEW c \in Clients, call[c].at # "idle",
         NEW new \in Client, new.at = call[c].at, call' = [call EXCEPT ![c] = new],
         UNCHANGED <<source, prepared, busy, touched>>,
         staged' \in [CandidateFiles -> Versions \cup {Nothing, Edited}],
         new.at # "baseline" => staged' = staged,
         new.left \subseteq call[c].left, \A f \in new.left : staged'[f] = staged[f],
         Staging(c)'
  PROVE  CandidateInv'
<1>1. CandidateTypes'
  BY DEF CandidateInv, CandidateTypes
<1>2. \A d \in Clients : call'[d].at = call[d].at
  BY DEF CandidateInv, CandidateTypes
<1>3. \A d \in Clients : d # c => call[d].at = "idle"
  BY DEF CandidateInv, Exclusive
<1>4. \A d \in Clients : Staging(d)'
  BY <1>2, <1>3 DEF Staging
<1>5. call'[c] = new /\ \A d \in Clients : d # c => call'[d].at = "idle"
  BY <1>2, <1>3 DEF CandidateInv, CandidateTypes
<1>6. ASSUME NEW f \in CandidateFiles, Unwritten(f)'
      PROVE  Unwritten(f) /\ staged'[f] = staged[f]
  <2>1. CASE new.at = "baseline"
    <3>1. f \in new.left
      BY <1>5, <1>6, <2>1 DEF Unwritten
    <3> QED BY <1>3, <3>1 DEF Unwritten
  <2>2. CASE new.at # "baseline"
    BY <1>3, <2>2 DEF Unwritten
  <2> QED BY <2>1, <2>2
<1>7. Untouched'
  BY <1>6 DEF CandidateInv, Untouched
<1> QED BY <1>1, <1>2, <1>4, <1>7 DEF CandidateInv, Exclusive, CandidateTypes

(* Each step of a client. *)
LEMMA ClientSteps ==
  ASSUME CandidateInv, NEW c \in Clients,
         \/ \E id \in Candidates : Prepare(c, id)
         \/ Reject(c) \/ ReadLive(c) \/ Stage(c) \/ Remember(c) \/ Fail(c)
         \/ FinishReject(c) \/ ApplyPrepared(c)
  PROVE  CandidateInv'
<1>1. CandidateTypes /\ call[c] \in Client /\ call[c].seen \in UNION {[F -> Versions] : F \in SUBSET CandidateFiles}
  BY DEF CandidateInv, CandidateTypes, Client
<1>2. ASSUME NEW id \in Candidates, Prepare(c, id)
      PROVE  CandidateInv'
  BY <1>2, EnterKeeps DEF Prepare
<1>3. CASE Reject(c)
  BY <1>3, EnterKeeps DEF Reject
<1>4. CASE ReadLive(c)
  <2>1. PICK f \in Unread(c) :
          call' = [call EXCEPT ![c].seen = [g \in DOMAIN @ \cup {f} |-> IF g = f THEN source[f] ELSE @[g]]]
    BY <1>4 DEF ReadLive
  <2> DEFINE seen == [g \in DOMAIN call[c].seen \cup {f} |-> IF g = f THEN source[f] ELSE call[c].seen[g]]
             new == [call[c] EXCEPT !.seen = seen]
  <2>2. PICK F \in SUBSET CandidateFiles : call[c].seen \in [F -> Versions]
    BY <1>1
  <2>3. f \in CandidateFiles /\ source[f] \in Versions /\ f \notin F
    BY <1>1, <2>2 DEF Unread, CandidateTypes
  <2>4. seen \in [F \cup {f} -> Versions]
    BY <2>2, <2>3
  <2>5. seen \in UNION {[G -> Versions] : G \in SUBSET CandidateFiles}
    BY <2>2, <2>3, <2>4
  <2> HIDE DEF seen
  <2>6. new \in Client /\ new.at = call[c].at /\ new.left = call[c].left /\ new.seen = seen
    BY <1>1, <2>5 DEF Client
  <2>7. call' = [call EXCEPT ![c] = new]
    BY <1>1, <2>1 DEF CandidateTypes, Client, seen
  <2>8. call[c].at # "idle" /\ Unread(c) # {} /\ UNCHANGED <<source, staged, prepared, busy, touched>>
    BY <1>4 DEF ReadLive
  <2>9. Staging(c)'
    <3>1. call[c].at = "baseline" => call[c].left = CandidateFiles
      BY <2>8 DEF CandidateInv, Staging
    <3>2. call'[c] = new
      BY <1>1, <2>7 DEF CandidateTypes
    <3> HIDE DEF new
    <3> QED BY <3>1, <3>2, <2>6 DEF Staging
  <2>10. new.left \subseteq call[c].left /\ \A g \in new.left : staged'[g] = staged[g]
    BY <2>6, <2>8
  <2> HIDE DEF new
  <2> QED BY <1>1, <2>6, <2>7, <2>8, <2>9, <2>10, AdvanceKeeps DEF CandidateTypes
<1>5. CASE Stage(c)
  <2>1. PICK f \in call[c].left : /\ staged' = [staged EXCEPT ![f] = call[c].seen[f]]
                                  /\ call' = [call EXCEPT ![c].left = @ \ {f}]
    BY <1>5 DEF Stage
  <2>2. call[c].at = "baseline" /\ Unread(c) = {} /\ UNCHANGED <<source, prepared, busy, touched>>
    BY <1>5 DEF Stage
  <2> DEFINE new == [call[c] EXCEPT !.left = call[c].left \ {f}]
  <2>3. /\ new \in Client /\ new.at = call[c].at /\ new.left = call[c].left \ {f}
        /\ new.seen = call[c].seen /\ call' = [call EXCEPT ![c] = new]
    BY <1>1, <2>1 DEF CandidateTypes, Client
  <2>4. f \in CandidateFiles /\ call[c].seen[f] \in Versions
    <3>1. f \in CandidateFiles /\ CandidateFiles \subseteq DOMAIN call[c].seen
      BY <1>1, <2>1, <2>2 DEF Unread, Client
    <3> QED BY <1>1, <3>1
  <2>5. staged' \in [CandidateFiles -> Versions \cup {Nothing, Edited}]
    BY <1>1, <2>1, <2>4 DEF CandidateTypes
  <2>6. call'[c] = new
    BY <1>1, <2>3 DEF CandidateTypes
  <2> HIDE DEF new
  <2>7. Unread(c)' = {}
    BY <2>2, <2>3, <2>6 DEF Unread
  <2>8. ASSUME NEW g \in CandidateFiles \ new.left
        PROVE  staged'[g] \in {new.seen[g], Edited}
    <3>1. CASE g = f
      BY <1>1, <2>1, <2>3, <2>4, <3>1 DEF CandidateTypes
    <3>2. CASE g # f
      <4>1. g \in CandidateFiles \ call[c].left /\ staged'[g] = staged[g]
        BY <1>1, <2>1, <2>3, <3>2 DEF CandidateTypes
      <4> QED BY <2>2, <2>3, <4>1 DEF CandidateInv, Staging
    <3> QED BY <3>1, <3>2
  <2>9. Staging(c)'
    BY <2>6, <2>7, <2>8 DEF Staging
  <2>10. new.left \subseteq call[c].left /\ \A g \in new.left : staged'[g] = staged[g]
    BY <1>1, <2>1, <2>3 DEF CandidateTypes, Client
  <2> QED BY <2>2, <2>3, <2>5, <2>9, <2>10, AdvanceKeeps
<1>6. CASE Remember(c)
  <2>1. /\ call[c].at = "baseline" /\ Unread(c) = {} /\ call[c].left = {}
        /\ prepared' = [id |-> call[c].id, baseline |-> call[c].seen]
        /\ touched' = {f \in CandidateFiles : staged[f] = Edited}
        /\ Leave(c, "prepared") /\ UNCHANGED <<source, staged>>
    BY <1>6 DEF Remember
  <2>2. call[c].seen \in [CandidateFiles -> Versions]
    BY <1>1, <2>1 DEF Unread
  <2>3. \A f \in CandidateFiles \ touched' : staged[f] = call[c].seen[f]
    BY <2>1 DEF CandidateInv, Staging
  <2> QED BY <2>1, <2>2, <2>3, LeaveKeeps
<1>7. CASE Fail(c)
  <2>1. /\ call[c].at # "idle" /\ Leave(c, "failed") /\ UNCHANGED <<source, staged, prepared>>
        /\ touched' = touched \cup (CandidateFiles \ call[c].left)
    BY <1>7 DEF Fail
  <2>2. \A f \in call[c].left : Unwritten(f)
    BY <2>1 DEF CandidateInv, Exclusive, Unwritten
  <2>3. prepared' # Nothing => \A f \in CandidateFiles \ touched' : staged[f] = prepared'.baseline[f]
    BY <2>1, <2>2 DEF CandidateInv, Untouched
  <2>4. touched' \subseteq CandidateFiles /\ (prepared' # Nothing => prepared'.baseline \in [CandidateFiles -> Versions])
    BY <1>1, <2>1 DEF CandidateTypes
  <2> QED BY <2>1, <2>3, <2>4, LeaveKeeps
<1>8. CASE FinishReject(c)
  <2>1. call[c].at = "compare" /\ UNCHANGED <<source, staged, touched>>
    BY <1>8 DEF FinishReject
  <2>2. PICK answer \in {"rejected", "quarantined"} : Leave(c, answer) /\ prepared' \in {Nothing, prepared}
    BY <1>8 DEF FinishReject
  <2>3. \A f \in CandidateFiles : Unwritten(f)
    BY <2>1 DEF CandidateInv, Exclusive, Unwritten
  <2>4. prepared' # Nothing => \A f \in CandidateFiles \ touched' : staged[f] = prepared'.baseline[f]
    BY <2>1, <2>2, <2>3 DEF CandidateInv, Untouched
  <2>5. touched' \subseteq CandidateFiles /\ (prepared' # Nothing => prepared'.baseline \in [CandidateFiles -> Versions])
    BY <1>1, <2>1, <2>2 DEF CandidateTypes
  <2> QED BY <2>1, <2>2, <2>4, <2>5, LeaveKeeps
<1>9. CASE ApplyPrepared(c)
  <2> DEFINE new == [call[c] EXCEPT !.answer = "quarantined"]
  <2>1. new \in Client /\ new.at = "idle" /\ call[c].at = "idle" /\ call' = [call EXCEPT ![c] = new]
    BY <1>1, <1>9 DEF ApplyPrepared, Client, CandidateTypes
  <2>2. UNCHANGED <<source, staged, prepared, busy, touched>>
    BY <1>9 DEF ApplyPrepared
  <2> HIDE DEF new
  <2>3. CandidateTypes'
    BY <1>1, <2>1, <2>2 DEF CandidateTypes
  <2>4. \A d \in Clients : call'[d].at = call[d].at /\ (d # c => call'[d] = call[d])
    BY <1>1, <2>1 DEF CandidateTypes
  <2>5. \A d \in Clients : Staging(d)'
    BY <2>1, <2>2, <2>4 DEF Staging, CandidateInv, Unread
  <2>6. call'[c] = new /\ Untouched'
    BY <1>1, <2>1, <2>2, <2>4 DEF CandidateInv, CandidateTypes, Untouched, Unwritten
  <2> QED BY <2>2, <2>3, <2>4, <2>5, <2>6 DEF CandidateInv, Exclusive
<1> QED BY <1>2, <1>3, <1>4, <1>5, <1>6, <1>7, <1>8, <1>9

(* CandidateInv is inductive. *)
LEMMA CandidateInductive ==
  ASSUME CandidateInv, CandidateNext \/ UNCHANGED candidateVars
  PROVE  CandidateInv'
<1>1. ASSUME NEW readable \in BOOLEAN, ObserveReload(readable)
      PROVE  CandidateInv'
  BY <1>1 DEF ObserveReload, CandidateInv, CandidateTypes, Exclusive, Staging, Unread, Untouched, Unwritten
<1>2. ASSUME NEW f \in CandidateFiles, EditLive(f)
      PROVE  CandidateInv'
  <2>1. source' \in [CandidateFiles -> Versions]
    BY <1>2, BoundAssumption DEF EditLive, CandidateInv, CandidateTypes, Versions
  <2> QED BY <1>2, <2>1 DEF EditLive, CandidateInv, CandidateTypes, Exclusive, Staging, Unread, Untouched, Unwritten
<1>3. ASSUME NEW f \in CandidateFiles, EditStaged(f)
      PROVE  CandidateInv'
  <2>1. staged' \in [CandidateFiles -> Versions \cup {Nothing, Edited}]
    BY <1>3 DEF EditStaged, CandidateInv, CandidateTypes
  <2>2. \A g \in CandidateFiles : staged'[g] \in {staged[g], Edited}
    BY <1>3 DEF EditStaged, CandidateInv, CandidateTypes
  <2>3. \A c \in Clients : Staging(c)'
    BY <1>3, <2>2 DEF EditStaged, CandidateInv, Staging, Unread
  <2>4. \A g \in CandidateFiles \ touched' : staged'[g] = staged[g] /\ g \notin touched
    BY <1>3 DEF EditStaged, CandidateInv, CandidateTypes
  <2>5. Untouched'
    BY <1>3, <2>4 DEF EditStaged, CandidateInv, Untouched, Unwritten
  <2> QED BY <1>3, <2>1, <2>3, <2>5 DEF EditStaged, CandidateInv, CandidateTypes, Exclusive
<1>4. CASE UNCHANGED candidateVars
  BY <1>4 DEF candidateVars, CandidateInv, CandidateTypes, Exclusive, Staging, Unread, Untouched, Unwritten
<1> QED BY <1>1, <1>2, <1>3, <1>4, ClientSteps DEF CandidateNext

(* It holds at the start. *)
LEMMA CandidateStarts == CandidateInit => CandidateInv
<1> SUFFICES ASSUME CandidateInit
             PROVE  CandidateInv
  OBVIOUS
<1>1. Waiting \in Client /\ Waiting.at = "idle"
  BY NothingSeen DEF Waiting, Client
<1>2. CandidateTypes
  <2>1. source \in [CandidateFiles -> Versions]
    BY DEF CandidateInit, Versions
  <2>2. staged \in [CandidateFiles -> Versions \cup {Nothing, Edited}]
    BY DEF CandidateInit
  <2>3. call \in [Clients -> Client]
    BY <1>1 DEF CandidateInit
  <2> QED BY <2>1, <2>2, <2>3 DEF CandidateInit, CandidateTypes
<1> QED BY <1>1, <1>2 DEF CandidateInit, CandidateInv, Exclusive, Staging, Untouched

(* Two prepares never mix their files, and one that fails half way         *)
(* replaces no file it had not come to: all the others are the remembered  *)
(* candidate's (StagedIsPrepared; #exclusive, prepare and reject of        *)
(* dal-hmr-candidate).                                                     *)
THEOREM CandidatesDoNotMix == PluginSpec => []StagedIsPrepared
<1>1. CandidateInv => StagedIsPrepared
  BY DEF CandidateInv, Exclusive, StagedIsPrepared, Untouched, Unwritten
<1>2. PluginInit => CandidateInv
  BY CandidateStarts DEF PluginInit
<1>3. CandidateInv /\ [PluginNext]_hostedVars => CandidateInv'
  BY CandidateInductive DEF PluginNext, hostedVars
<1> QED BY <1>1, <1>2, <1>3, PTL DEF PluginSpec

-------------------------------------------------------------------------------
(* The recorder: what an event does to an accumulator.                     *)

Follows(a, b) == /\ b \in Accumulators /\ Honest(b)
                 /\ b.seq = a.seq /\ b.events = a.events /\ b.binding = a.binding
                 /\ a.mismatch => b.mismatch

(* An event that leaves the trace alone. *)
LEMMA PlainFollows ==
  ASSUME NEW a \in Accumulators, Honest(a), NEW b \in Accumulators,
         b.trace = a.trace, b.index = a.index,
         b.seq = a.seq, b.events = a.events, b.binding = a.binding, a.mismatch => b.mismatch
  PROVE  Follows(a, b)
  BY DEF Follows, Honest

(* What the turns and a replacement do. *)
LEMMA TurnEvents ==
  ASSUME NEW a \in Accumulators, Honest(a)
  PROVE  /\ Follows(a, Turn(a)) /\ Follows(a, Replace(a)) /\ Replace(a).mismatch
         /\ \A reason \in STRING : Follows(a, EndTurn(a, reason))
<1>1. Follows(a, Turn(a))
  <2>1. a.turns + 1 \in Nat /\ None \in STRING \cup {None}
    BY DEF Accumulators
  <2>2. Turn(a) = [a EXCEPT !.turns = a.turns + 1, !.open = TRUE, !.reason = None]
    BY DEF Turn, Accumulators
  <2>3. Turn(a) \in Accumulators
    BY <2>1, <2>2 DEF Accumulators
  <2> QED BY <2>3, PlainFollows DEF Turn, Accumulators
<1>2. ASSUME NEW reason \in STRING
      PROVE  Follows(a, EndTurn(a, reason))
  <2>1. EndTurn(a, reason) \in Accumulators
    BY DEF EndTurn, Accumulators
  <2> QED BY <2>1, PlainFollows DEF EndTurn, Accumulators
<1>3. Follows(a, Replace(a)) /\ Replace(a).mismatch
  <2>1. Replace(a) \in Accumulators
    BY DEF Replace, Accumulators, Verdicts
  <2> QED BY <2>1, PlainFollows DEF Replace, Accumulators
<1> QED BY <1>1, <1>2, <1>3

(* What the events that are compared with the configuration do. *)
LEMMA PlainEvents ==
  ASSUME NEW a \in Accumulators, Honest(a), NEW event, event.fits \in BOOLEAN
  PROVE  /\ Follows(a, Prompt(a, event)) /\ (~event.fits => Prompt(a, event).mismatch)
         /\ Follows(a, Context(a, event)) /\ (~event.fits => Context(a, event).mismatch)
         /\ Follows(a, Header(a, event)) /\ (~event.fits => Header(a, event).mismatch)
<1>1. Follows(a, Prompt(a, event)) /\ (~event.fits => Prompt(a, event).mismatch)
  <2>1. Prompt(a, event) \in Accumulators
    BY DEF Prompt, Accumulators, Verdicts
  <2>2. Prompt(a, event).mismatch = (a.mismatch \/ a.unprojected \/ a.observed \/ ~event.fits)
    BY DEF Prompt, Accumulators
  <2>3. /\ Prompt(a, event).trace = a.trace /\ Prompt(a, event).index = a.index
        /\ Prompt(a, event).seq = a.seq /\ Prompt(a, event).events = a.events
        /\ Prompt(a, event).binding = a.binding
    BY DEF Prompt, Accumulators
  <2> QED BY <2>1, <2>2, <2>3, PlainFollows
<1>2. Follows(a, Context(a, event)) /\ (~event.fits => Context(a, event).mismatch)
  <2>1. Context(a, event) \in Accumulators
    BY DEF Context, Accumulators, Verdicts
  <2> QED BY <2>1, PlainFollows DEF Context, Accumulators
<1>3. Follows(a, Header(a, event)) /\ (~event.fits => Header(a, event).mismatch)
  <2> DEFINE b == Context(a, event)
             p == IF event.fits THEN "pinned" ELSE "other"
  <2>1. b \in Accumulators /\ p \in Verdicts
    BY <1>2 DEF Follows, Verdicts
  <2>2. Header(a, event) \in {b, [b EXCEPT !.prompt = p]}
    BY DEF Header
  <2> HIDE DEF b, p
  <2>3. CASE Header(a, event) = [b EXCEPT !.prompt = p]
    <3>1. Header(a, event) \in Accumulators
      BY <2>1, <2>3 DEF Accumulators
    <3>2. /\ Header(a, event).trace = b.trace /\ Header(a, event).index = b.index
          /\ Header(a, event).seq = b.seq /\ Header(a, event).events = b.events
          /\ Header(a, event).binding = b.binding /\ Header(a, event).mismatch = b.mismatch
      BY <2>1, <2>3 DEF Accumulators
    <3>3. Follows(a, b) /\ (~event.fits => b.mismatch)
      BY <1>2 DEF b
    <3> QED BY <3>1, <3>2, <3>3 DEF Follows, Honest
  <2>4. CASE Header(a, event) = b
    BY <1>2, <2>4 DEF b
  <2> QED BY <2>2, <2>3, <2>4
<1> QED BY <1>1, <1>2, <1>3

(* A call makes every call with its key unknown, and a result settles a    *)
(* call that is the only one with its key.                                 *)
LEMMA ToolEvents ==
  ASSUME NEW a \in Accumulators, Honest(a), NEW event, event.fits \in BOOLEAN, event.id \in CallIds
  PROVE  /\ Follows(a, Call(a, event)) /\ (~event.fits => Call(a, event).mismatch)
         /\ Follows(a, Result(a, event))
<1> DEFINE key == Key(a, event)
           position == Position(a, key)
<1>1. /\ key \in CallKey /\ a.trace \in Seq(TraceEntry) /\ DOMAIN a.trace = 1..Len(a.trace)
      /\ Len(a.trace) \in Nat /\ a.turns \in Nat
  BY DEF Key, CallKey, Accumulators
<1>2. PICK K \in SUBSET CallKey : a.index \in [K -> Nat \cup {None}]
  BY DEF Accumulators, Positions
<1>3. position # None => /\ position \in DOMAIN a.trace /\ key \in K
                         /\ a.index[key] = position /\ a.trace[position].key = key
                         /\ \A j \in DOMAIN a.trace : a.trace[j].key = key => j = position
  BY <1>2 DEF Position, Honest
<1>4. Follows(a, Result(a, event))
  <2> DEFINE o == IF event.fits THEN "ok" ELSE "failed"
             settled == [a.trace EXCEPT ![position].outcome = o]
             b == Result(a, event)
  <2>1. CASE position # None /\ a.trace[position].outcome = "unknown"
    <3>1. b = [a EXCEPT !.trace = settled]
      BY <2>1 DEF Result, Accumulators
    <3>2. /\ settled \in Seq(TraceEntry) /\ DOMAIN settled = DOMAIN a.trace
          /\ \A i \in DOMAIN a.trace : settled[i].key = a.trace[i].key
          /\ \A i \in DOMAIN a.trace : i # position => settled[i].outcome = a.trace[i].outcome
      <4>1. \A i \in DOMAIN a.trace : a.trace[i] \in TraceEntry
        BY <1>1
      <4>2. \A i \in DOMAIN a.trace :
              settled[i] = IF i = position THEN [a.trace[i] EXCEPT !.outcome = o] ELSE a.trace[i]
        BY <1>3, <2>1
      <4>3. \A i \in DOMAIN a.trace : settled[i] \in TraceEntry /\ settled[i].key = a.trace[i].key
              /\ (i # position => settled[i].outcome = a.trace[i].outcome)
        BY <4>1, <4>2 DEF TraceEntry
      <4>4. settled \in [1..Len(a.trace) -> TraceEntry]
        BY <1>1, <4>3
      <4>5. settled \in Seq(TraceEntry)
        BY <1>1, <4>4, IsASeq
      <4> QED BY <4>3, <4>5
    <3> HIDE DEF settled
    <3>3. b \in Accumulators
      BY <3>1, <3>2 DEF Accumulators
    <3>4. b.trace = settled /\ b.index = a.index /\ b.seq = a.seq /\ b.events = a.events
          /\ b.binding = a.binding /\ b.mismatch = a.mismatch
      BY <3>1 DEF Accumulators
    <3> HIDE DEF b
    <3>5. Honest(b)
      BY <1>3, <2>1, <3>2, <3>4 DEF Honest
    <3> QED BY <3>3, <3>4, <3>5 DEF Follows, b
  <2>2. CASE ~(position # None /\ a.trace[position].outcome = "unknown")
    <3>1. Result(a, event) = a
      BY <2>2 DEF Result, Accumulators
    <3> QED BY <3>1 DEF Follows
  <2> QED BY <2>1, <2>2
<1>5. Follows(a, Call(a, event)) /\ (~event.fits => Call(a, event).mismatch)
  <2> DEFINE room == Len(a.trace) < TraceLimit
             settled == IF position = None THEN a.trace ELSE [a.trace EXCEPT ![position].outcome = "unknown"]
             trace == IF room THEN Append(settled, [key |-> key, outcome |-> "unknown"]) ELSE settled
             index == IF Known(a, key) THEN Index(a, key, None)
                      ELSE IF room THEN Index(a, key, Len(a.trace) + 1) ELSE a.index
             b == Call(a, event)
  <2>1. b = [a EXCEPT !.mismatch = @ \/ ~event.fits, !.unknownTool = @ \/ ~event.fits,
                      !.calls = @ + 1, !.trace = trace, !.index = index]
    BY DEF Call, Accumulators
  <2>2. /\ settled \in Seq(TraceEntry) /\ DOMAIN settled = DOMAIN a.trace
        /\ \A i \in DOMAIN a.trace : settled[i].key = a.trace[i].key
        /\ \A i \in DOMAIN a.trace : i # position => settled[i].outcome = a.trace[i].outcome
        /\ position # None => settled[position].outcome = "unknown"
    <3>1. \A i \in DOMAIN a.trace : a.trace[i] \in TraceEntry
      BY <1>1
    <3>2. CASE position # None
      <4>1. \A i \in DOMAIN a.trace :
              settled[i] = IF i = position THEN [a.trace[i] EXCEPT !.outcome = "unknown"] ELSE a.trace[i]
        BY <1>3, <3>2
      <4>2. \A i \in DOMAIN a.trace : settled[i] \in TraceEntry /\ settled[i].key = a.trace[i].key
              /\ (i # position => settled[i].outcome = a.trace[i].outcome)
              /\ (i = position => settled[i].outcome = "unknown")
        BY <3>1, <4>1 DEF TraceEntry
      <4>3. settled \in [1..Len(a.trace) -> TraceEntry]
        BY <1>1, <3>2, <4>2
      <4>4. settled \in Seq(TraceEntry)
        BY <1>1, <4>3, IsASeq
      <4> HIDE DEF settled
      <4> QED BY <1>1, <1>3, <3>2, <4>2, <4>3, <4>4
    <3>3. CASE position = None
      BY <1>1, <3>3
    <3> QED BY <3>2, <3>3
  <2>3. \A i \in DOMAIN a.trace : settled[i].outcome # "unknown" => a.trace[i].key # key
    <3> SUFFICES ASSUME NEW i \in DOMAIN a.trace, settled[i].outcome # "unknown", a.trace[i].key = key
                 PROVE  FALSE
      OBVIOUS
    <3>1. i # None
      BY <1>1, NoneAssumption
    <3>2. i # position
      BY <2>2, <3>1
    <3>3. a.trace[i].outcome # "unknown"
      BY <2>2, <3>2
    <3>4. key \in DOMAIN a.index /\ a.index[key] = i
      BY <3>3 DEF Honest
    <3> QED BY <3>2, <3>4 DEF Position
  <2> HIDE DEF settled
  <2>4. /\ trace \in Seq(TraceEntry)
        /\ DOMAIN trace = IF room THEN 1..Len(a.trace) + 1 ELSE DOMAIN a.trace
        /\ \A i \in DOMAIN a.trace : trace[i] = settled[i]
        /\ room => trace[Len(a.trace) + 1] = [key |-> key, outcome |-> "unknown"]
    <3>1. [key |-> key, outcome |-> "unknown"] \in TraceEntry
      BY <1>1 DEF TraceEntry
    <3>2. Len(settled) = Len(a.trace)
      BY <1>1, <2>2
    <3> HIDE DEF key
    <3> QED BY <1>1, <2>2, <3>1, <3>2, AppendProperties
  <2>5. /\ \A k \in K \ {key} : index[k] = a.index[k]
        /\ key \in DOMAIN index => index[key] = IF key \notin K THEN Len(a.trace) + 1 ELSE None
        /\ index \in Positions /\ DOMAIN index = IF room THEN K \cup {key} ELSE K
    <3> DEFINE with(n) == [k \in K \cup {key} |-> IF k = key THEN n ELSE a.index[k]]
    <3>1. \A n : Index(a, key, n) = with(n)
      BY <1>2 DEF Index
    <3>2. Known(a, key) <=> key \in K
      BY <1>2 DEF Known
    <3>3. K \cup {key} \in SUBSET CallKey /\ a.index \in Positions
      BY <1>1 DEF Accumulators
    <3>4. ASSUME NEW n \in Nat \cup {None}
          PROVE  with(n) \in Positions
      <4>1. with(n) \in [K \cup {key} -> Nat \cup {None}]
        BY <1>2
      <4> HIDE DEF with, key
      <4> QED BY <3>3, <4>1 DEF Positions
    <3>5. index = IF key \in K THEN with(None) ELSE IF room THEN with(Len(a.trace) + 1) ELSE a.index
      BY <3>1, <3>2
    <3>6. \A n : /\ DOMAIN with(n) = K \cup {key} /\ with(n)[key] = n
                 /\ \A k \in K \ {key} : with(n)[k] = a.index[k]
      OBVIOUS
    <3>7. DOMAIN a.index = K /\ Len(a.trace) + 1 \in Nat \cup {None} /\ None \in Nat \cup {None}
      BY <1>1, <1>2
    <3> HIDE DEF key, with, index, room
    <3>8. CASE key \in K
      <4>1. index = with(None) /\ K \cup {key} = K
        BY <3>5, <3>8
      <4> QED BY <3>4, <3>6, <3>7, <3>8, <4>1
    <3>9. CASE key \notin K /\ room
      <4>1. index = with(Len(a.trace) + 1)
        BY <3>5, <3>9
      <4> QED BY <3>4, <3>6, <3>7, <3>9, <4>1
    <3>10. CASE key \notin K /\ ~room
      BY <3>3, <3>5, <3>7, <3>10
    <3> QED BY <3>8, <3>9, <3>10
  <2> HIDE DEF trace, index
  <2>6. b \in Accumulators
    <3>1. /\ a.calls + 1 \in Nat /\ (a.mismatch \/ ~event.fits) \in BOOLEAN
          /\ (a.unknownTool \/ ~event.fits) \in BOOLEAN
      BY DEF Accumulators
    <3>2. b = [a EXCEPT !.mismatch = a.mismatch \/ ~event.fits, !.unknownTool = a.unknownTool \/ ~event.fits,
                        !.calls = a.calls + 1, !.trace = trace, !.index = index]
      BY <2>1 DEF Accumulators
    <3> HIDE DEF b
    <3> QED BY <2>4, <2>5, <3>1, <3>2 DEF Accumulators
  <2>7. /\ b.trace = trace /\ b.index = index /\ b.seq = a.seq /\ b.events = a.events
        /\ b.binding = a.binding /\ b.mismatch = (a.mismatch \/ ~event.fits)
    BY <2>1 DEF Accumulators
  <2> HIDE DEF b
  <2>8. ASSUME NEW i \in DOMAIN trace
        PROVE  trace[i].key \in DOMAIN index /\ (trace[i].outcome # "unknown" => index[trace[i].key] = i)
    <3>1. CASE i \in DOMAIN a.trace
      <4>1. a.trace[i].key \in K /\ trace[i].key = a.trace[i].key /\ trace[i].outcome = settled[i].outcome
        BY <1>2, <2>2, <2>4, <3>1 DEF Honest
      <4>2. CASE trace[i].outcome # "unknown"
        <5>1. a.trace[i].key # key
          BY <2>3, <3>1, <4>1, <4>2
        <5>3. i # position
          <6>1. i # None
            BY <1>1, <3>1, NoneAssumption
          <6> QED BY <2>2, <4>1, <4>2, <6>1
        <5>2. a.index[a.trace[i].key] = i
          BY <2>2, <3>1, <4>1, <4>2, <5>3 DEF Honest
        <5> QED BY <2>5, <4>1, <5>1, <5>2
      <4> QED BY <2>5, <4>1, <4>2
    <3>2. CASE i \notin DOMAIN a.trace
      <4>1. room /\ trace[i] = [key |-> key, outcome |-> "unknown"]
        BY <1>1, <2>4, <3>2
      <4> QED BY <2>5, <4>1
    <3> QED BY <3>1, <3>2
  <2>9. ASSUME NEW k \in DOMAIN index, index[k] # None
        PROVE  /\ index[k] \in DOMAIN trace /\ trace[index[k]].key = k
               /\ \A j \in DOMAIN trace : trace[j].key = k => j = index[k]
    <3>1. CASE k # key
      <4>1. k \in K /\ index[k] = a.index[k]
        BY <2>5, <3>1
      <4>2. /\ index[k] \in DOMAIN a.trace /\ a.trace[index[k]].key = k
            /\ \A j \in DOMAIN a.trace : a.trace[j].key = k => j = index[k]
        BY <1>2, <2>9, <4>1 DEF Honest
      <4>3. \A j \in DOMAIN trace : j \notin DOMAIN a.trace => trace[j].key = key
        BY <1>1, <2>4
      <4> QED BY <1>1, <2>2, <2>4, <3>1, <4>2, <4>3
    <3>2. CASE k = key
      <4>1. key \notin K /\ room /\ index[k] = Len(a.trace) + 1
        BY <2>5, <2>9, <3>2
      <4>2. \A j \in DOMAIN a.trace : a.trace[j].key # key
        BY <1>2, <4>1 DEF Honest
      <4> DEFINE last == Len(a.trace) + 1
      <4>3. DOMAIN trace = 1..last /\ last \in 1..last /\ trace[last].key = key
        BY <1>1, <2>4, <4>1
      <4>4. \A j \in DOMAIN trace : j # last => j \in DOMAIN a.trace
        BY <1>1, <4>3
      <4>5. \A j \in DOMAIN trace : j # last => trace[j].key # key
        BY <2>2, <2>4, <4>2, <4>4
      <4> HIDE DEF key, last
      <4>6. index[k] = last
        BY <4>1 DEF last
      <4> QED BY <3>2, <4>3, <4>5, <4>6
    <3> QED BY <3>1, <3>2
  <2>10. Honest(b)
    BY <2>7, <2>8, <2>9 DEF Honest
  <2> QED BY <2>6, <2>7, <2>10 DEF Follows, b
<1> QED BY <1>4, <1>5


(* What any event of a script does to an accumulator: it stays well        *)
(* formed, and an event that is not as configured is noted.                *)
LEMMA ProjectFollows ==
  ASSUME NEW one \in Scripts, NEW event \in one.events, NEW a \in Accumulators, Honest(a)
  PROVE  Follows(a, Project(a, event)) /\ (Deviates(event) => Project(a, event).mismatch)
<1>1. /\ event.type \in Kinds /\ (event.type = "turn/end" => event.reason \in STRING)
      /\ "fits" \in DOMAIN event <=> event.type \in Compared
      /\ event.type \in Compared => event.fits \in BOOLEAN
  BY ScriptAssumption
<1>2. event.type \in {"tool/call", "tool/result"} => event.id \in CallIds
  BY DEF CallIds
<1>3. CASE event.type = "turn/start"
  <2>1. Project(a, event) = Turn(a) /\ ~Deviates(event)
    BY <1>1, <1>3 DEF Project, Deviates, Compared
  <2>2. Follows(a, Turn(a))
    BY TurnEvents
  <2> QED BY <2>1, <2>2
<1>4. CASE event.type = "turn/end"
  <2>1. Project(a, event) = EndTurn(a, event.reason) /\ ~Deviates(event)
    BY <1>1, <1>4 DEF Project, Deviates, Compared
  <2>2. Follows(a, EndTurn(a, event.reason))
    BY <1>1, <1>4, TurnEvents
  <2> QED BY <2>1, <2>2
<1>5. CASE event.type = "replace"
  <2>1. Project(a, event) = Replace(a)
    BY <1>5 DEF Project
  <2>2. Follows(a, Replace(a)) /\ Replace(a).mismatch
    BY TurnEvents
  <2> QED BY <2>1, <2>2
<1>6. CASE event.type \in {"system/message", "request/context", "request/header"}
  <2>1. event.fits \in BOOLEAN /\ (Deviates(event) => ~event.fits)
    BY <1>1, <1>6 DEF Deviates, Compared
  <2>2. Project(a, event) \in {Prompt(a, event), Context(a, event), Header(a, event)}
    BY <1>6 DEF Project
  <2> QED BY <2>1, <2>2, PlainEvents
<1>7. CASE event.type \in {"tool/call", "tool/result"}
  <2>1. event.fits \in BOOLEAN /\ event.id \in CallIds
    BY <1>1, <1>2, <1>7 DEF Compared
  <2>2. \/ Project(a, event) = Call(a, event) /\ (Deviates(event) => ~event.fits)
        \/ Project(a, event) = Result(a, event) /\ ~Deviates(event)
    BY <1>7 DEF Project, Deviates
  <2> QED BY <2>1, <2>2, ToolEvents
<1> QED BY <1>1, <1>3, <1>4, <1>5, <1>6, <1>7 DEF Kinds

(* The empty accumulator. *)
LEMMA Empty == Accumulator \in Accumulators /\ Honest(Accumulator)
<1>1. <<>> \in Seq(TraceEntry) /\ DOMAIN <<>> = {}
  OBVIOUS
<1>2. <<>> \in Positions
  <2>1. <<>> \in [{} -> Nat \cup {None}]
    OBVIOUS
  <2> QED BY <2>1 DEF Positions
<1>3. None \in STRING \cup {None} /\ None \in Verdicts /\ None \in Nat \cup {None}
  BY DEF Verdicts
<1>4. Accumulator \in Accumulators
  BY <1>1, <1>2, <1>3 DEF Accumulator, Accumulators
<1> QED BY <1>1, <1>4 DEF Accumulator, Honest


-------------------------------------------------------------------------------
(* The recorder: what the steps have in common.                            *)

DraftTypes(w) ==
  \/ writers[w] = Resting
  \/ /\ writers[w] \in [at : {"digest", "open", "rename"}, session : Sessions, state : Nat, record : Drafts]
     /\ writers[w].state \in DOMAIN heap

(* What keep() does to the heap. *)
LEMMA Kept ==
  ASSUME RecorderTypes, NEW s \in Sessions, NEW b \in Accumulators, Keep(s, b)
  PROVE  /\ heap' \in Seq(Accumulators) /\ DOMAIN heap \subseteq DOMAIN heap'
         /\ sessions' \in [Sessions -> Nat \cup {None}]
         /\ sessions'[s] \in DOMAIN heap' /\ sessions'[s] # None /\ heap'[sessions'[s]] = b
         /\ sessions[s] # None => sessions'[s] = sessions[s]
         /\ sessions[s] = None => sessions'[s] \notin DOMAIN heap
         /\ \A t \in Sessions \ {s} : sessions'[t] = sessions[t]
         /\ \A n \in DOMAIN heap' : n # sessions'[s] => n \in DOMAIN heap /\ heap'[n] = heap[n]
<1>1. /\ heap \in Seq(Accumulators) /\ Len(heap) \in Nat /\ DOMAIN heap = 1..Len(heap)
      /\ sessions \in [Sessions -> Nat \cup {None}] /\ (sessions[s] # None => sessions[s] \in DOMAIN heap)
  BY DEF RecorderTypes
<1>2. /\ sessions'[s] = At(s) /\ \A t \in Sessions \ {s} : sessions'[t] = sessions[t]
      /\ DOMAIN sessions' = Sessions
  BY <1>1 DEF Keep
<1>3. CASE sessions[s] = None
  <2>1. heap' = Append(heap, b) /\ At(s) = Len(heap) + 1
    BY <1>3 DEF Keep, Fresh, At
  <2>2. heap' \in Seq(Accumulators) /\ Len(heap') = Len(heap) + 1 /\ heap'[Len(heap) + 1] = b
        /\ \A n \in 1..Len(heap) : heap'[n] = heap[n]
    BY <1>1, <2>1, AppendProperties
  <2>3. DOMAIN heap' = 1..Len(heap) + 1
    BY <2>2
  <2>4. sessions' \in [Sessions -> Nat \cup {None}]
    <3>1. sessions' = [sessions EXCEPT ![s] = At(s)]
      BY DEF Keep
    <3> QED BY <1>1, <2>1, <3>1
  <2>5. Len(heap) + 1 \notin DOMAIN heap /\ Len(heap) + 1 \in DOMAIN heap' /\ DOMAIN heap \subseteq DOMAIN heap'
        /\ Len(heap) + 1 # None /\ \A n \in DOMAIN heap' : n # Len(heap) + 1 => n \in DOMAIN heap
    BY <1>1, <2>3, NoneAssumption
  <2> QED BY <1>1, <1>2, <1>3, <2>1, <2>2, <2>4, <2>5
<1>4. CASE sessions[s] # None
  <2>1. heap' = [heap EXCEPT ![sessions[s]] = b] /\ At(s) = sessions[s]
    BY <1>4 DEF Keep, Fresh, At
  <2>2. heap' \in [1..Len(heap) -> Accumulators]
    <3>1. \A n \in 1..Len(heap) : heap[n] \in Accumulators
      BY <1>1
    <3>2. heap' = [n \in 1..Len(heap) |-> IF n = sessions[s] THEN b ELSE heap[n]]
      BY <1>1, <2>1
    <3> QED BY <3>1, <3>2
  <2>3. heap' \in Seq(Accumulators)
    BY <1>1, <2>2, IsASeq
  <2>4. sessions' \in [Sessions -> Nat \cup {None}]
    <3>1. sessions' = [sessions EXCEPT ![s] = At(s)]
      BY DEF Keep
    <3> QED BY <1>1, <1>4, <2>1, <3>1
  <2> QED BY <1>1, <1>2, <1>4, <2>1, <2>3, <2>4
<1> QED BY <1>3, <1>4

(* The accumulator of a session, or a new one, is well formed. *)
LEMMA StateFits ==
  ASSUME RecorderTypes, HeapFits, NEW s \in Sessions
  PROVE  /\ State(s) \in Accumulators /\ Honest(State(s))
         /\ State(s).seq <= host[s].seq
         /\ State(s).binding # None => /\ State(s).binding <= runtime.transition
                                       /\ State(s).binding + transitions[s] <= runtime.transition
<1>1. CASE sessions[s] = None
  <2>1. State(s) = Accumulator
    BY <1>1 DEF State, Fresh
  <2>2. Accumulator.binding = None /\ Accumulator.seq = 0 /\ host[s].seq \in Nat
    BY DEF Accumulator, RecorderTypes
  <2> QED BY <2>1, <2>2, Empty
<1>2. CASE sessions[s] # None
  <2>1. State(s) = heap[sessions[s]] /\ sessions[s] \in DOMAIN heap
    BY <1>2 DEF State, Fresh, RecorderTypes
  <2>2. heap[sessions[s]] \in Accumulators
    BY <2>1 DEF RecorderTypes
  <2> QED BY <1>2, <2>1, <2>2 DEF HeapFits
<1> QED BY <1>1, <1>2

(* The heap stays well formed when a session keeps what fits it. *)
LEMMA HeapKept ==
  ASSUME RecorderTypes, HeapFits, NEW s \in Sessions, NEW b \in Accumulators, Keep(s, b), Honest(b),
         b.seq <= host'[s].seq, host'[s].seq \in Nat, transitions' \in [Sessions -> Nat],
         b.binding # None => b.binding + transitions'[s] <= runtime.transition,
         runtime' = runtime,
         \A t \in Sessions \ {s} : transitions'[t] = transitions[t] /\ host'[t].seq = host[t].seq
  PROVE  HeapFits'
<1>1. b.binding # None => b.binding <= runtime.transition
  BY DEF Accumulators, RecorderTypes
<1>2. /\ sessions'[s] \in DOMAIN heap' /\ sessions'[s] # None /\ heap'[sessions'[s]] = b
      /\ sessions[s] # None => sessions'[s] = sessions[s]
      /\ sessions[s] = None => sessions'[s] \notin DOMAIN heap
      /\ \A t \in Sessions \ {s} : sessions'[t] = sessions[t]
      /\ \A n \in DOMAIN heap' : n # sessions'[s] => n \in DOMAIN heap /\ heap'[n] = heap[n]
      /\ DOMAIN heap \subseteq DOMAIN heap'
  BY Kept
<1>3. \A n \in DOMAIN heap' : /\ Honest(heap'[n])
                              /\ heap'[n].binding # None => heap'[n].binding <= runtime'.transition
  BY <1>1, <1>2 DEF HeapFits
<1>4. \A t \in Sessions \ {s} : sessions[t] # None =>
        sessions[t] # sessions'[s] /\ heap'[sessions[t]] = heap[sessions[t]]
  <2> SUFFICES ASSUME NEW t \in Sessions \ {s}, sessions[t] # None
               PROVE  sessions[t] # sessions'[s] /\ heap'[sessions[t]] = heap[sessions[t]]
    OBVIOUS
  <2>1. sessions[t] \in DOMAIN heap /\ sessions[t] \in DOMAIN heap'
    BY <1>2 DEF RecorderTypes
  <2>2. sessions[t] # sessions'[s]
    BY <1>2, <2>1 DEF HeapFits
  <2> QED BY <1>2, <2>1, <2>2
<1>5. \A t, u \in Sessions : sessions'[t] = sessions'[u] /\ sessions'[t] # None => t = u
  BY <1>2, <1>4 DEF HeapFits
<1>6. \A t \in Sessions : sessions'[t] # None =>
        /\ heap'[sessions'[t]].seq <= host'[t].seq
        /\ heap'[sessions'[t]].binding # None =>
             heap'[sessions'[t]].binding + transitions'[t] <= runtime'.transition
  <2> TAKE t \in Sessions
  <2>1. CASE t = s
    BY <1>2, <2>1
  <2>2. CASE t # s
    BY <1>2, <1>4, <2>2 DEF HeapFits
  <2> QED BY <2>1, <2>2
<1> QED BY <1>3, <1>5, <1>6 DEF HeapFits

(* A draft that is not worked on still fits, as events only come. *)
LEMMA DraftStays ==
  ASSUME NEW w \in Writers, DraftFits(w), DraftTypes(w), writers'[w] = writers[w],
         \A s \in Sessions : host[s].seq \in Nat /\ host'[s].seq \in Nat /\ host[s].seq <= host'[s].seq
  PROVE  DraftFits(w)'
<1> SUFFICES ASSUME writers[w].at # "idle"
             PROVE  DraftFits(w)'
  BY DEF DraftFits
<1> DEFINE r == writers[w].record
<1>1. r.name \in Names /\ r.name[1] \in Sessions /\ r.name[2] \in Nat
  BY DEF DraftTypes, Resting, Drafts, Names
<1>2. writers'[w].record = r /\ writers'[w].session = writers[w].session
  OBVIOUS
<1>3. r.name[2] <= host[r.name[1]].seq
  BY DEF DraftFits
<1>4. r.name[2] <= host'[r.name[1]].seq
  BY <1>1, <1>3
<1> QED BY <1>2, <1>4 DEF DraftFits

(* A session that a step does not concern stays as it should be. *)
LEMMA SessionStays ==
  ASSUME NEW t \in Sessions, SessionFits(t), host'[t] = host[t], deviated'[t] = deviated[t],
         sessions[t] # None /\ host[t].life = "here" =>
           sessions'[t] = sessions[t] /\ heap'[sessions[t]] = heap[sessions[t]],
         Closing(t)' = Closing(t),
         \A w \in Closing(t) : /\ writers'[w].at = writers[w].at
                               /\ writers'[w].record.name = writers[w].record.name,
         [name |-> LastName(t), stage |-> "final"] \in records =>
           [name |-> LastName(t), stage |-> "final"] \in records',
         LastName(t) \in temporaries' => LastName(t) \in temporaries
  PROVE  SessionFits(t)'
<1>1. LastName(t)' = LastName(t) /\ New(t)' = New(t)
  BY DEF LastName, New
<1> QED BY <1>1 DEF SessionFits


-------------------------------------------------------------------------------
(* The recorder: its steps.                                                *)

(* The types of the host's part of the state. *)
LEMMA HostTypes ==
  ASSUME RecorderTypes, NEW s \in Sessions
  PROVE  /\ host[s].life \in {"here", "away"} /\ host[s].seq \in Nat /\ host[s].since \in Nat
         /\ host[s].clouded \in BOOLEAN
         /\ runtime.installed \in BOOLEAN /\ runtime.transition \in Nat
         /\ transitions[s] \in Nat /\ deviated[s] \in BOOLEAN
  BY DEF RecorderTypes

(* An event of a session is recorded. *)
LEMMA OnEventKeeps ==
  ASSUME RecorderInv, NEW s \in Sessions, OnEvent(s)
  PROVE  RecorderInv'
<1> DEFINE n == host[s].seq + 1
           fresh == [State(s) EXCEPT !.seq = n, !.events = @ + 1]
<1>1. PICK event \in script.events :
        /\ Keep(s, Project(fresh, event))
        /\ deviated' = [deviated EXCEPT ![s] = @ \/ Deviates(event)]
  BY DEF OnEvent
<1>2. /\ host[s].life = "here" /\ host' = [host EXCEPT ![s].seq = n]
      /\ UNCHANGED <<writers, temporaries, records, runtime, script, transitions>>
  BY DEF OnEvent
<1>3. RecorderTypes /\ HeapFits /\ n \in Nat
  BY HostTypes DEF RecorderInv
<1>4. /\ fresh \in Accumulators /\ Honest(fresh) /\ fresh.seq = n /\ fresh.events = State(s).events + 1
      /\ fresh.events > 0 /\ fresh.binding = State(s).binding /\ fresh.mismatch = State(s).mismatch
  <2>1. State(s) \in Accumulators /\ Honest(State(s))
    BY <1>3, StateFits
  <2>2. fresh = [State(s) EXCEPT !.seq = n, !.events = State(s).events + 1] /\ State(s).events + 1 \in Nat
    BY <2>1 DEF Accumulators
  <2>3. /\ fresh \in Accumulators /\ fresh.trace = State(s).trace /\ fresh.index = State(s).index
        /\ fresh.seq = n /\ fresh.events = State(s).events + 1
        /\ fresh.binding = State(s).binding /\ fresh.mismatch = State(s).mismatch
    BY <1>3, <2>1, <2>2 DEF Accumulators
  <2> HIDE DEF fresh
  <2>4. State(s).events \in Nat
    BY <2>1 DEF Accumulators
  <2> QED BY <2>1, <2>3, <2>4 DEF Honest
<1> DEFINE b == Project(fresh, event)
<1>5. Follows(fresh, b) /\ (Deviates(event) => b.mismatch)
  <2>1. script \in Scripts
    BY <1>3 DEF RecorderTypes
  <2> HIDE DEF fresh
  <2> QED BY <1>4, <2>1, ProjectFollows
<1>6. /\ b \in Accumulators /\ Honest(b) /\ b.seq = n /\ b.events > 0 /\ b.binding = State(s).binding
      /\ State(s).mismatch => b.mismatch
      /\ Deviates(event) => b.mismatch
  BY <1>4, <1>5 DEF Follows
<1>7. Keep(s, b)
  BY <1>1
<1> HIDE DEF fresh, b
<1>8. host' \in [Sessions -> [life : {"here", "away"}, seq : Nat, since : Nat, clouded : BOOLEAN]]
      /\ host'[s].seq = n /\ host'[s].since = host[s].since /\ host'[s].clouded = host[s].clouded
      /\ host'[s].life = "here"
      /\ \A t \in Sessions \ {s} : host'[t] = host[t]
  BY <1>2, <1>3 DEF RecorderTypes
<1>9. deviated' \in [Sessions -> BOOLEAN] /\ deviated'[s] = (deviated[s] \/ Deviates(event))
      /\ \A t \in Sessions \ {s} : deviated'[t] = deviated[t]
  <2>1. deviated \in [Sessions -> BOOLEAN] /\ (deviated[s] \/ Deviates(event)) \in BOOLEAN
    BY <1>3 DEF RecorderTypes
  <2> QED BY <1>1, <2>1
<1>10. /\ heap' \in Seq(Accumulators) /\ DOMAIN heap \subseteq DOMAIN heap'
       /\ sessions' \in [Sessions -> Nat \cup {None}]
       /\ sessions'[s] \in DOMAIN heap' /\ sessions'[s] # None /\ heap'[sessions'[s]] = b
       /\ sessions[s] # None => sessions'[s] = sessions[s]
       /\ sessions[s] = None => sessions'[s] \notin DOMAIN heap
       /\ \A t \in Sessions \ {s} : sessions'[t] = sessions[t]
       /\ \A i \in DOMAIN heap' : i # sessions'[s] => i \in DOMAIN heap /\ heap'[i] = heap[i]
  BY <1>3, <1>6, <1>7, Kept
<1>11. RecorderTypes'
  <2>1. \A t \in Sessions : sessions'[t] # None => sessions'[t] \in DOMAIN heap'
    BY <1>3, <1>10 DEF RecorderTypes
  <2>2. \A w \in Writers : writers[w] = Resting \/ writers[w].state \in DOMAIN heap'
    BY <1>3, <1>10 DEF RecorderTypes
  <2> QED BY <1>2, <1>3, <1>8, <1>9, <1>10, <2>1, <2>2 DEF RecorderTypes
<1>12. HeapFits'
  <2>1. b.binding # None => b.binding + transitions'[s] <= runtime.transition
    BY <1>2, <1>3, <1>6, StateFits
  <2>2. transitions' \in [Sessions -> Nat]
    BY <1>2, <1>3 DEF RecorderTypes
  <2> QED BY <1>2, <1>3, <1>6, <1>7, <1>8, <2>1, <2>2, HeapKept
<1>13. \A t \in Sessions : host[t].seq \in Nat /\ host'[t].seq \in Nat /\ host[t].seq <= host'[t].seq
  BY <1>3, <1>8, HostTypes
<1>14. \A w \in Writers : DraftFits(w)'
  BY <1>2, <1>3, <1>13, DraftStays DEF RecorderInv, RecorderTypes, DraftTypes
<1>15. \A w \in Writers : DraftFits(w) /\ DraftTypes(w)
  BY <1>3 DEF RecorderInv, RecorderTypes, DraftTypes
<1>16. ASSUME NEW t \in Sessions \ {s}
       PROVE  SessionFits(t)'
  <2>1. sessions[t] # None => heap'[sessions[t]] = heap[sessions[t]]
    <3> SUFFICES ASSUME sessions[t] # None
                 PROVE  heap'[sessions[t]] = heap[sessions[t]]
      OBVIOUS
    <3>1. sessions[t] \in DOMAIN heap /\ sessions[t] \in DOMAIN heap'
      BY <1>3, <1>10 DEF RecorderTypes
    <3>2. sessions[t] # sessions'[s]
      BY <1>3, <1>10, <3>1 DEF HeapFits
    <3> QED BY <1>10, <3>1, <3>2
  <2>2. Closing(t)' = Closing(t) /\ LastName(t)' = LastName(t)
    BY <1>2, <1>8 DEF Closing, LastName
  <2> QED BY <1>2, <1>8, <1>9, <1>10, <2>1, <2>2, SessionStays DEF RecorderInv
<1>17. SessionFits(s)'
  <2> SUFFICES ASSUME ~host[s].clouded
               PROVE  SessionFits(s)'
    BY <1>8 DEF SessionFits
  <2>1. Closing(s) = {} /\ (deviated[s] => sessions[s] # None /\ heap[sessions[s]].mismatch)
    BY <1>2 DEF RecorderInv, SessionFits
  <2>2. Closing(s)' = {}
    BY <1>2, <2>1 DEF Closing
  <2>3. deviated'[s] => b.mismatch
    BY <1>6, <1>9, <2>1 DEF State, Fresh
  <2>4. LastName(s)' = <<s, n, TRUE>>
    BY <1>8 DEF LastName
  <2>5. <<s, n, TRUE>> \notin temporaries
    <3>1. \A name \in temporaries : name[2] <= host[name[1]].seq
      BY DEF RecorderInv
    <3>2. ~(n <= host[s].seq)
      BY <1>3, HostTypes
    <3> HIDE DEF n
    <3>3. <<s, n, TRUE>>[1] = s /\ <<s, n, TRUE>>[2] = n
      OBVIOUS
    <3> QED BY <3>1, <3>2, <3>3
  <2> QED BY <1>2, <1>6, <1>8, <1>10, <2>2, <2>3, <2>4, <2>5 DEF SessionFits, New
<1>18. \A t \in Sessions : host'[t].since <= host'[t].seq
  BY <1>3, <1>8, HostTypes DEF RecorderInv
<1>19. \A name \in temporaries : name[2] <= host'[name[1]].seq
  <2> TAKE name \in temporaries
  <2>1. name[1] \in Sessions /\ name[2] \in Nat /\ name[2] <= host[name[1]].seq
    BY <1>3 DEF RecorderInv, RecorderTypes, Names
  <2> QED BY <1>13, <2>1
<1> QED BY <1>2, <1>11, <1>12, <1>14, <1>16, <1>17, <1>18, <1>19 DEF RecorderInv


(* What does not depend on a step that leaves the store alone, and in      *)
(* which events only come.                                                 *)
LEMMA StoreStays ==
  ASSUME RecorderInv, UNCHANGED <<temporaries, records>>,
         \A t \in Sessions : host'[t].seq \in Nat /\ host[t].seq <= host'[t].seq
  PROVE  /\ \A name \in temporaries' : name[2] <= host'[name[1]].seq
         /\ \A r \in records' : r.stage = IF r.name[3] THEN "final" ELSE "checkpoint"
<1>1. \A name \in temporaries : name[2] <= host'[name[1]].seq
  <2> TAKE name \in temporaries
  <2>1. name[1] \in Sessions /\ name[2] \in Nat /\ name[2] <= host[name[1]].seq
    BY DEF RecorderInv, RecorderTypes, Names
  <2>2. host[name[1]].seq \in Nat /\ host'[name[1]].seq \in Nat /\ host[name[1]].seq <= host'[name[1]].seq
    BY <2>1, HostTypes DEF RecorderInv
  <2> QED BY <2>1, <2>2
<1> QED BY <1>1 DEF RecorderInv

(* A session is created, or comes back. *)
LEMMA CreateKeeps ==
  ASSUME RecorderInv, NEW s \in Sessions, Create(s)
  PROVE  RecorderInv'
<1> DEFINE binding == IF runtime.installed THEN runtime.transition ELSE None
           b == IF State(s).attempted THEN State(s)
                ELSE IF State(s).events > 0 THEN [State(s) EXCEPT !.attempted = TRUE]
                ELSE [State(s) EXCEPT !.attempted = TRUE, !.binding = binding]
<1>1. /\ Keep(s, b) /\ host[s].life = "away"
      /\ host' = [host EXCEPT ![s].life = "here", ![s].since = host[s].seq, ![s].clouded = Writing(s) # {}]
      /\ deviated' = [deviated EXCEPT ![s] = FALSE] /\ transitions' = [transitions EXCEPT ![s] = 0]
      /\ UNCHANGED <<writers, temporaries, records, runtime, script>>
  BY DEF Create
<1>2. RecorderTypes /\ HeapFits
  BY DEF RecorderInv
<1>3. /\ b \in Accumulators /\ Honest(b) /\ b.seq = State(s).seq
      /\ b.binding # None => b.binding <= runtime.transition
  <2>1. /\ State(s) \in Accumulators /\ Honest(State(s))
        /\ State(s).binding # None => State(s).binding <= runtime.transition
    BY <1>2, StateFits
  <2>2. binding \in Nat \cup {None} /\ (binding # None => binding = runtime.transition) /\ runtime.transition \in Nat
    BY <1>2 DEF RecorderTypes
  <2> DEFINE b1 == [State(s) EXCEPT !.attempted = TRUE]
             b2 == [State(s) EXCEPT !.attempted = TRUE, !.binding = binding]
  <2>3. /\ b1 \in Accumulators /\ b1.trace = State(s).trace /\ b1.index = State(s).index
        /\ b1.seq = State(s).seq /\ b1.binding = State(s).binding
    BY <2>1 DEF Accumulators
  <2> HIDE DEF binding
  <2>4. /\ b2 \in Accumulators /\ b2.trace = State(s).trace /\ b2.index = State(s).index
        /\ b2.seq = State(s).seq /\ b2.binding = binding
    BY <2>1, <2>2 DEF Accumulators
  <2>5. b \in {State(s), b1, b2}
    OBVIOUS
  <2> HIDE DEF b, b1, b2
  <2>6. Honest(b1) /\ Honest(b2)
    BY <2>1, <2>3, <2>4 DEF Honest
  <2>7. CASE b = State(s)
    BY <2>1, <2>7
  <2>8. CASE b = b1
    BY <2>1, <2>3, <2>6, <2>8
  <2>9. CASE b = b2
    BY <2>2, <2>4, <2>6, <2>9
  <2> QED BY <2>5, <2>7, <2>8, <2>9
<1> HIDE DEF b, binding
<1>4. host' \in [Sessions -> [life : {"here", "away"}, seq : Nat, since : Nat, clouded : BOOLEAN]]
      /\ host'[s].seq = host[s].seq /\ host'[s].since = host[s].seq /\ host'[s].clouded = (Writing(s) # {})
      /\ host'[s].life = "here"
      /\ \A t \in Sessions \ {s} : host'[t] = host[t]
  <2> DEFINE back == [host[s] EXCEPT !.life = "here", !.since = host[s].seq, !.clouded = Writing(s) # {}]
  <2>1. host \in [Sessions -> [life : {"here", "away"}, seq : Nat, since : Nat, clouded : BOOLEAN]]
    BY <1>2 DEF RecorderTypes
  <2>2. (Writing(s) # {}) \in BOOLEAN /\ host[s] \in [life : {"here", "away"}, seq : Nat, since : Nat, clouded : BOOLEAN]
    BY <2>1
  <2>3. /\ back \in [life : {"here", "away"}, seq : Nat, since : Nat, clouded : BOOLEAN]
        /\ back.seq = host[s].seq /\ back.since = host[s].seq /\ back.clouded = (Writing(s) # {})
        /\ back.life = "here"
    BY <2>2
  <2>4. host' = [host EXCEPT ![s] = back]
    BY <1>1, <2>1
  <2> HIDE DEF back
  <2> QED BY <2>1, <2>3, <2>4
<1>5. deviated' \in [Sessions -> BOOLEAN] /\ deviated'[s] = FALSE
      /\ \A t \in Sessions \ {s} : deviated'[t] = deviated[t]
  BY <1>1, <1>2 DEF RecorderTypes
<1>6. transitions' \in [Sessions -> Nat] /\ transitions'[s] = 0
      /\ \A t \in Sessions \ {s} : transitions'[t] = transitions[t]
  BY <1>1, <1>2 DEF RecorderTypes
<1>7. /\ heap' \in Seq(Accumulators) /\ DOMAIN heap \subseteq DOMAIN heap'
      /\ sessions' \in [Sessions -> Nat \cup {None}]
      /\ sessions'[s] \in DOMAIN heap' /\ sessions'[s] # None /\ heap'[sessions'[s]] = b
      /\ sessions[s] # None => sessions'[s] = sessions[s]
      /\ sessions[s] = None => sessions'[s] \notin DOMAIN heap
      /\ \A t \in Sessions \ {s} : sessions'[t] = sessions[t]
      /\ \A i \in DOMAIN heap' : i # sessions'[s] => i \in DOMAIN heap /\ heap'[i] = heap[i]
  BY <1>1, <1>2, <1>3, Kept
<1>8. RecorderTypes'
  <2>1. \A t \in Sessions : sessions'[t] # None => sessions'[t] \in DOMAIN heap'
    BY <1>2, <1>7 DEF RecorderTypes
  <2>2. \A w \in Writers : writers[w] = Resting \/ writers[w].state \in DOMAIN heap'
    BY <1>2, <1>7 DEF RecorderTypes
  <2> QED BY <1>1, <1>2, <1>4, <1>5, <1>6, <1>7, <2>1, <2>2 DEF RecorderTypes
<1>9. HeapFits'
  <2>1. b.binding # None => b.binding + transitions'[s] <= runtime.transition
    BY <1>2, <1>3, <1>6 DEF Accumulators, RecorderTypes
  <2>2. b.seq <= host'[s].seq /\ host'[s].seq \in Nat
    BY <1>2, <1>3, <1>4, StateFits, HostTypes
  <2> QED BY <1>1, <1>2, <1>3, <1>4, <1>6, <2>1, <2>2, HeapKept
<1>10. \A t \in Sessions : host[t].seq \in Nat /\ host'[t].seq \in Nat /\ host[t].seq <= host'[t].seq
  BY <1>2, <1>4, HostTypes
<1>11. \A w \in Writers : DraftFits(w)'
  BY <1>1, <1>2, <1>10, DraftStays DEF RecorderInv, RecorderTypes, DraftTypes
<1>12. ASSUME NEW t \in Sessions \ {s}
       PROVE  SessionFits(t)'
  <2>1. sessions[t] # None => heap'[sessions[t]] = heap[sessions[t]]
    <3> SUFFICES ASSUME sessions[t] # None
                 PROVE  heap'[sessions[t]] = heap[sessions[t]]
      OBVIOUS
    <3>1. sessions[t] \in DOMAIN heap /\ sessions[t] \in DOMAIN heap'
      BY <1>2, <1>7 DEF RecorderTypes
    <3>2. sessions[t] # sessions'[s]
      BY <1>2, <1>7, <3>1 DEF HeapFits
    <3> QED BY <1>7, <3>1, <3>2
  <2>2. Closing(t)' = Closing(t) /\ LastName(t)' = LastName(t)
    BY <1>1, <1>4 DEF Closing, LastName
  <2> QED BY <1>1, <1>4, <1>5, <1>7, <2>1, <2>2, SessionStays DEF RecorderInv
<1>13. SessionFits(s)'
  <2> SUFFICES ASSUME Writing(s) = {}
               PROVE  SessionFits(s)'
    BY <1>4 DEF SessionFits
  <2>1. Closing(s)' = {}
    BY <1>1 DEF Closing, Writing
  <2>2. ~New(s)'
    BY <1>2, <1>4, HostTypes DEF New
  <2> QED BY <1>4, <1>5, <2>1, <2>2 DEF SessionFits
<1>14. \A t \in Sessions : host'[t].since <= host'[t].seq
  BY <1>2, <1>4, HostTypes DEF RecorderInv
<1> QED BY <1>1, <1>8, <1>9, <1>10, <1>11, <1>12, <1>13, <1>14, StoreStays DEF RecorderInv

(* The runtime generation moves on. *)
LEMMA TransitionKeeps ==
  ASSUME RecorderInv, Transition
  PROVE  RecorderInv'
<1>1. /\ \E installed \in BOOLEAN : runtime' = [installed |-> installed, transition |-> runtime.transition + 1]
      /\ transitions' = [s \in Sessions |-> transitions[s] + 1]
      /\ UNCHANGED <<heap, sessions, writers, temporaries, records, host, script, deviated>>
  BY DEF Transition
<1>2. RecorderTypes /\ HeapFits
  BY DEF RecorderInv
<1>3. runtime' \in [installed : BOOLEAN, transition : Nat] /\ runtime'.transition = runtime.transition + 1
      /\ transitions' \in [Sessions -> Nat] /\ \A s \in Sessions : transitions'[s] = transitions[s] + 1
  BY <1>1, <1>2 DEF RecorderTypes
<1>4. RecorderTypes'
  BY <1>1, <1>2, <1>3 DEF RecorderTypes
<1>5. HeapFits'
  <2>1. \A n \in DOMAIN heap : heap[n].binding \in Nat \cup {None}
    <3>1. \A n \in DOMAIN heap : heap[n] \in Accumulators
      BY <1>2 DEF RecorderTypes
    <3> QED BY <3>1 DEF Accumulators
  <2>2. \A n \in DOMAIN heap : heap[n].binding # None => heap[n].binding <= runtime'.transition
    BY <1>2, <1>3, <2>1 DEF HeapFits, RecorderTypes
  <2>3. ASSUME NEW s \in Sessions, sessions[s] # None, heap[sessions[s]].binding # None
        PROVE  heap[sessions[s]].binding + transitions'[s] <= runtime'.transition
    <3>1. heap[sessions[s]].binding \in Nat /\ transitions[s] \in Nat /\ runtime.transition \in Nat
      BY <1>2, <2>1, <2>3, HostTypes DEF RecorderTypes
    <3>2. heap[sessions[s]].binding + transitions[s] <= runtime.transition
      BY <1>2, <2>3 DEF HeapFits
    <3> QED BY <1>3, <3>1, <3>2
  <2> QED BY <1>1, <1>2, <2>2, <2>3 DEF HeapFits
<1>6. \A w \in Writers : DraftFits(w)'
  BY <1>1 DEF RecorderInv, DraftFits
<1>7. ASSUME NEW s \in Sessions
      PROVE  SessionFits(s)'
  <2>1. Closing(s)' = Closing(s) /\ LastName(s)' = LastName(s)
    BY <1>1 DEF Closing, LastName
  <2> QED BY <1>1, <2>1, SessionStays DEF RecorderInv
<1> QED BY <1>1, <1>4, <1>5, <1>6, <1>7 DEF RecorderInv

(* The process ends. *)
LEMMA CrashKeeps ==
  ASSUME RecorderInv, Crash
  PROVE  RecorderInv'
<1>1. /\ heap' = [n \in DOMAIN heap |-> Accumulator] /\ sessions' = [s \in Sessions |-> None]
      /\ writers' = [w \in Writers |-> Resting] /\ temporaries' = {}
      /\ host' = [s \in Sessions |-> [host[s] EXCEPT !.life = "away", !.clouded = TRUE]]
      /\ UNCHANGED <<records, runtime, script, deviated, transitions>>
  BY DEF Crash
<1>2. RecorderTypes
  BY DEF RecorderInv
<1>3. host' \in [Sessions -> [life : {"here", "away"}, seq : Nat, since : Nat, clouded : BOOLEAN]]
      /\ \A s \in Sessions : host'[s].clouded /\ host'[s].seq = host[s].seq /\ host'[s].since = host[s].since
  <2> DEFINE gone(s) == [host[s] EXCEPT !.life = "away", !.clouded = TRUE]
  <2>1. \A s \in Sessions : host[s] \in [life : {"here", "away"}, seq : Nat, since : Nat, clouded : BOOLEAN]
    BY <1>2 DEF RecorderTypes
  <2>2. \A s \in Sessions : /\ gone(s) \in [life : {"here", "away"}, seq : Nat, since : Nat, clouded : BOOLEAN]
                            /\ gone(s).clouded /\ gone(s).seq = host[s].seq /\ gone(s).since = host[s].since
    BY <2>1
  <2>3. host' = [s \in Sessions |-> gone(s)]
    BY <1>1
  <2> HIDE DEF gone
  <2> QED BY <2>2, <2>3
<1>4. heap' \in Seq(Accumulators) /\ \A n \in DOMAIN heap' : heap'[n] = Accumulator
  <2>1. DOMAIN heap = 1..Len(heap) /\ Len(heap) \in Nat
    BY <1>2 DEF RecorderTypes
  <2>2. heap' \in [1..Len(heap) -> Accumulators]
    BY <1>1, <2>1, Empty
  <2>3. heap' \in Seq(Accumulators)
    BY <2>1, <2>2, IsASeq
  <2>4. DOMAIN heap' = DOMAIN heap /\ \A n \in DOMAIN heap : heap'[n] = Accumulator
    BY <1>1
  <2> QED BY <2>3, <2>4
<1>5. RecorderTypes'
  <2>1. sessions' \in [Sessions -> Nat \cup {None}] /\ \A s \in Sessions : sessions'[s] = None
    BY <1>1
  <2>2. DOMAIN writers' = Writers /\ \A w \in Writers : writers'[w] = Resting
    BY <1>1
  <2> QED BY <1>1, <1>2, <1>3, <1>4, <2>1, <2>2 DEF RecorderTypes
<1>6. HeapFits'
  <2>1. Honest(Accumulator) /\ Accumulator.binding = None
    BY Empty DEF Accumulator
  <2> QED BY <1>1, <1>4, <2>1 DEF HeapFits
<1>7. \A w \in Writers : DraftFits(w)'
  BY <1>1 DEF DraftFits, Resting
<1>8. \A s \in Sessions : SessionFits(s)' /\ host'[s].since <= host'[s].seq
  BY <1>3 DEF RecorderInv, SessionFits
<1> QED BY <1>1, <1>5, <1>6, <1>7, <1>8 DEF RecorderInv


(* The record a write begins with says only what was the case.             *)
LEMMA SnapshotFits ==
  ASSUME RecorderInv, NEW s \in Sessions, NEW final \in BOOLEAN, ~Fresh(s)
  PROVE  LET r == Snapshot(s, State(s), final)
         IN  /\ r \in Drafts /\ r.name = <<s, State(s).seq, final>>
             /\ r.stage = IF final THEN "final" ELSE "checkpoint"
             /\ r.name[1] = s /\ r.name[2] <= host[s].seq /\ r.name[3] = final
             /\ r.batched /\ ~r.then.clouded =>
                  final /\ (host[s].life = "here" => ~r.then.deviated)
             /\ r.stable => final /\ r.then.transitions = 0
<1> DEFINE a == State(s)
           r == Snapshot(s, a, final)
           then == [calls |-> a.calls, deviated |-> deviated[s], transitions |-> transitions[s],
                    clouded |-> host[s].clouded]
<1>1. RecorderTypes /\ HeapFits
  BY DEF RecorderInv
<1>2. /\ a \in Accumulators /\ a.seq <= host[s].seq
      /\ a.binding # None => a.binding + transitions[s] <= runtime.transition
      /\ a = heap[sessions[s]] /\ a.calls \in Nat /\ a.seq \in Nat /\ a.binding \in Nat \cup {None}
  <2>1. a \in Accumulators
    BY <1>1, StateFits
  <2> QED BY <1>1, <2>1, StateFits DEF State, Accumulators
<1>3. /\ host[s].clouded \in BOOLEAN /\ transitions[s] \in Nat /\ deviated[s] \in BOOLEAN
      /\ runtime.transition \in Nat /\ runtime.installed \in BOOLEAN
  BY <1>1, HostTypes
<1>4. Batched(a, final) => final /\ ~a.mismatch
  BY DEF Batched
<1>5. GenerationStable(a) => transitions[s] = 0
  <2> SUFFICES ASSUME runtime.transition = a.binding
               PROVE  transitions[s] = 0
    BY DEF GenerationStable
  <2>1. a.binding # None
    BY <1>3, NoneAssumption
  <2>2. a.binding + transitions[s] <= runtime.transition /\ a.binding \in Nat
    BY <1>2, <1>3, <2>1
  <2> QED BY <1>3, <2>2
<1>6. ~host[s].clouded /\ host[s].life = "here" /\ deviated[s] => a.mismatch
  BY <1>2 DEF RecorderInv, SessionFits
<1>7. /\ r.name = <<s, a.seq, final>> /\ r.stage = (IF final THEN "final" ELSE "checkpoint")
      /\ r.batched = Batched(a, final) /\ r.stable = (final /\ GenerationStable(a)) /\ r.then = then
  BY DEF Snapshot, Name
<1>8. then.clouded = host[s].clouded /\ then.deviated = deviated[s] /\ then.transitions = transitions[s]
  OBVIOUS
<1>9. r \in Drafts
  <2>1. <<s, a.seq, final>> \in Names
    BY <1>2 DEF Names
  <2>2. Batched(a, final) \in BOOLEAN
    BY DEF Batched
  <2>3. (final /\ GenerationStable(a)) \in BOOLEAN
    BY DEF GenerationStable
  <2>4. Outcome(a.reason) \in {"failed", "blocked", "succeeded", "aborted"}
    BY DEF Outcome
  <2>5. then \in [calls : Nat, deviated : BOOLEAN, transitions : Nat, clouded : BOOLEAN]
    BY <1>2, <1>3
  <2>6. (IF final THEN "final" ELSE "checkpoint") \in Stages
    BY DEF Stages
  <2>7. r = [name |-> <<s, a.seq, final>>, stage |-> IF final THEN "final" ELSE "checkpoint",
             outcome |-> Outcome(a.reason), batched |-> Batched(a, final),
             stable |-> final /\ GenerationStable(a), calls |-> a.calls, then |-> then]
    BY DEF Snapshot, Name
  <2> HIDE DEF r, a, then
  <2> QED BY <1>2, <2>1, <2>2, <2>3, <2>4, <2>5, <2>6, <2>7 DEF Drafts
<1>10. r.name[1] = s /\ r.name[2] <= host[s].seq /\ r.name[3] = final
  BY <1>2, <1>7
<1> HIDE DEF a, r, then
<1>11. r.batched /\ ~r.then.clouded => final /\ (host[s].life = "here" => ~r.then.deviated)
  BY <1>4, <1>6, <1>7, <1>8
<1>12. r.stable => final /\ r.then.transitions = 0
  BY <1>5, <1>7, <1>8
<1> QED BY <1>7, <1>9, <1>10, <1>11, <1>12 DEF r, a

(* A write begins: its draft fits. *)
LEMMA WriteBegins ==
  ASSUME RecorderInv, NEW w \in Writers, NEW s \in Sessions, NEW final \in BOOLEAN,
         ~Fresh(s), host[s].life = "here", WriteRecord(w, s, final),
         \A t \in Sessions : host'[t].seq = host[t].seq,
         heap' = heap
  PROVE  /\ DOMAIN writers' = Writers /\ \A v \in Writers \ {w} : writers'[v] = writers[v]
         /\ DraftTypes(w)' /\ DraftFits(w)'
         /\ writers'[w].at \in {"open", "digest"} /\ writers'[w].session = s
         /\ writers'[w].record.stage = IF final THEN "final" ELSE "checkpoint"
         /\ writers'[w].record.name = <<s, State(s).seq, final>>
<1> DEFINE r == Snapshot(s, State(s), final)
           at == IF Batched(State(s), final) THEN "open" ELSE "digest"
<1>1. RecorderTypes
  BY DEF RecorderInv
<1>2. writers' = [writers EXCEPT ![w] = [at |-> at, session |-> s, state |-> sessions[s], record |-> r]]
  BY DEF WriteRecord
<1>3. /\ r \in Drafts /\ r.name = <<s, State(s).seq, final>>
      /\ r.stage = (IF final THEN "final" ELSE "checkpoint")
      /\ r.name[1] = s /\ r.name[2] <= host[s].seq
      /\ r.batched /\ ~r.then.clouded => final /\ ~r.then.deviated
      /\ r.stable => final /\ r.then.transitions = 0
  BY SnapshotFits
<1>4. at \in {"open", "digest"} /\ sessions[s] \in DOMAIN heap /\ sessions[s] \in Nat
  BY <1>1 DEF RecorderTypes, Fresh
<1> HIDE DEF r, at
<1>5. /\ DOMAIN writers' = Writers /\ \A v \in Writers \ {w} : writers'[v] = writers[v]
      /\ writers'[w] = [at |-> at, session |-> s, state |-> sessions[s], record |-> r]
  BY <1>1, <1>2 DEF RecorderTypes
<1>6. DraftTypes(w)'
  BY <1>3, <1>4, <1>5 DEF DraftTypes
<1>7. DraftFits(w)'
  <2>1. writers'[w].record = r /\ writers'[w].session = s
    BY <1>5
  <2>2. r.name[3] = final
    BY <1>3
  <2>3. host'[r.name[1]].seq = host[s].seq
    BY <1>3
  <2> QED BY <1>3, <2>1, <2>2, <2>3 DEF DraftFits
<1> QED BY <1>3, <1>4, <1>5, <1>6, <1>7

(* A session is flushed. *)
LEMMA FlushKeeps ==
  ASSUME RecorderInv, NEW w \in Writers, NEW s \in Sessions, Flush(w, s)
  PROVE  RecorderInv'
<1>1. /\ writers[w].at = "idle" /\ host[s].life = "here" /\ ~Fresh(s) /\ WriteRecord(w, s, FALSE)
      /\ UNCHANGED <<heap, sessions, temporaries, records, host, runtime, script, deviated, transitions>>
  BY DEF Flush, hostVars
<1>2. RecorderTypes /\ HeapFits
  BY DEF RecorderInv
<1>3. /\ DOMAIN writers' = Writers /\ \A v \in Writers \ {w} : writers'[v] = writers[v]
      /\ DraftTypes(w)' /\ DraftFits(w)' /\ writers'[w].record.stage = "checkpoint"
  BY <1>1, WriteBegins
<1>4. RecorderTypes'
  <2>1. \A v \in Writers : DraftTypes(v)'
    BY <1>1, <1>2, <1>3 DEF RecorderTypes, DraftTypes
  <2> QED BY <1>1, <1>2, <1>3, <2>1 DEF RecorderTypes, DraftTypes
<1>5. HeapFits'
  BY <1>1, <1>2 DEF HeapFits
<1>6. ASSUME NEW v \in Writers
      PROVE  DraftFits(v)'
  BY <1>1, <1>3 DEF DraftFits, RecorderInv
<1>7. ASSUME NEW t \in Sessions
      PROVE  SessionFits(t)'
  <2>1. Closing(t)' = Closing(t) /\ LastName(t)' = LastName(t) /\ w \notin Closing(t)
    BY <1>1, <1>3 DEF Closing, LastName
  <2>2. \A v \in Closing(t) : writers'[v] = writers[v]
    BY <1>3, <2>1 DEF Closing
  <2> QED BY <1>1, <2>1, <2>2, SessionStays DEF RecorderInv
<1> QED BY <1>1, <1>4, <1>5, <1>6, <1>7 DEF RecorderInv


(* A session is disposed of. *)
LEMMA DisposeKeeps ==
  ASSUME RecorderInv, NEW w \in Writers, NEW s \in Sessions, Dispose(w, s)
  PROVE  RecorderInv'
<1>1. /\ writers[w].at = "idle" /\ host[s].life = "here" /\ host' = [host EXCEPT ![s].life = "away"]
      /\ UNCHANGED <<heap, temporaries, records, runtime, script, deviated, transitions>>
  BY DEF Dispose
<1>2. RecorderTypes /\ HeapFits
  BY DEF RecorderInv
<1>3. host' \in [Sessions -> [life : {"here", "away"}, seq : Nat, since : Nat, clouded : BOOLEAN]]
      /\ host'[s].seq = host[s].seq /\ host'[s].since = host[s].since /\ host'[s].clouded = host[s].clouded
      /\ host'[s].life = "away"
      /\ \A t \in Sessions \ {s} : host'[t] = host[t]
  BY <1>1, <1>2 DEF RecorderTypes
<1>4. \A t \in Sessions : /\ host[t].seq \in Nat /\ host'[t].seq \in Nat /\ host'[t].seq = host[t].seq
                          /\ host[t].seq <= host'[t].seq /\ host'[t].since <= host'[t].seq
  BY <1>2, <1>3, HostTypes DEF RecorderInv
<1>5. CASE Fresh(s) \/ State(s).events = 0
  <2>1. sessions' = [sessions EXCEPT ![s] = None] /\ UNCHANGED writers
    BY <1>5 DEF Dispose
  <2>2. sessions' \in [Sessions -> Nat \cup {None}] /\ sessions'[s] = None
        /\ \A t \in Sessions \ {s} : sessions'[t] = sessions[t]
    BY <1>2, <2>1 DEF RecorderTypes
  <2>3. RecorderTypes'
    BY <1>1, <1>2, <1>3, <2>1, <2>2 DEF RecorderTypes
  <2>4. HeapFits'
    BY <1>1, <1>2, <1>4, <2>2 DEF HeapFits
  <2>5. \A v \in Writers : DraftFits(v)'
    BY <1>2, <1>4, <2>1, DraftStays DEF RecorderInv, RecorderTypes, DraftTypes
  <2>6. ASSUME NEW t \in Sessions \ {s}
        PROVE  SessionFits(t)'
    <3>1. Closing(t)' = Closing(t) /\ LastName(t)' = LastName(t)
      BY <1>3, <2>1 DEF Closing, LastName
    <3> QED BY <1>1, <1>3, <2>1, <2>2, <3>1, SessionStays DEF RecorderInv
  <2>7. SessionFits(s)'
    <3> SUFFICES ASSUME ~host[s].clouded
                 PROVE  SessionFits(s)'
      BY <1>3 DEF SessionFits
    <3>1. Closing(s)' = {}
      BY <1>1, <2>1 DEF RecorderInv, SessionFits, Closing
    <3>2. ~New(s)
      <4> SUFFICES ASSUME New(s)
                   PROVE  FALSE
        OBVIOUS
      <4>1. sessions[s] # None /\ heap[sessions[s]].events > 0
        BY <1>1 DEF RecorderInv, SessionFits
      <4>2. State(s).events = 0 /\ State(s) = heap[sessions[s]]
        BY <1>5, <4>1 DEF Fresh, State
      <4> QED BY <4>1, <4>2
    <3>3. ~New(s)'
      BY <1>3, <3>2 DEF New
    <3> QED BY <1>3, <3>1, <3>3 DEF SessionFits
  <2> QED BY <1>1, <1>4, <2>3, <2>4, <2>5, <2>6, <2>7, StoreStays DEF RecorderInv
<1>6. CASE ~(Fresh(s) \/ State(s).events = 0)
  <2>1. WriteRecord(w, s, TRUE) /\ UNCHANGED sessions
    BY <1>6 DEF Dispose
  <2>2. /\ DOMAIN writers' = Writers /\ \A v \in Writers \ {w} : writers'[v] = writers[v]
        /\ DraftTypes(w)' /\ DraftFits(w)' /\ writers'[w].record.stage = "final"
        /\ writers'[w].session = s /\ writers'[w].at \in {"open", "digest"}
        /\ writers'[w].record.name = <<s, State(s).seq, TRUE>>
    BY <1>1, <1>4, <1>6, <2>1, WriteBegins
  <2>3. RecorderTypes'
    <3>1. \A v \in Writers : DraftTypes(v)'
      BY <1>1, <1>2, <2>2 DEF RecorderTypes, DraftTypes
    <3> QED BY <1>1, <1>2, <1>3, <2>1, <2>2, <3>1 DEF RecorderTypes, DraftTypes
  <2>4. HeapFits'
    BY <1>1, <1>2, <1>4, <2>1 DEF HeapFits
  <2>5. ASSUME NEW v \in Writers
        PROVE  DraftFits(v)'
    <3>1. CASE v = w
      BY <2>2, <3>1
    <3>2. CASE v # w
      BY <1>2, <1>4, <2>2, <3>2, DraftStays DEF RecorderInv, RecorderTypes, DraftTypes
    <3> QED BY <3>1, <3>2
  <2>6. ASSUME NEW t \in Sessions \ {s}
        PROVE  SessionFits(t)'
    <3>1. Closing(t)' = Closing(t) /\ LastName(t)' = LastName(t) /\ w \notin Closing(t)
      BY <1>1, <1>3, <2>2 DEF Closing, LastName
    <3>2. \A v \in Closing(t) : writers'[v] = writers[v]
      BY <2>2, <3>1 DEF Closing
    <3> QED BY <1>1, <1>3, <2>1, <3>1, <3>2, SessionStays DEF RecorderInv
  <2>7. SessionFits(s)'
    <3> SUFFICES ASSUME ~host[s].clouded
                 PROVE  SessionFits(s)'
      BY <1>3 DEF SessionFits
    <3>1. Closing(s) = {} /\ (New(s) => State(s).seq = host[s].seq /\ LastName(s) \notin temporaries)
      BY <1>1 DEF RecorderInv, SessionFits, State, Fresh
    <3>2. Closing(s)' = {w}
      BY <2>2, <3>1 DEF Closing
    <3>3. LastName(s)' = LastName(s) /\ New(s)' = New(s)
      BY <1>3 DEF LastName, New
    <3>4. New(s) => writers'[w].record.name = LastName(s)
      BY <2>2, <3>1 DEF LastName
    <3> QED BY <1>1, <1>3, <3>1, <3>2, <3>3, <3>4 DEF SessionFits
  <2> QED BY <1>1, <1>4, <2>3, <2>4, <2>5, <2>6, <2>7, StoreStays DEF RecorderInv
<1> QED BY <1>5, <1>6

(* What the end of a write leaves, whether it wrote its record or not. *)
LEMMA Finished ==
  ASSUME RecorderInv, NEW w \in Writers, writers[w].at # "idle", Finish(w),
         NEW s \in Sessions, s = writers[w].session,
         UNCHANGED <<runtime, script, deviated, transitions>>,
         host' \in [Sessions -> [life : {"here", "away"}, seq : Nat, since : Nat, clouded : BOOLEAN]],
         \A t \in Sessions : /\ host'[t].seq = host[t].seq /\ host'[t].since = host[t].since
                             /\ host'[t].life = host[t].life
                             /\ (t # s => host'[t] = host[t])
                             /\ (~host'[t].clouded => host'[t] = host[t]),
         temporaries' \subseteq temporaries,
         records' \subseteq [name : Names, stage : Stages],
         \A r \in records' : r.stage = IF r.name[3] THEN "final" ELSE "checkpoint",
         \A t \in Sessions : [name |-> LastName(t), stage |-> "final"] \in records =>
                                [name |-> LastName(t), stage |-> "final"] \in records'
  PROVE  /\ (SessionFits(s)' \/ w \notin Closing(s)) => RecorderInv'
         /\ Closing(s)' = Closing(s) \ {w}
         /\ \A v \in Writers \ {w} : writers'[v] = writers[v]
<1>1. RecorderTypes /\ HeapFits
  BY DEF RecorderInv
<1>2. /\ DOMAIN writers' = Writers /\ writers'[w] = Resting
      /\ \A v \in Writers \ {w} : writers'[v] = writers[v]
  BY <1>1 DEF Finish, RecorderTypes
<1>3. /\ sessions' \in [Sessions -> Nat \cup {None}]
      /\ \A t \in Sessions : sessions'[t] # None => sessions'[t] = sessions[t]
      /\ \A t \in Sessions : t # s \/ writers[w].record.stage # "final" => sessions'[t] = sessions[t]
  <2>1. sessions' = IF writers[w].record.stage = "final" THEN [sessions EXCEPT ![s] = None] ELSE sessions
    BY DEF Finish
  <2> QED BY <1>1, <2>1 DEF RecorderTypes
<1>4. /\ DOMAIN heap' = DOMAIN heap
      /\ \A n \in DOMAIN heap : heap'[n] \in {heap[n], Accumulator}
      /\ \A t \in Sessions : sessions'[t] # None => heap'[sessions'[t]] = heap[sessions'[t]]
  <2>1. heap' = [n \in DOMAIN heap |-> IF \/ \E t \in Sessions : sessions'[t] = n
                                          \/ \E v \in Writers : writers'[v].state = n
                                       THEN heap[n] ELSE Accumulator]
    BY DEF Finish
  <2>2. \A t \in Sessions : sessions'[t] # None => sessions'[t] \in DOMAIN heap
    BY <1>1, <1>3 DEF RecorderTypes
  <2> QED BY <2>1, <2>2
<1>5. heap' \in Seq(Accumulators)
  <2>1. DOMAIN heap = 1..Len(heap) /\ Len(heap) \in Nat /\ \A n \in DOMAIN heap : heap[n] \in Accumulators
    BY <1>1 DEF RecorderTypes
  <2>2. heap' \in [1..Len(heap) -> Accumulators]
    <3>1. \A n \in 1..Len(heap) : heap'[n] \in Accumulators
      BY <1>4, <2>1, Empty
    <3>2. heap' = [n \in 1..Len(heap) |-> heap'[n]]
      <4>1. heap' = [n \in DOMAIN heap |-> IF \/ \E t \in Sessions : sessions'[t] = n
                                              \/ \E v \in Writers : writers'[v].state = n
                                           THEN heap[n] ELSE Accumulator]
        BY DEF Finish
      <4> QED BY <2>1, <4>1
    <3> QED BY <3>1, <3>2
  <2> QED BY <2>1, <2>2, IsASeq
<1>6. RecorderTypes'
  <2>1. \A t \in Sessions : sessions'[t] # None => sessions'[t] \in DOMAIN heap'
    BY <1>1, <1>3, <1>4 DEF RecorderTypes
  <2>2. \A v \in Writers : DraftTypes(v)'
    BY <1>1, <1>2, <1>4 DEF RecorderTypes, DraftTypes
  <2>3. temporaries' \subseteq Names
    BY <1>1 DEF RecorderTypes
  <2> QED BY <1>1, <1>2, <1>3, <1>5, <2>1, <2>2, <2>3 DEF RecorderTypes, DraftTypes
<1>7. HeapFits'
  <2>1. \A n \in DOMAIN heap' : /\ Honest(heap'[n])
                                /\ heap'[n].binding # None => heap'[n].binding <= runtime'.transition
    <3>1. Honest(Accumulator) /\ Accumulator.binding = None
      BY Empty DEF Accumulator
    <3> QED BY <1>1, <1>4, <3>1 DEF HeapFits
  <2>2. \A t, u \in Sessions : sessions'[t] = sessions'[u] /\ sessions'[t] # None => t = u
    BY <1>1, <1>3 DEF HeapFits
  <2>3. \A t \in Sessions : sessions'[t] # None =>
          /\ heap'[sessions'[t]].seq <= host'[t].seq
          /\ heap'[sessions'[t]].binding # None =>
               heap'[sessions'[t]].binding + transitions'[t] <= runtime'.transition
    BY <1>1, <1>3, <1>4 DEF HeapFits
  <2> QED BY <2>1, <2>2, <2>3 DEF HeapFits
<1>8. ASSUME NEW v \in Writers
      PROVE  DraftFits(v)'
  <2>1. CASE v = w
    BY <1>2, <2>1 DEF DraftFits, Resting
  <2>2. CASE v # w
    <3>1. \A t \in Sessions : host[t].seq \in Nat /\ host'[t].seq \in Nat /\ host[t].seq <= host'[t].seq
      BY <1>1, HostTypes
    <3> QED BY <1>1, <1>2, <2>2, <3>1, DraftStays DEF RecorderInv, RecorderTypes, DraftTypes
  <2> QED BY <2>1, <2>2
<1>9. \A t \in Sessions : Closing(t)' = Closing(t) \ {w} /\ LastName(t)' = LastName(t)
  BY <1>2 DEF Closing, Resting, LastName
<1>10. ASSUME NEW t \in Sessions, w \notin Closing(t)
       PROVE  SessionFits(t)'
  <2> SUFFICES ASSUME ~host'[t].clouded
               PROVE  SessionFits(t)'
    BY DEF SessionFits
  <2>1. host'[t] = host[t]
    OBVIOUS
  <2>2. t # s \/ writers[w].record.stage # "final"
    BY <1>10 DEF Closing
  <2>3. sessions'[t] = sessions[t] /\ (sessions[t] # None => heap'[sessions[t]] = heap[sessions[t]])
    BY <1>3, <1>4, <2>2
  <2>4. Closing(t)' = Closing(t) /\ \A v \in Closing(t) : writers'[v] = writers[v]
    BY <1>2, <1>9, <1>10 DEF Closing
  <2> QED BY <1>9, <2>1, <2>3, <2>4, SessionStays DEF RecorderInv
<1>11. \A name \in temporaries' : name[2] <= host'[name[1]].seq
  <2> TAKE name \in temporaries'
  <2>1. name \in temporaries /\ name[1] \in Sessions /\ name[2] <= host[name[1]].seq
    BY <1>1 DEF RecorderInv, RecorderTypes, Names
  <2> QED BY <2>1
<1>12. \A t \in Sessions : host'[t].since <= host'[t].seq
  BY DEF RecorderInv
<1>13. SessionFits(s)' \/ w \notin Closing(s) => RecorderInv'
  <2>1. \A t \in Sessions : t # s => w \notin Closing(t)
    BY DEF Closing
  <2>2. SessionFits(s)' \/ w \notin Closing(s) => \A t \in Sessions : SessionFits(t)'
    BY <1>10, <2>1
  <2> QED BY <1>6, <1>7, <1>8, <1>11, <1>12, <2>2 DEF RecorderInv
<1> QED BY <1>1, <1>2, <1>9, <1>13


(* The session a write is for, and the name of its record. *)
LEMMA WriterOf ==
  ASSUME RecorderInv, NEW w \in Writers, writers[w].at # "idle"
  PROVE  /\ writers[w].session \in Sessions /\ writers[w].at \in {"digest", "open", "rename"}
         /\ writers[w].record \in Drafts /\ writers[w].record.name \in Names
         /\ writers[w].record.name[1] = writers[w].session
         /\ writers[w].record.name[2] \in Nat
         /\ writers[w].record.name[2] <= host[writers[w].session].seq
         /\ writers[w].record.stage = IF writers[w].record.name[3] THEN "final" ELSE "checkpoint"
         /\ writers[w].state \in DOMAIN heap
<1>1. DraftFits(w) /\ writers[w] # Resting
  BY DEF RecorderInv, Resting
<1>2. /\ writers[w] \in [at : {"digest", "open", "rename"}, session : Sessions, state : Nat, record : Drafts]
      /\ writers[w].state \in DOMAIN heap
  BY <1>1 DEF RecorderInv, RecorderTypes
<1>3. writers[w].record.name \in Names /\ writers[w].record.name[2] \in Nat
  BY <1>2 DEF Drafts, Names
<1> QED BY <1>1, <1>2, <1>3 DEF DraftFits

(* A session whose final record is being written, and that has no cloud,   *)
(* is away, and no other write closes it.                                  *)
LEMMA ClosesAlone ==
  ASSUME RecorderInv, NEW w \in Writers, NEW s \in Sessions, w \in Closing(s), ~host[s].clouded
  PROVE  host[s].life = "away" /\ Closing(s) = {w}
<1>1. host[s].life \in {"here", "away"}
  BY HostTypes DEF RecorderInv
<1> QED BY <1>1 DEF RecorderInv, SessionFits

(* The digest of the policy has been read. *)
LEMMA DigestKeeps ==
  ASSUME RecorderInv, NEW w \in Writers, Digest(w)
  PROVE  RecorderInv'
<1> DEFINE n == heap[writers[w].state].calls
           r == [writers[w].record EXCEPT !.calls = n]
<1>1. /\ writers[w].at = "digest"
      /\ UNCHANGED <<heap, sessions, temporaries, records, host, runtime, script, deviated, transitions>>
      /\ writers' = [writers EXCEPT ![w].at = "open", ![w].record.calls = n]
  BY DEF Digest, hostVars
<1>2. RecorderTypes /\ HeapFits
  BY DEF RecorderInv
<1>3. writers[w] \in [at : {"digest", "open", "rename"}, session : Sessions, state : Nat, record : Drafts]
      /\ writers[w].state \in DOMAIN heap
  BY <1>1, <1>2 DEF RecorderTypes, Resting
<1>4. n \in Nat
  <2>1. heap[writers[w].state] \in Accumulators
    BY <1>2, <1>3 DEF RecorderTypes
  <2> QED BY <2>1 DEF Accumulators
<1>5. /\ r \in Drafts /\ r.name = writers[w].record.name /\ r.stage = writers[w].record.stage
      /\ r.batched = writers[w].record.batched /\ r.stable = writers[w].record.stable
      /\ r.then = writers[w].record.then
  BY <1>3, <1>4 DEF Drafts
<1>6. writers' = [writers EXCEPT ![w] = [writers[w] EXCEPT !.at = "open", !.record = r]]
  BY <1>1, <1>3
<1> HIDE DEF n, r
<1>7. /\ DOMAIN writers' = Writers /\ \A v \in Writers \ {w} : writers'[v] = writers[v]
      /\ writers'[w].at = "open" /\ writers'[w].session = writers[w].session /\ writers'[w].record = r
      /\ writers'[w].state = writers[w].state
      /\ writers'[w] \in [at : {"digest", "open", "rename"}, session : Sessions, state : Nat, record : Drafts]
  <2> DEFINE new == [writers[w] EXCEPT !.at = "open", !.record = r]
  <2>1. /\ new \in [at : {"digest", "open", "rename"}, session : Sessions, state : Nat, record : Drafts]
        /\ new.at = "open" /\ new.session = writers[w].session /\ new.record = r /\ new.state = writers[w].state
    BY <1>3, <1>5
  <2>2. writers' = [writers EXCEPT ![w] = new]
    BY <1>6
  <2> HIDE DEF new
  <2> QED BY <1>2, <2>1, <2>2 DEF RecorderTypes
<1>8. RecorderTypes'
  <2>1. \A v \in Writers : DraftTypes(v)'
    BY <1>1, <1>2, <1>3, <1>7 DEF RecorderTypes, DraftTypes
  <2> QED BY <1>1, <1>2, <1>7, <2>1 DEF RecorderTypes, DraftTypes
<1>9. HeapFits'
  BY <1>1, <1>2 DEF HeapFits
<1>10. ASSUME NEW v \in Writers
       PROVE  DraftFits(v)'
  <2>1. CASE v = w
    <3>1. DraftFits(w)
      BY DEF RecorderInv
    <3> QED BY <1>1, <1>5, <1>7, <2>1, <3>1 DEF DraftFits
  <2>2. CASE v # w
    BY <1>1, <1>7, <2>2 DEF RecorderInv, DraftFits
  <2> QED BY <2>1, <2>2
<1>11. ASSUME NEW t \in Sessions
       PROVE  SessionFits(t)'
  <2>1. LastName(t)' = LastName(t)
    BY <1>1 DEF LastName
  <2>2. Closing(t)' = Closing(t)
    BY <1>1, <1>5, <1>7 DEF Closing
  <2>3. CASE w \notin Closing(t)
    <3>1. \A v \in Closing(t) : writers'[v] = writers[v]
      BY <1>7, <2>3 DEF Closing
    <3> QED BY <1>1, <2>1, <2>2, <3>1, SessionStays DEF RecorderInv
  <2>4. CASE w \in Closing(t)
    <3> SUFFICES ASSUME ~host[t].clouded
                 PROVE  SessionFits(t)'
      BY <1>1 DEF SessionFits
    <3>1. host[t].life = "away" /\ Closing(t) = {w}
      BY <2>4, ClosesAlone
    <3>2. writers'[w].record.name = writers[w].record.name
      BY <1>5, <1>7
    <3>3. New(t) => LastName(t) \notin temporaries
      BY <1>1, <3>1 DEF RecorderInv, SessionFits
    <3>4. New(t)' = New(t)
      BY <1>1 DEF New
    <3>5. New(t) => \/ [name |-> LastName(t), stage |-> "final"] \in records
                    \/ writers[w].record.name = LastName(t)
      BY <3>1 DEF RecorderInv, SessionFits
    <3> QED BY <1>1, <2>1, <2>2, <3>1, <3>2, <3>3, <3>4, <3>5 DEF SessionFits
  <2> QED BY <2>3, <2>4
<1> QED BY <1>1, <1>8, <1>9, <1>10, <1>11 DEF RecorderInv

(* The temporary file is opened, or was there already. *)
LEMMA OpenKeeps ==
  ASSUME RecorderInv, NEW w \in Writers, Open(w)
  PROVE  RecorderInv'
<1>1. writers[w].at = "open" /\ UNCHANGED <<records, host, runtime, script, deviated, transitions>>
  BY DEF Open, hostVars
<1>2. RecorderTypes /\ HeapFits
  BY DEF RecorderInv
<1>3. PICK s \in Sessions : s = writers[w].session
  BY <1>1, WriterOf
<1>4. PICK name \in Names : name = writers[w].record.name
  BY <1>1, WriterOf
<1>5. /\ name[1] = s /\ name[2] <= host[s].seq
      /\ writers[w].record.stage = IF name[3] THEN "final" ELSE "checkpoint"
      /\ writers[w].state \in DOMAIN heap
  BY <1>1, <1>3, <1>4, WriterOf
<1>6. \A t \in Sessions : LastName(t) = name => t = s /\ w \in Closing(s)
  <2> SUFFICES ASSUME NEW t \in Sessions, LastName(t) = name
               PROVE  t = s /\ w \in Closing(s)
    OBVIOUS
  <2>1. name[1] = t /\ name[3] = TRUE
    BY DEF LastName
  <2> QED BY <1>1, <1>3, <1>5, <2>1 DEF Closing
<1>7. CASE name \in temporaries
  <2>1. Finish(w) /\ UNCHANGED temporaries
    BY <1>4, <1>7 DEF Open
  <2>2. \A t \in Sessions : LastName(t)' = LastName(t) /\ New(t)' = New(t)
    BY <1>1 DEF LastName, New
  <2>3. /\ (SessionFits(s)' \/ w \notin Closing(s)) => RecorderInv'
        /\ Closing(s)' = Closing(s) \ {w}
    <3>1. host \in [Sessions -> [life : {"here", "away"}, seq : Nat, since : Nat, clouded : BOOLEAN]]
          /\ records \subseteq [name : Names, stage : Stages]
      BY <1>2 DEF RecorderTypes
    <3>2. \A r \in records : r.stage = IF r.name[3] THEN "final" ELSE "checkpoint"
      BY DEF RecorderInv
    <3> QED BY <1>1, <1>3, <2>1, <3>1, <3>2, Finished
  <2>4. ASSUME w \in Closing(s)
        PROVE  SessionFits(s)'
    <3> SUFFICES ASSUME ~host[s].clouded
                 PROVE  SessionFits(s)'
      BY <1>1 DEF SessionFits
    <3>1. host[s].life = "away" /\ Closing(s) = {w}
      BY <2>4, ClosesAlone
    <3>2. Closing(s)' = {}
      BY <2>3, <3>1
    <3>3. New(s) => LastName(s) \notin temporaries
      BY <1>1, <3>1 DEF RecorderInv, SessionFits
    <3>4. New(s) => [name |-> LastName(s), stage |-> "final"] \in records
      BY <1>4, <1>7, <3>1, <3>3 DEF RecorderInv, SessionFits
    <3> QED BY <1>1, <2>1, <2>2, <3>1, <3>2, <3>3, <3>4 DEF SessionFits
  <2> QED BY <2>3, <2>4
<1>8. CASE name \notin temporaries
  <2>1. temporaries' = temporaries \cup {name} /\ writers' = [writers EXCEPT ![w].at = "rename"]
        /\ UNCHANGED <<sessions, heap>>
    BY <1>4, <1>8 DEF Open
  <2>2. writers[w] \in [at : {"digest", "open", "rename"}, session : Sessions, state : Nat, record : Drafts]
    BY <1>1, <1>2 DEF RecorderTypes, Resting
  <2>3. /\ DOMAIN writers' = Writers /\ \A v \in Writers \ {w} : writers'[v] = writers[v]
        /\ writers'[w].at = "rename" /\ writers'[w].session = s
        /\ writers'[w].record = writers[w].record /\ writers'[w].state = writers[w].state
        /\ writers'[w] \in [at : {"digest", "open", "rename"}, session : Sessions, state : Nat, record : Drafts]
    <3> DEFINE new == [writers[w] EXCEPT !.at = "rename"]
    <3>1. /\ new \in [at : {"digest", "open", "rename"}, session : Sessions, state : Nat, record : Drafts]
          /\ new.at = "rename" /\ new.session = s /\ new.record = writers[w].record /\ new.state = writers[w].state
      BY <1>3, <2>2
    <3>2. writers' = [writers EXCEPT ![w] = new]
      BY <2>1
    <3> HIDE DEF new
    <3> QED BY <1>2, <3>1, <3>2 DEF RecorderTypes
  <2>4. RecorderTypes'
    <3>1. \A v \in Writers : DraftTypes(v)'
      BY <1>2, <1>5, <2>1, <2>3 DEF RecorderTypes, DraftTypes
    <3>2. temporaries' \subseteq Names
      BY <1>2, <2>1 DEF RecorderTypes
    <3> QED BY <1>1, <1>2, <2>1, <2>3, <3>1, <3>2 DEF RecorderTypes, DraftTypes
  <2>5. HeapFits'
    BY <1>1, <1>2, <2>1 DEF HeapFits
  <2>6. ASSUME NEW v \in Writers
        PROVE  DraftFits(v)'
    <3>1. CASE v = w
      <4>1. DraftFits(w)
        BY DEF RecorderInv
      <4> QED BY <1>1, <1>3, <2>3, <3>1, <4>1 DEF DraftFits
    <3>2. CASE v # w
      BY <1>1, <2>3, <3>2 DEF RecorderInv, DraftFits
    <3> QED BY <3>1, <3>2
  <2>7. ASSUME NEW t \in Sessions
        PROVE  SessionFits(t)'
    <3>1. LastName(t)' = LastName(t) /\ New(t)' = New(t)
      BY <1>1 DEF LastName, New
    <3>2. Closing(t)' = Closing(t)
      BY <1>1, <1>3, <2>3 DEF Closing
    <3>3. CASE w \notin Closing(t)
      <4>1. \A v \in Closing(t) : writers'[v] = writers[v]
        BY <2>3, <3>3 DEF Closing
      <4>2. LastName(t) \in temporaries' => LastName(t) \in temporaries
        BY <1>6, <2>1, <3>3
      <4> QED BY <1>1, <2>1, <3>1, <3>2, <4>1, <4>2, SessionStays DEF RecorderInv
    <3>4. CASE w \in Closing(t)
      <4> SUFFICES ASSUME ~host[t].clouded
                   PROVE  SessionFits(t)'
        BY <1>1 DEF SessionFits
      <4>1. host[t].life = "away" /\ Closing(t) = {w}
        BY <3>4, ClosesAlone
      <4>2. writers'[w].record.name = name
        BY <1>4, <2>3
      <4>3. New(t) => LastName(t) \notin temporaries
        BY <1>1, <4>1 DEF RecorderInv, SessionFits
      <4>4. New(t) => [name |-> LastName(t), stage |-> "final"] \in records \/ name = LastName(t)
        BY <1>4, <4>1 DEF RecorderInv, SessionFits
      <4>5. New(t) /\ LastName(t) \in temporaries' => name = LastName(t)
        BY <2>1, <4>3
      <4> QED BY <1>1, <2>3, <3>1, <3>2, <4>1, <4>2, <4>4, <4>5 DEF SessionFits
    <3> QED BY <3>3, <3>4
  <2>8. \A one \in temporaries' : one[2] <= host'[one[1]].seq
    BY <1>1, <1>5, <2>1 DEF RecorderInv
  <2> QED BY <1>1, <2>4, <2>5, <2>6, <2>7, <2>8 DEF RecorderInv
<1> QED BY <1>7, <1>8


(* A record takes its name. *)
LEMMA RenameKeeps ==
  ASSUME RecorderInv, NEW w \in Writers, Rename(w)
  PROVE  RecorderInv'
<1>1. /\ writers[w].at = "rename" /\ Finish(w)
      /\ UNCHANGED <<host, runtime, script, deviated, transitions>>
  BY DEF Rename, hostVars
<1>2. RecorderTypes /\ HeapFits
  BY DEF RecorderInv
<1>3. PICK s \in Sessions : s = writers[w].session
  BY <1>1, WriterOf
<1>4. PICK name \in Names : name = writers[w].record.name
  BY <1>1, WriterOf
<1>5. PICK stage \in Stages : stage = writers[w].record.stage
  BY <1>1, WriterOf DEF Drafts
<1>6. /\ name[1] = s /\ stage = IF name[3] THEN "final" ELSE "checkpoint"
  BY <1>1, <1>3, <1>4, <1>5, WriterOf
<1>7. /\ records' = {r \in records : r.name # name} \cup {[name |-> name, stage |-> stage]}
      /\ temporaries' = temporaries \ {name}
  BY <1>4, <1>5 DEF Rename
<1>8. \A t \in Sessions : LastName(t)' = LastName(t) /\ New(t)' = New(t)
  BY <1>1 DEF LastName, New
<1>9. \A t \in Sessions : LastName(t) = name => stage = "final"
  <2> SUFFICES ASSUME NEW t \in Sessions, LastName(t) = name
               PROVE  stage = "final"
    OBVIOUS
  <2>1. name[3] = TRUE
    BY DEF LastName
  <2> QED BY <1>6, <2>1
<1>10. \A t \in Sessions : [name |-> LastName(t), stage |-> "final"] \in records =>
                             [name |-> LastName(t), stage |-> "final"] \in records'
  BY <1>7, <1>9
<1>11. /\ (SessionFits(s)' \/ w \notin Closing(s)) => RecorderInv'
       /\ Closing(s)' = Closing(s) \ {w}
  <2>1. host \in [Sessions -> [life : {"here", "away"}, seq : Nat, since : Nat, clouded : BOOLEAN]]
    BY <1>2 DEF RecorderTypes
  <2>2. records' \subseteq [name : Names, stage : Stages] /\ temporaries' \subseteq temporaries
    BY <1>2, <1>7 DEF RecorderTypes
  <2>3. \A r \in records' : r.stage = IF r.name[3] THEN "final" ELSE "checkpoint"
    BY <1>6, <1>7 DEF RecorderInv
  <2> QED BY <1>1, <1>3, <1>10, <2>1, <2>2, <2>3, Finished
<1>12. ASSUME w \in Closing(s)
       PROVE  SessionFits(s)'
  <2> SUFFICES ASSUME ~host[s].clouded
               PROVE  SessionFits(s)'
    BY <1>1 DEF SessionFits
  <2>1. host[s].life = "away" /\ Closing(s) = {w}
    BY <1>12, ClosesAlone
  <2>2. Closing(s)' = {}
    BY <1>11, <2>1
  <2>3. New(s) => [name |-> LastName(s), stage |-> "final"] \in records'
    <3>1. CASE LastName(s) = name
      BY <1>7, <1>9, <3>1
    <3>2. CASE LastName(s) # name
      BY <1>4, <1>10, <2>1, <3>2 DEF RecorderInv, SessionFits
    <3> QED BY <3>1, <3>2
  <2>4. New(s) => LastName(s) \notin temporaries'
    BY <1>4, <1>7, <2>1 DEF RecorderInv, SessionFits
  <2> QED BY <1>1, <1>8, <2>1, <2>2, <2>3, <2>4 DEF SessionFits
<1> QED BY <1>11, <1>12

(* The disk is full. *)
LEMMA WriteFailsKeeps ==
  ASSUME RecorderInv, NEW w \in Writers, WriteFails(w)
  PROVE  RecorderInv'
<1>1. /\ writers[w].at \in {"open", "rename"} /\ Finish(w)
      /\ host' = [host EXCEPT ![writers[w].session].clouded = TRUE]
      /\ UNCHANGED <<temporaries, records, runtime, script, deviated, transitions>>
  BY DEF WriteFails
<1>2. RecorderTypes
  BY DEF RecorderInv
<1>3. PICK s \in Sessions : s = writers[w].session
  BY <1>1, WriterOf
<1>4. /\ host' \in [Sessions -> [life : {"here", "away"}, seq : Nat, since : Nat, clouded : BOOLEAN]]
      /\ host'[s].seq = host[s].seq /\ host'[s].since = host[s].since /\ host'[s].life = host[s].life
      /\ host'[s].clouded /\ \A t \in Sessions \ {s} : host'[t] = host[t]
  <2> DEFINE new == [host[s] EXCEPT !.clouded = TRUE]
  <2>1. host \in [Sessions -> [life : {"here", "away"}, seq : Nat, since : Nat, clouded : BOOLEAN]]
    BY <1>2 DEF RecorderTypes
  <2>2. /\ new \in [life : {"here", "away"}, seq : Nat, since : Nat, clouded : BOOLEAN]
        /\ new.seq = host[s].seq /\ new.since = host[s].since /\ new.life = host[s].life /\ new.clouded
    BY <2>1
  <2>3. host' = [host EXCEPT ![s] = new]
    BY <1>1, <1>3
  <2> HIDE DEF new
  <2> QED BY <2>1, <2>2, <2>3
<1>5. (SessionFits(s)' \/ w \notin Closing(s)) => RecorderInv'
  <2>1. records' \subseteq [name : Names, stage : Stages] /\ temporaries' \subseteq temporaries
    BY <1>1, <1>2 DEF RecorderTypes
  <2>2. \A r \in records' : r.stage = IF r.name[3] THEN "final" ELSE "checkpoint"
    BY <1>1 DEF RecorderInv
  <2>3. \A t \in Sessions : /\ host'[t].seq = host[t].seq /\ host'[t].since = host[t].since
                            /\ host'[t].life = host[t].life
                            /\ (t # s => host'[t] = host[t])
                            /\ (~host'[t].clouded => host'[t] = host[t])
    BY <1>4
  <2> QED BY <1>1, <1>3, <1>4, <2>1, <2>2, <2>3, Finished
<1>6. SessionFits(s)'
  BY <1>4 DEF SessionFits
<1> QED BY <1>5, <1>6

(* RecorderInv is inductive. *)
LEMMA RecorderInductive ==
  ASSUME RecorderInv, RecorderNext \/ UNCHANGED recorderVars
  PROVE  RecorderInv'
<1>1. CASE UNCHANGED recorderVars
  <2>1. UNCHANGED <<heap, sessions, writers, temporaries, records, host, runtime, script, deviated, transitions>>
    BY <1>1 DEF recorderVars
  <2>2. RecorderTypes' /\ HeapFits'
    BY <2>1 DEF RecorderInv, RecorderTypes, HeapFits
  <2>3. \A w \in Writers : DraftFits(w)'
    BY <2>1 DEF RecorderInv, DraftFits
  <2>4. ASSUME NEW s \in Sessions
        PROVE  SessionFits(s)'
    <3>1. Closing(s)' = Closing(s) /\ LastName(s)' = LastName(s)
      BY <2>1 DEF Closing, LastName
    <3> QED BY <2>1, <3>1, SessionStays DEF RecorderInv
  <2> QED BY <2>1, <2>2, <2>3, <2>4 DEF RecorderInv
<1>2. CASE RecorderNext
  <2>1. ASSUME NEW s \in Sessions, Create(s) \/ OnEvent(s)
        PROVE  RecorderInv'
    BY <2>1, CreateKeeps, OnEventKeeps
  <2>2. ASSUME NEW w \in Writers, NEW s \in Sessions, Flush(w, s) \/ Dispose(w, s)
        PROVE  RecorderInv'
    BY <2>2, FlushKeeps, DisposeKeeps
  <2>3. ASSUME NEW w \in Writers, Digest(w) \/ Open(w) \/ Rename(w) \/ WriteFails(w)
        PROVE  RecorderInv'
    BY <2>3, DigestKeeps, OpenKeeps, RenameKeeps, WriteFailsKeeps
  <2> QED BY <1>2, <2>1, <2>2, <2>3, TransitionKeeps, CrashKeeps DEF RecorderNext
<1> QED BY <1>1, <1>2

(* It holds at the start. *)
LEMMA RecorderStarts == RecorderInit => RecorderInv
<1> SUFFICES ASSUME RecorderInit
             PROVE  RecorderInv
  OBVIOUS
<1>1. heap = <<>> /\ heap \in Seq(Accumulators) /\ DOMAIN heap = {}
  BY DEF RecorderInit
<1>2. /\ sessions \in [Sessions -> Nat \cup {None}] /\ \A s \in Sessions : sessions[s] = None
      /\ DOMAIN writers = Writers /\ \A w \in Writers : writers[w] = Resting
      /\ temporaries = {} /\ records = {}
      /\ script \in Scripts /\ script.life \in {"here", "away"} /\ script.installed \in BOOLEAN
      /\ deviated \in [Sessions -> BOOLEAN] /\ \A s \in Sessions : deviated[s] = FALSE
      /\ transitions \in [Sessions -> Nat]
  BY ScriptAssumption DEF RecorderInit
<1>3. /\ host \in [Sessions -> [life : {"here", "away"}, seq : Nat, since : Nat, clouded : BOOLEAN]]
      /\ \A s \in Sessions : host[s].seq = 0 /\ host[s].since = 0
  BY <1>2 DEF RecorderInit
<1>4. runtime \in [installed : BOOLEAN, transition : Nat]
  BY <1>2 DEF RecorderInit
<1>5. RecorderTypes
  BY <1>1, <1>2, <1>3, <1>4 DEF RecorderTypes
<1>6. HeapFits
  BY <1>1, <1>2 DEF HeapFits
<1>7. \A w \in Writers : DraftFits(w)
  BY <1>2 DEF DraftFits, Resting
<1>8. ASSUME NEW s \in Sessions
      PROVE  SessionFits(s) /\ host[s].since <= host[s].seq
  <2>1. Closing(s) = {} /\ ~New(s)
    BY <1>2, <1>3 DEF Closing, Resting, New
  <2> QED BY <1>2, <1>3, <2>1 DEF SessionFits
<1> QED BY <1>2, <1>5, <1>6, <1>7, <1>8 DEF RecorderInv

(* RecorderInv holds in every state of the host. *)
LEMMA RecorderAlways == PluginSpec => []RecorderInv
<1>1. PluginInit => RecorderInv
  BY RecorderStarts DEF PluginInit
<1>2. RecorderInv /\ [PluginNext]_hostedVars => RecorderInv'
  BY RecorderInductive DEF PluginNext, hostedVars
<1> QED BY <1>1, <1>2, PTL DEF PluginSpec

(* A call that has an outcome shares its ID and turn with no other call    *)
(* (TraceIsHonest; onEvent of dal-run-record).                             *)
THEOREM OutcomesAreOwn == PluginSpec => []TraceIsHonest
<1>1. RecorderInv => TraceIsHonest
  <2> SUFFICES ASSUME RecorderInv, NEW n \in DOMAIN heap,
                      NEW i \in DOMAIN heap[n].trace, NEW j \in DOMAIN heap[n].trace,
                      heap[n].trace[i].outcome # "unknown",
                      heap[n].trace[i].key = heap[n].trace[j].key
               PROVE  i = j
    BY DEF TraceIsHonest
  <2> DEFINE a == heap[n]
             key == a.trace[i].key
  <2>1. Honest(a) /\ a \in Accumulators
    BY DEF RecorderInv, HeapFits, RecorderTypes
  <2>2. key \in DOMAIN a.index /\ a.index[key] = i
    BY <2>1 DEF Honest
  <2>3. i # None
    <3>1. a.trace \in Seq(TraceEntry)
      BY <2>1 DEF Accumulators
    <3>2. i \in Nat
      BY <3>1
    <3> QED BY <3>2, NoneAssumption
  <2>4. a.trace[j].key = key
    OBVIOUS
  <2> HIDE DEF a, key
  <2>5. i \in DOMAIN a.trace /\ j \in DOMAIN a.trace
    BY DEF a
  <2> QED BY <2>1, <2>2, <2>3, <2>4, <2>5 DEF Honest
<1> QED BY <1>1, RecorderAlways, PTL

(* What a record claims of its session was the case when it was begun      *)
(* (ClaimsHold; writeRecord, generationStable and                          *)
(* controllerObservationFor of dal-run-record).                            *)
THEOREM RecordsClaimWhatWas == PluginSpec => []ClaimsHold
<1>1. RecorderInv => ClaimsHold
  BY DEF RecorderInv, DraftFits, ClaimsHold, RecordsNow
<1> QED BY <1>1, RecorderAlways, PTL

(* A session that was disposed of has its final record, unless the disk    *)
(* failed, the process ended or it came back meanwhile                     *)
(* (DisposedIsRecorded; dispose of dal-run-record).                        *)
THEOREM DisposalsAreRecorded == PluginSpec => []DisposedIsRecorded
<1>1. RecorderInv => DisposedIsRecorded
  <2> SUFFICES ASSUME RecorderInv, NEW s \in Sessions, host[s].life = "away", Writing(s) = {},
                      host[s].seq > host[s].since, ~host[s].clouded
               PROVE  [name |-> Name(s, host[s].seq, TRUE), stage |-> "final"] \in records
    BY DEF DisposedIsRecorded
  <2>1. Closing(s) = {}
    BY DEF Closing, Writing
  <2>2. [name |-> LastName(s), stage |-> "final"] \in records
    BY <2>1 DEF RecorderInv, SessionFits, New
  <2> QED BY <2>2 DEF LastName, Name
<1> QED BY <1>1, RecorderAlways, PTL

================================================================================
