--------------------------- MODULE ArtifactCampaign ---------------------------
(***************************************************************************)
(* The evidence ledger of src/src/artifact-campaign.ts: a frozen plan and  *)
(* a hash-linked log of reservations, results, resolutions and reviews.    *)
(* Every call takes writer.lock, replays the whole log, and appends at     *)
(* most one event under an exclusive name.  A crash leaves the lock, and   *)
(* whoever removes it by hand may misjudge its owner.                      *)
(*                                                                         *)
(* An event names its predecessor's digest: the log is a sequence.  An     *)
(* artifact stands for its whole descriptor, an operation for its content, *)
(* and a timed out attempt is a failed one.                                *)
(***************************************************************************)
EXTENDS Integers, SequencesExt

CONSTANTS
  Client,      \* concurrent calls
  Node,        \* node ids
  Artifact, Root, Workspace,  \* artifacts; those of the plan; those of kind workspace
  Report,      \* what may be reported: [outcome, outputs, metric, usage]
  Amount,      \* what may be reserved of the plan's resource
  Attempts, Rounds, Parallelism, Limit,  \* plan.limits
  Maximize,    \* plan.metric.direction
  MaxCrashes, MaxRemovals,  \* bounds of the model: dead calls, locks removed by hand
  None

ASSUME PlanAssumption ==
  /\ Attempts \in Nat \ {0} /\ Rounds \in Nat \ {0} /\ Limit \in Nat
  /\ Parallelism \in 1..Attempts
  /\ Root \subseteq Artifact /\ Root \cap Workspace # {} /\ Amount \subseteq Nat
  /\ Maximize \in BOOLEAN
Metric == Int   \* any finite number, by its rank
ASSUME ReportAssumption ==
  Report \subseteq [outcome : {"completed", "failed", "unknown"}, outputs : SUBSET Artifact,
                    metric : Metric \cup {None}, usage : Nat \cup {None}]

VARIABLES
  plan,     \* plan.json exists
  log,      \* events/: the operations in their order
  locked,   \* writer.lock exists
  client,   \* client[c]: its step, and the event it is about to publish
  crashes, removals  \* history: dead calls and removed locks so far

vars == <<plan, log, locked, client, crashes, removals>>

Actor == {"supervisor", "worker"}   \* the node's worker, and a supervisor who is not
Reservation == [kind : {"reserve"}, by : Actor, node : Node, parent : Node \cup {None},
                round : 1..(Rounds + 1), workspace : Artifact, inputs : SUBSET Artifact,
                amount : Amount]
Result == [kind : {"result", "resolve"}, by : Actor, node : Node, report : Report]
Review == [kind : {"review"}, by : Actor, node : Node, report : Report,
           accept : BOOLEAN, artifacts : SUBSET Artifact]
Operation == Reservation \cup Result \cup Review

-------------------------------------------------------------------------------
(* The projection of a log: initial() and transition().                    *)

Entry == [reservation : Reservation, report : Report \cup {None}, review : Review \cup {None}]
Incumbent == [node : Node, value : Metric]
Projection == [nodes : UNION {[N -> Entry] : N \in SUBSET Node},
               producer : UNION {[A -> Node \cup {None}] : A \in SUBSET Artifact},
               accepted : SUBSET Artifact, reserved : Nat, remaining : Nat, active : Nat,
               overrun : BOOLEAN, best : Incumbent \cup {None}]
ASSUME NoneIsNothing ==
  /\ None \notin Node /\ None \notin Metric /\ None \notin Nat /\ None \notin Report
  /\ None \notin Operation /\ None \notin Incumbent /\ None \notin Projection

Initial == [nodes |-> <<>>, producer |-> [a \in Root |-> None], accepted |-> Root,
            reserved |-> 0, remaining |-> Attempts, active |-> 0, overrun |-> FALSE,
            best |-> None]

(* Mutant: an unknown outcome frees its slot. *)
UnfinishedLenient(entry) == entry.report = None

Unfinished(entry) == entry.report = None \/ entry.report.outcome = "unknown"
WorkspacesOf(s, parent) ==
  IF parent = None THEN Root \cap Workspace
  ELSE {s.nodes[parent].reservation.workspace}
       \cup {a \in s.accepted \cap Workspace : s.producer[a] = parent}

MayReserve(s, op) ==
  /\ op.by = "supervisor"
  /\ ~s.overrun /\ s.remaining > 0
  /\ s.active < Parallelism
  /\ op.node \notin DOMAIN s.nodes
  /\ op.round <= Rounds
  /\ op.parent # None => /\ op.parent \in DOMAIN s.nodes
                         /\ s.nodes[op.parent].review # None
                         /\ s.nodes[op.parent].reservation.round < op.round
  /\ \A n \in DOMAIN s.nodes : s.nodes[n].reservation.round <= op.round
  /\ op.workspace \in WorkspacesOf(s, op.parent)
  /\ op.workspace \in op.inputs \cap Workspace
  /\ op.inputs \subseteq s.accepted
  /\ s.reserved + op.amount <= Limit

Reserve(s, op) ==
  [s EXCEPT !.nodes = [n \in DOMAIN @ \cup {op.node} |->
                         IF n = op.node THEN [reservation |-> op, report |-> None, review |-> None]
                                        ELSE @[n]],
            !.reserved = @ + op.amount, !.remaining = @ - 1, !.active = @ + 1]

(* Mutant: an output may have another producer already. *)
MayRecordAnyProducer(s, op) ==
  /\ op.node \in DOMAIN s.nodes
  /\ LET entry == s.nodes[op.node]
     IN  /\ \/ op.kind = "result" /\ op.by = "worker" /\ entry.report = None
            \/ /\ op.kind = "resolve" /\ op.by = "supervisor"
               /\ entry.report # None /\ entry.report.outcome = "unknown"
               /\ op.report.outcome # "unknown"
         /\ op.report.outcome = "completed" \/ op.report.metric = None
         /\ op.report.outputs \cap entry.reservation.inputs = {}

(* recordResult: first what tells a result from a resolution. *)
MayRecord(s, op) ==
  /\ op.node \in DOMAIN s.nodes
  /\ LET entry == s.nodes[op.node]
     IN  /\ \/ /\ op.kind = "result" /\ op.by = "worker"
               /\ entry.report = None
            \/ /\ op.kind = "resolve" /\ op.by = "supervisor"
               /\ entry.report # None /\ entry.report.outcome = "unknown"
               /\ op.report.outcome # "unknown"
               /\ entry.report.outputs \subseteq op.report.outputs
               /\ entry.report.usage # None => /\ op.report.usage # None
                                               /\ op.report.usage >= entry.report.usage
         /\ op.report.outcome = "completed" \/ op.report.metric = None
         /\ op.report.outputs \cap entry.reservation.inputs = {}
         /\ \A a \in op.report.outputs \cap DOMAIN s.producer : s.producer[a] = op.node

Record(s, op) ==
  LET nodes == [s.nodes EXCEPT ![op.node].report = op.report]
      usage == op.report.usage
  IN  [s EXCEPT !.nodes = nodes,
                !.producer = [a \in DOMAIN @ \cup op.report.outputs |->
                                IF a \in DOMAIN @ THEN @[a] ELSE op.node],
                !.overrun = @ \/ (usage # None /\ usage > nodes[op.node].reservation.amount),
                !.active = Cardinality({n \in DOMAIN nodes : Unfinished(nodes[n])})]

MayReview(s, op) ==
  /\ op.by = "supervisor"
  /\ op.node \in DOMAIN s.nodes
  /\ LET entry == s.nodes[op.node]
     IN  /\ ~Unfinished(entry) /\ entry.review = None
         /\ op.report = entry.report
         /\ op.artifacts \subseteq op.report.outputs
         /\ op.accept => op.report.outcome = "completed" /\ op.artifacts = op.report.outputs

(* Mutant: of equals the last one leads. *)
BetterOrEqual(v, best) == best = None \/ (IF Maximize THEN v >= best.value ELSE v <= best.value)

Better(v, best) == best = None \/ (IF Maximize THEN v > best.value ELSE v < best.value)
ReviewNode(s, op) ==
  [s EXCEPT !.nodes[op.node].review = op,
            !.accepted = @ \cup op.artifacts,
            !.best = IF op.accept /\ op.report.metric # None /\ Better(op.report.metric, @)
                     THEN [node |-> op.node, value |-> op.report.metric] ELSE @]

Allowed(s, op) == CASE op.kind = "reserve" -> MayReserve(s, op)
                    [] op.kind \in {"result", "resolve"} -> MayRecord(s, op)
                    [] op.kind = "review" -> MayReview(s, op)
Apply(s, op) == CASE op.kind = "reserve" -> Reserve(s, op)
                  [] op.kind \in {"result", "resolve"} -> Record(s, op)
                  [] op.kind = "review" -> ReviewNode(s, op)

-------------------------------------------------------------------------------
Rest == [at |-> "idle", event |-> None, sequence |-> 0]

Init == /\ plan = FALSE /\ log = <<>> /\ locked = FALSE
        /\ client = [c \in Client |-> Rest]
        /\ crashes = 0 /\ removals = 0

Goto(c, step) == client' = [client EXCEPT ![c] = [Rest EXCEPT !.at = step]]

(* lease: the lock is created exclusively, or the call is refused. *)
Lease(c) ==
  /\ client[c].at = "idle" /\ ~locked
  /\ locked' = TRUE
  /\ Goto(c, "action")
  /\ UNCHANGED <<plan, log, crashes, removals>>

(* prepareArtifactCampaign; a plan that exists already stays. *)
Prepare(c) ==
  /\ client[c].at = "action"
  /\ plan' = TRUE
  /\ Goto(c, "release")
  /\ UNCHANGED <<log, locked, crashes, removals>>

(* history: the log is replayed before anything else is looked at. *)
EventLimit == 4 * Attempts
Replay(s, op) == IF s # None /\ Allowed(s, op) THEN Apply(s, op) ELSE None
History == IF plan /\ Len(log) <= EventLimit THEN FoldLeft(Replay, Initial, log) ELSE None

(* appendCampaignOperation, up to the publication of an acceptable event.  *)
Accept(c) ==
  /\ client[c].at = "action"
  /\ \E s \in {History} \ {None}, op \in Operation :
       /\ Allowed(s, op)
       /\ client' = [client EXCEPT ![c] = [at |-> "publish", event |-> op,
                                           sequence |-> Len(log) + 1]]
  /\ UNCHANGED <<plan, log, locked, crashes, removals>>

(* A retry of a recorded operation, a refused one, or a mere reader of the *)
(* state.                                                                  *)
Answer(c) ==
  /\ client[c].at = "action"
  /\ Goto(c, "release")
  /\ UNCHANGED <<plan, log, locked, crashes, removals>>

(* Mutant: the sequence number is taken from the directory again. *)
PublishNext(c) ==
  /\ client[c].at = "publish"
  /\ log' = Append(log, client[c].event)
  /\ Goto(c, "release")
  /\ UNCHANGED <<plan, locked, crashes, removals>>

(* publishJsonExclusive under the name of the next sequence number. *)
Publish(c) ==
  /\ client[c].at = "publish"
  /\ log' = IF client[c].sequence = Len(log) + 1 THEN Append(log, client[c].event) ELSE log
  /\ Goto(c, "release")
  /\ UNCHANGED <<plan, locked, crashes, removals>>

(* The finally block removes the lock by its name. *)
Release(c) ==
  /\ client[c].at = "release"
  /\ locked' = FALSE
  /\ Goto(c, "idle")
  /\ UNCHANGED <<plan, log, crashes, removals>>

Crash(c) ==
  /\ client[c].at # "idle" /\ crashes < MaxCrashes
  /\ crashes' = crashes + 1
  /\ Goto(c, "idle")
  /\ UNCHANGED <<plan, log, locked, removals>>

(* "inspect the owner before manual recovery", and perhaps not well. *)
RemoveLock ==
  /\ locked /\ removals < MaxRemovals
  /\ locked' = FALSE /\ removals' = removals + 1
  /\ UNCHANGED <<plan, log, client, crashes>>

Next == \/ \E c \in Client : \/ Lease(c) \/ Prepare(c) \/ Accept(c) \/ Answer(c)
                             \/ Publish(c) \/ Release(c) \/ Crash(c)
        \/ RemoveLock

Spec == Init /\ [][Next]_vars

-------------------------------------------------------------------------------
(* What follows is said of the log itself, not of its projection.          *)
Events(kind) == {i \in DOMAIN log : log[i].kind = kind}
Reported(n) == {i \in Events("result") \cup Events("resolve") : log[i].node = n}
Settled(n) == \E i \in Reported(n) : log[i].report.outcome # "unknown"
Outputs(n) == UNION {log[i].report.outputs : i \in Reported(n)}

ArtifactTypeOK ==
  /\ plan \in BOOLEAN /\ locked \in BOOLEAN
  /\ \A i \in DOMAIN log : log[i].node \in Node
  /\ \A c \in Client : /\ client[c].at \in {"idle", "action", "publish", "release"}
                        /\ (client[c].at = "publish") = (client[c].sequence # 0)

(* The log can always be read back: whatever calls did with or without a   *)
(* lock, each event was legal after exactly those before it, and a full    *)
(* campaign stays below the loader's limit.                                *)
LogLoads == plan => History # None

(* An event that was published stays where it is, also when two writers    *)
(* believe they hold the lock.                                             *)
LogGrows == [][IsPrefix(log, log') /\ (plan => plan')]_vars

(* The plan's limits bind the work in flight: an unknown outcome keeps its *)
(* slot, a failure refunds nothing, and after a reported overrun nobody    *)
(* starts anything.                                                        *)
LimitsBind ==
  LET starts == Events("reserve")
  IN  /\ Cardinality(starts) <= Attempts
      /\ FoldFunctionOnSet(LAMBDA op, sum : op.amount + sum, 0, log, starts) <= Limit
      /\ Cardinality({i \in starts : ~Settled(log[i].node)}) <= Parallelism
      /\ \A i \in starts : \A j \in Reported(log[i].node) :
           log[j].report.usage # None /\ log[j].report.usage > log[i].amount =>
             \A k \in starts : k < j

(* No artifact is made, over any number of attempts, from itself; and what *)
(* an attempt started from had been accepted before.                       *)
MadeFrom(a, b) == \E i \in Events("reserve") : a \in Outputs(log[i].node) /\ b \in log[i].inputs
ProvenanceIsSound ==
  /\ \A S \in (SUBSET Artifact) \ {{}} : \E a \in S : \A b \in S : ~MadeFrom(a, b)
  /\ \A i \in Events("reserve") : \A a \in log[i].inputs \ Root :
       \E j \in Events("review") : j < i /\ a \in log[j].artifacts

(* A review is the last word on its attempt, and the incumbent is the best *)
(* of the accepted metrics, the first of equals.                           *)
Scored == {i \in Events("review") : log[i].accept /\ log[i].report.metric # None}
Ahead(i, j) == LET v == log[i].report.metric
                   u == log[j].report.metric
               IN  IF v = u THEN i <= j ELSE (v > u) = Maximize
ReviewsStand ==
  /\ \A i \in Events("review") : \A j \in Reported(log[i].node) :
       j < i /\ (log[j].report = log[i].report \/ log[j].report.outcome = "unknown")
  /\ plan => LET best == History.best
             IN  IF Scored = {} THEN best = None
                ELSE \E i \in Scored :
                       /\ \A j \in Scored : Ahead(i, j)
                       /\ best = [node |-> log[i].node, value |-> log[i].report.metric]
===============================================================================
