----------------------- MODULE ArtifactCampaign_proofs -----------------------
(***************************************************************************)
(* The research ledger only grows, for any plan, clients and reports, any  *)
(* number of crashes, and whoever removes the lock at whatever moment.     *)
(***************************************************************************)
EXTENDS ArtifactCampaign, FiniteSums, SequenceTheorems

Call == [at : {"idle", "action", "publish", "release"}, event : Operation \cup {None},
         sequence : Nat]

(* A call holds an event exactly while it is about to publish it. *)
LogInv ==
  /\ plan \in BOOLEAN /\ locked \in BOOLEAN
  /\ log \in Seq(Operation)
  /\ client \in [Client -> Call]
  /\ \A c \in Client : /\ client[c].at = "publish" => client[c].event \in Operation
                       /\ (client[c].at = "publish") = (client[c].sequence # 0)

-------------------------------------------------------------------------------
(* Every event is about a node.                                            *)
LEMMA EventsHaveNodes == ASSUME NEW op \in Operation PROVE op.node \in Node
BY DEF Operation, Reservation, Result, Review

(* A step that ends with a call that holds nothing. *)
LEMMA GotoKeeps ==
  ASSUME LogInv, NEW c \in Client, NEW step \in {"idle", "action", "release"}, Goto(c, step),
         plan' \in BOOLEAN, locked' \in BOOLEAN, log' \in Seq(Operation)
  PROVE  LogInv'
<1>1. [Rest EXCEPT !.at = step] = [at |-> step, event |-> None, sequence |-> 0]
  BY DEF Rest
<1>2. PICK call \in Call : /\ call.at = step /\ call.sequence = 0
                           /\ client' = [client EXCEPT ![c] = call]
  BY <1>1 DEF Goto, Call
<1> QED BY <1>2 DEF LogInv

(* A call that accepts an event holds it, with a sequence number.          *)
LEMMA AcceptKeeps == ASSUME LogInv, NEW c \in Client, Accept(c) PROVE LogInv'
<1>1. PICK op \in Operation :
        /\ client' = [client EXCEPT ![c] = [at |-> "publish", event |-> op, sequence |-> Len(log) + 1]]
        /\ UNCHANGED <<plan, log, locked>>
  BY DEF Accept
<1>2. Len(log) + 1 \in Nat /\ Len(log) + 1 # 0
  BY DEF LogInv
<1>3. PICK call \in Call : /\ call.at = "publish" /\ call.sequence # 0 /\ call.event \in Operation
                           /\ client' = [client EXCEPT ![c] = call]
  BY <1>1, <1>2 DEF Call
<1> QED BY <1>1, <1>3 DEF LogInv

(* Publishing appends one event, or leaves the log to whoever was faster. *)
LEMMA PublishAppends ==
  ASSUME LogInv, NEW c \in Client, Publish(c)
  PROVE  /\ log' \in Seq(Operation)
         /\ log' = log \/ \E op \in Operation : log' = Append(log, op)
<1>1. client[c].event \in Operation
  BY DEF LogInv, Publish
<1> QED BY <1>1 DEF LogInv, Publish

(* No call holds anything at first.                                        *)
LEMMA LogInitially == Init => LogInv
<1> SUFFICES ASSUME Init PROVE LogInv
  OBVIOUS
<1>1. Rest \in Call /\ Rest.at = "idle" /\ Rest.sequence = 0
  BY DEF Rest, Call
<1>2. client = [c \in Client |-> Rest]
  BY DEF Init
<1>3. \A c \in Client : client[c].at = "idle" /\ client[c].sequence = 0
  BY <1>1, <1>2
<1>4. client \in [Client -> Call]
  BY <1>1, <1>2
<1>5. log = <<>> /\ <<>> \in Seq(Operation)
  BY DEF Init
<1>6. plan \in BOOLEAN /\ locked \in BOOLEAN
  BY DEF Init
<1> QED BY <1>3, <1>4, <1>5, <1>6 DEF LogInv

(* Every step keeps what calls know of their events.                       *)
LEMMA LogStep == LogInv /\ [Next]_vars => LogInv'
<1> SUFFICES ASSUME LogInv, [Next]_vars PROVE LogInv'
  OBVIOUS
<1>1. ASSUME NEW c \in Client, Lease(c) \/ Prepare(c) \/ Answer(c) \/ Release(c) \/ Crash(c)
      PROVE  LogInv'
  <2>1. PICK step \in {"idle", "action", "release"} : Goto(c, step)
    BY <1>1 DEF Lease, Prepare, Answer, Release, Crash
  <2>2. plan' \in BOOLEAN /\ locked' \in BOOLEAN /\ log' \in Seq(Operation)
    BY <1>1 DEF Lease, Prepare, Answer, Release, Crash, LogInv
  <2> QED BY <2>1, <2>2, GotoKeeps
<1>2. ASSUME NEW c \in Client, Publish(c) PROVE LogInv'
  <2>1. Goto(c, "release") /\ plan' \in BOOLEAN /\ locked' \in BOOLEAN
    BY <1>2 DEF Publish, LogInv
  <2> QED BY <1>2, <2>1, PublishAppends, GotoKeeps
<1>3. CASE RemoveLock
  BY <1>3 DEF RemoveLock, LogInv
<1>4. CASE UNCHANGED vars
  BY <1>4 DEF vars, LogInv
<1> QED BY <1>1, <1>2, <1>3, <1>4, AcceptKeeps DEF Next

(* What every call of the ledger knows of the event it holds. *)
THEOREM LogInvariant == Spec => []LogInv
<1> QED BY LogInitially, LogStep, PTL DEF Spec

(* Type correctness of the ledger and its calls. *)
THEOREM ArtifactTypes == Spec => []ArtifactTypeOK
<1>1. LogInv => ArtifactTypeOK
  BY EventsHaveNodes DEF LogInv, ArtifactTypeOK, Call
<1> QED BY <1>1, LogInvariant, PTL

(* appendCampaignOperation never changes a published event, and a plan is  *)
(* never taken back, although two calls may believe they hold the lock.    *)
THEOREM LogOnlyGrows == Spec => LogGrows
<1>1. ASSUME LogInv, [Next]_vars PROVE IsPrefix(log, log') /\ (plan => plan')
  <2>1. log \in Seq(Operation)
    BY <1>1 DEF LogInv
  <2>2. IsPrefix(log, log)
    BY <2>1 DEF IsPrefix
  <2>3. ASSUME NEW c \in Client, Publish(c) PROVE IsPrefix(log, log') /\ plan' = plan
    <3>1. ASSUME NEW op \in Operation PROVE IsPrefix(log, Append(log, op))
      <4>1. /\ Len(Append(log, op)) = Len(log) + 1
            /\ \A i \in 1..Len(log) : Append(log, op)[i] = log[i]
        BY <2>1
      <4>2. SubSeq(log, 1, Len(log)) = SubSeq(Append(log, op), 1, Len(log))
        BY <2>1, <4>1
      <4> QED BY <2>1, <4>1, <4>2 DEF IsPrefix
    <3> QED BY <1>1, <2>2, <2>3, <3>1, PublishAppends DEF Publish
  <2>4. (log' = log /\ (plan => plan')) \/ \E c \in Client : Publish(c)
    BY <1>1 DEF Next, vars, Lease, Prepare, Accept, Answer, Release, Crash, RemoveLock
  <2> QED BY <2>2, <2>3, <2>4
<1>2. LogInv /\ [Next]_vars => [IsPrefix(log, log') /\ (plan => plan')]_vars
  BY <1>1
<1> QED BY <1>2, LogInvariant, PTL DEF Spec, LogGrows
-------------------------------------------------------------------------------
(* The fold of a log, one event at a time.                                 *)

(* The loader's fold, as a function over the sets of positions that the    *)
(* community modules compute it with.                                      *)
Replays(f, l, n) ==
  f = [S \in SUBSET (1..n) |-> IF S = {} THEN Initial ELSE Replay(f[S \ {Max(S)}], l[Max(S)])]

(* Max is the greatest element of a set of positions. *)
LEMMA MaxIs ==
  ASSUME NEW n \in Nat, NEW S \in SUBSET (1..n), S # {}
  PROVE  Max(S) \in S /\ \A m \in S : m <= Max(S)
<1>1. \E x \in S : \A m \in S : m <= x
  <2>1. S \in SUBSET (0..n)
    OBVIOUS
  <2> QED BY <2>1, GreatestNumber
<1>2. \E x \in S : \A m \in S : x >= m
  BY <1>1
<1> QED BY <1>2 DEF Max

(* There is such a function for any number of positions. *)
LEMMA ReplaysExist ==
  ASSUME NEW l, NEW m \in Nat
  PROVE  \E f : Replays(f, l, m)
<1> DEFINE N == {n \in Nat : \E f : Replays(f, l, n)}
<1>1. 0 \in N
  <2> DEFINE f == [S \in SUBSET (1..0) |-> Initial]
  <2>1. \A S \in SUBSET (1..0) : S = {}
    OBVIOUS
  <2>2. Replays(f, l, 0)
    BY <2>1 DEF Replays
  <2> HIDE DEF f
  <2> QED BY <2>2
<1>2. ASSUME NEW n \in N
      PROVE  n + 1 \in N
  <2>1. n \in Nat /\ \E f : Replays(f, l, n)
    OBVIOUS
  <2>2. PICK f : Replays(f, l, n)
    BY <2>1
  <2> DEFINE g == [S \in SUBSET (1..n + 1) |->
                     IF S = {} THEN Initial ELSE Replay(f[S \ {Max(S)}], l[Max(S)])]
  <2>3. ASSUME NEW S \in SUBSET (1..n)
        PROVE  g[S] = f[S]
    <3>1. S \in SUBSET (1..n + 1)
      BY <2>1
    <3> QED BY <2>2, <3>1 DEF Replays
  <2>4. ASSUME NEW S \in SUBSET (1..n + 1), S # {}
        PROVE  S \ {Max(S)} \in SUBSET (1..n)
    <3>1. PICK x \in S : x = Max(S) /\ \A k \in S : k <= x
      <4>1. n + 1 \in Nat
        BY <2>1
      <4> QED BY <2>4, <4>1, MaxIs
    <3>2. ASSUME NEW k \in S, k # x
          PROVE  k \in 1..n
      <4>1. k <= x
        BY <3>1
      <4>2. k \in 1..n + 1 /\ x \in 1..n + 1
        OBVIOUS
      <4> QED BY <2>1, <3>2, <4>1, <4>2
    <3> QED BY <3>1, <3>2
  <2>5. Replays(g, l, n + 1)
    <3>1. ASSUME NEW S \in SUBSET (1..n + 1)
          PROVE  g[S] = IF S = {} THEN Initial ELSE Replay(g[S \ {Max(S)}], l[Max(S)])
      BY <2>3, <2>4
    <3> QED BY <3>1 DEF Replays
  <2> HIDE DEF g
  <2>6. \E h : Replays(h, l, n + 1)
    BY <2>5
  <2> QED BY <2>1, <2>6
<1> HIDE DEF N
<1>3. N = Nat
  BY <1>1, <1>2, NumbersInduct DEF N
<1> QED BY <1>3 DEF N

(* The fold of a log is the value of such a function at all its positions. *)
LEMMA FoldReplays ==
  ASSUME NEW l \in Seq(Operation)
  PROVE  \E f : /\ Replays(f, l, Len(l))
                /\ FoldLeft(Replay, Initial, l) = f[1..Len(l)]
<1> DEFINE D == SUBSET (1..Len(l))
           Iter(g) == g = [S \in D |-> IF S = {} THEN Initial
                                       ELSE LET x == Max(S) IN Replay(g[S \ {x}], l[x])]
           iter == CHOOSE g : Iter(g)
<1>1. Len(l) \in Nat /\ DOMAIN l = 1..Len(l)
  OBVIOUS
<1>2. FoldLeft(Replay, Initial, l) = iter[1..Len(l)]
  BY <1>1 DEF FoldLeft, MapThenFoldSet
<1>3. PICK f : Replays(f, l, Len(l))
  BY <1>1, ReplaysExist
<1>4. \A g : Replays(g, l, Len(l)) <=> Iter(g)
  BY DEF Replays
<1> HIDE DEF Iter
<1>5. Replays(iter, l, Len(l))
  <2>1. \E g : Iter(g)
    BY <1>3, <1>4
  <2>2. Iter(iter)
    BY <2>1
  <2> QED BY <1>4, <2>2
<1> HIDE DEF iter
<1> QED BY <1>2, <1>5

(* Functions for logs that agree on their first positions agree there.     *)
LEMMA ReplaysAgree ==
  ASSUME NEW l, NEW k, NEW n \in Nat, NEW m \in 0..n, NEW f, NEW g,
         Replays(f, l, n), Replays(g, k, m),
         \A i \in 1..m : l[i] = k[i]
  PROVE  f[1..m] = g[1..m]
<1> DEFINE N == {j \in Nat : j <= m => f[1..j] = g[1..j]}
<1>1. 0 \in N
  <2>1. 1..0 = {} /\ {} \in SUBSET (1..n) /\ {} \in SUBSET (1..m)
    OBVIOUS
  <2> QED BY <2>1 DEF Replays
<1>2. ASSUME NEW j \in N
      PROVE  j + 1 \in N
  <2>1. j \in Nat /\ (j <= m => f[1..j] = g[1..j])
    OBVIOUS
  <2>2. ASSUME j + 1 <= m
        PROVE  f[1..j + 1] = g[1..j + 1]
    <3>1. PICK S : S = 1..j + 1
      OBVIOUS
    <3>2. S \in SUBSET (1..n) /\ S \in SUBSET (1..m) /\ S # {} /\ S \in SUBSET (1..j + 1)
      BY <2>1, <2>2, <3>1
    <3>3. Max(S) \in S /\ \A i \in S : i <= Max(S)
      BY <2>1, <3>2, MaxIs
    <3>4. Max(S) = j + 1
      BY <2>1, <3>1, <3>3
    <3>5. S \ {j + 1} = 1..j
      BY <2>1, <3>1
    <3>6. f[S] = Replay(f[1..j], l[j + 1]) /\ g[S] = Replay(g[1..j], k[j + 1])
      BY <3>2, <3>4, <3>5 DEF Replays
    <3>7. l[j + 1] = k[j + 1] /\ f[1..j] = g[1..j]
      BY <2>1, <2>2
    <3> QED BY <3>1, <3>6, <3>7
  <2> QED BY <2>1, <2>2
<1> HIDE DEF N
<1>3. N = Nat
  BY <1>1, <1>2, NumbersInduct DEF N
<1> QED BY <1>3 DEF N

(* The fold of a longer log goes on from the fold of the log. *)
LEMMA FoldAppends ==
  ASSUME NEW l \in Seq(Operation), NEW op \in Operation
  PROVE  FoldLeft(Replay, Initial, Append(l, op)) = Replay(FoldLeft(Replay, Initial, l), op)
<1>1. PICK n \in Nat : n = Len(l) /\ n + 1 \in Nat /\ n \in 0..n + 1
  <2>1. Len(l) \in Nat
    OBVIOUS
  <2> QED BY <2>1
<1>2. PICK k \in Seq(Operation) : k = Append(l, op)
  BY AppendProperties
<1>3. Len(k) = n + 1 /\ k[n + 1] = op
  BY <1>1, <1>2, AppendProperties
<1>4. \A i \in 1..n : k[i] = l[i]
  BY <1>1, <1>2, AppendProperties
<1>5. PICK f : Replays(f, k, n + 1) /\ FoldLeft(Replay, Initial, k) = f[1..n + 1]
  BY <1>3, FoldReplays
<1>6. PICK g : Replays(g, l, n) /\ FoldLeft(Replay, Initial, l) = g[1..n]
  BY <1>1, FoldReplays
<1>7. f[1..n] = g[1..n]
  <2>1. n + 1 \in Nat /\ n \in 0..n + 1
    BY <1>1
  <2> QED BY <1>4, <1>5, <1>6, <2>1, ReplaysAgree
<1>8. f[1..n + 1] = Replay(f[1..n], k[n + 1])
  <2>1. PICK S \in SUBSET (1..n + 1) : S = 1..n + 1
    OBVIOUS
  <2>2. n + 1 \in S /\ S # {}
    BY <1>1, <2>1
  <2>3. S \ {n + 1} = 1..n
    <3>1. \A i \in Nat : i \in 1..n + 1 /\ i # n + 1 <=> i \in 1..n
      BY <1>1
    <3> QED BY <1>1, <2>1, <3>1
  <2>4. PICK x \in S : x = Max(S) /\ \A m \in S : m <= x
    BY <1>1, <2>2, MaxIs
  <2>5. x = n + 1
    BY <1>1, <2>1, <2>2, <2>4
  <2> QED BY <1>5, <2>1, <2>2, <2>3, <2>4, <2>5 DEF Replays
<1> QED BY <1>2, <1>3, <1>5, <1>6, <1>7, <1>8

(* The fold of no event is the initial projection. *)
LEMMA FoldBegins == FoldLeft(Replay, Initial, <<>>) = Initial
<1>1. <<>> \in Seq(Operation) /\ Len(<<>>) = 0 /\ 1..0 = {}
  OBVIOUS
<1>2. PICK f : Replays(f, <<>>, 0) /\ FoldLeft(Replay, Initial, <<>>) = f[1..0]
  BY <1>1, FoldReplays
<1> QED BY <1>1, <1>2 DEF Replays

-------------------------------------------------------------------------------
(* The inductive invariant: what the fold of the log says of each of its   *)
(* events, and what a call that is about to publish knows.                 *)

Folded(l) == FoldLeft(Replay, Initial, l)

Starts(l) == {i \in DOMAIN l : l[i].kind = "reserve"}
Told(l, n) == {i \in DOMAIN l : l[i].kind \in {"result", "resolve"} /\ l[i].node = n}
Seen(l) == {i \in DOMAIN l : l[i].kind = "review"}

(* Every event of the log is in the projection, unless a later one of its  *)
(* attempt took its place: only what ended unknown can be resolved.        *)
Shows(entry, op) ==
  /\ op.kind = "reserve" => entry.reservation = op
  /\ op.kind \in {"result", "resolve"} =>
       entry.report # None /\ (entry.report = op.report \/ op.report.outcome = "unknown")
  /\ op.kind = "resolve" => entry.report.outcome # "unknown"
  /\ op.kind = "review" => entry.review = op /\ entry.report = op.report /\ ~Unfinished(entry)
Traced(s, l) ==
  \A i \in DOMAIN l : l[i].node \in DOMAIN s.nodes /\ Shows(s.nodes[l[i].node], l[i])

(* Every attempt of the projection is on the log. *)
Backed(s, l) ==
  \A n \in DOMAIN s.nodes :
    /\ \E i \in Starts(l) : l[i] = s.nodes[n].reservation /\ l[i].node = n
    /\ s.nodes[n].report # None => \E i \in Told(l, n) : l[i].report = s.nodes[n].report

(* An attempt starts, ends, is resolved and reviewed once, in this order.  *)
Once(l) == \A i, j \in DOMAIN l : l[i].node = l[j].node /\ l[i].kind = l[j].kind => i = j
Ordered(l) ==
  /\ \A i \in Starts(l), j \in DOMAIN l : l[i].node = l[j].node => i <= j
  /\ \A i \in Seen(l) : \A j \in Told(l, l[i].node) : j < i

Open(s) == {n \in DOMAIN s.nodes : Unfinished(s.nodes[n])}
Spent(l) == FoldFunctionOnSet(LAMBDA op, sum : op.amount + sum, 0, l, Starts(l))
Overruns(l, i, j) == /\ i \in Starts(l) /\ j \in Told(l, l[i].node)
                     /\ l[j].report.usage # None /\ l[j].report.usage > l[i].amount
Counted(s, l) ==
  /\ IsFiniteSet(DOMAIN s.nodes) /\ Cardinality(DOMAIN s.nodes) + s.remaining = Attempts
  /\ s.active = Cardinality(Open(s)) /\ s.active <= Parallelism
  /\ s.reserved = Spent(l) /\ s.reserved <= Limit
  /\ \A i, j \in DOMAIN l : Overruns(l, i, j) => s.overrun = TRUE /\ \A k \in Starts(l) : k < j

Sourced(s, l) ==
  /\ \A i \in DOMAIN l : l[i].kind \in {"result", "resolve"} =>
       \A a \in l[i].report.outputs : a \in DOMAIN s.producer /\ s.producer[a] = l[i].node
  /\ \A a \in Root : a \in DOMAIN s.producer /\ s.producer[a] = None
  /\ \A a \in s.accepted \ Root : \E j \in Seen(l) : a \in l[j].artifacts
  /\ \A j \in Seen(l) : l[j].artifacts \subseteq l[j].report.outputs
  /\ \A i \in Starts(l) : \A a \in l[i].inputs \ Root : \E j \in Seen(l) : j < i /\ a \in l[j].artifacts

Rated(l) == {i \in Seen(l) : l[i].accept = TRUE /\ l[i].report.metric # None}
Leads(l, i, j) == LET v == l[i].report.metric
                      u == l[j].report.metric
                  IN  IF v = u THEN i <= j ELSE (v > u) <=> (Maximize = TRUE)
Led(s, l) ==
  IF Rated(l) = {} THEN s.best = None
  ELSE \E i \in Rated(l) : /\ \A j \in Rated(l) : Leads(l, i, j)
                           /\ s.best = [node |-> l[i].node, value |-> l[i].report.metric]

Explains(s, l) ==
  /\ Traced(s, l) /\ Backed(s, l) /\ Once(l) /\ Ordered(l)
  /\ Counted(s, l) /\ Sourced(s, l) /\ Led(s, l)

(* A call that is about to publish has a legal event, unless it is late.   *)
Timely(call) ==
  call.at = "publish" =>
    /\ plan = TRUE /\ call.sequence <= Len(log) + 1
    /\ call.sequence = Len(log) + 1 => Allowed(Folded(log), call.event)

CampaignInv ==
  /\ LogInv /\ Folded(log) \in Projection /\ Explains(Folded(log), log)
  /\ \A c \in Client : Timely(client[c])

-------------------------------------------------------------------------------
(* Lemmas about one event more.                                            *)

(* k is the log l with op as its last event, at position p. *)
Grown(k, l, p, op) ==
  /\ p \in Nat /\ DOMAIN k = DOMAIN l \cup {p} /\ p \notin DOMAIN l
  /\ k[p] = op /\ op \in Operation
  /\ \A i \in DOMAIN l : i \in Nat /\ i < p /\ k[i] = l[i] /\ l[i] \in Operation

(* Appending an event makes such a log. *)
LEMMA AppendGrows ==
  ASSUME NEW l \in Seq(Operation), NEW op \in Operation
  PROVE  Grown(Append(l, op), l, Len(l) + 1, op)
<1>1. Len(l) \in Nat /\ DOMAIN l = 1..Len(l) /\ \A i \in 1..Len(l) : l[i] \in Operation
  BY ElementOfSeq, LenProperties
<1>2. /\ Append(l, op) \in Seq(Operation) /\ Len(Append(l, op)) = Len(l) + 1
      /\ \A i \in 1..Len(l) : Append(l, op)[i] = l[i]
      /\ Append(l, op)[Len(l) + 1] = op
  BY AppendProperties
<1>3. DOMAIN Append(l, op) = 1..(Len(l) + 1)
  BY <1>2, LenProperties
<1>4. 1..(Len(l) + 1) = (1..Len(l)) \cup {Len(l) + 1}
  BY <1>1
<1> QED BY <1>1, <1>2, <1>3, <1>4 DEF Grown

(* What kinds of events there are. *)
LEMMA EventIs ==
  ASSUME NEW op \in Operation
  PROVE  /\ op.kind \in {"reserve", "result", "resolve", "review"} /\ op.node \in Node
         /\ op.kind = "reserve" => op \in Reservation
         /\ op.kind \in {"result", "resolve"} => op \in Result
         /\ op.kind = "review" => op \in Review
BY DEF Operation, Reservation, Result, Review

(* None is no event, and no report. *)
LEMMA NoneIsOther ==
  /\ \A op \in Reservation \cup Result \cup Review : op # None
  /\ \A r \in Report : r # None
BY NoneIsNothing DEF Operation

(* The fold over the reservations of a log is a sum. *)
LEMMA SpentSums ==
  ASSUME NEW l, IsFiniteSet(Starts(l))
  PROVE  \E f : /\ Sums(f, [i \in Starts(l) |-> l[i].amount], SUBSET Starts(l))
                /\ Spent(l) = f[Starts(l)]
<1> DEFINE S == Starts(l)
           v == [i \in S |-> l[i].amount]
           Iter(g) == g = [s \in SUBSET S |-> IF s = {} THEN 0
                           ELSE LET x == CHOOSE x \in s : TRUE IN l[x].amount + g[s \ {x}]]
           iter == CHOOSE g : Iter(g)
<1>1. Spent(l) = iter[S]
  BY DEF Spent, FoldFunctionOnSet, MapThenFoldSet
<1> HIDE DEF S
<1>2. PICK f : Sums(f, v, SUBSET S)
  BY SumsExist DEF S
<1>3. \A g : Sums(g, v, SUBSET S) <=> Iter(g)
  BY DEF Sums, Some, ButSome
<1> HIDE DEF Iter
<1>4. Sums(iter, v, SUBSET S)
  <2>1. \E g : Iter(g)
    BY <1>2, <1>3
  <2>2. Iter(iter)
    BY <2>1
  <2> QED BY <1>3, <2>2
<1> HIDE DEF iter
<1>5. \E g : Sums(g, v, SUBSET S) /\ Spent(l) = g[S]
  BY <1>1, <1>4
<1> QED BY <1>5 DEF S

(* The positions of a log are finitely many. *)
LEMMA PositionsFinite ==
  ASSUME NEW l \in Seq(Operation)
  PROVE  IsFiniteSet(DOMAIN l) /\ IsFiniteSet(Starts(l)) /\ Starts(l) \subseteq DOMAIN l
<1>1. \A n \in Nat : IsFiniteSet(1..n)
  BY FS_Interval
<1>2. Len(l) \in Nat /\ DOMAIN l = 1..Len(l)
  BY LenProperties
<1>3. IsFiniteSet(DOMAIN l) /\ Starts(l) \subseteq DOMAIN l
  BY <1>1, <1>2 DEF Starts
<1> QED BY <1>3, FS_Subset

(* A further reservation adds its amount to what is spent, nothing else does. *)
LEMMA SpentAdds ==
  ASSUME NEW l \in Seq(Operation), NEW k \in Seq(Operation), NEW p, NEW op, Grown(k, l, p, op)
  PROVE  /\ Spent(l) \in Nat
         /\ op.kind = "reserve" => Spent(k) = Spent(l) + op.amount
         /\ op.kind # "reserve" => Spent(k) = Spent(l)
<1> DEFINE R == Starts(l)
           Q == Starts(k)
<1>1. IsFiniteSet(R) /\ IsFiniteSet(Q)
  BY PositionsFinite
<1>2. R \subseteq Q /\ p \notin R /\ Q = IF op.kind = "reserve" THEN R \cup {p} ELSE R
  BY DEF Grown, Starts
<1>3. \A i \in Q : k[i].amount \in Nat
  <2>1. \A i \in Q : k[i] \in Operation /\ k[i].kind = "reserve"
    BY DEF Starts, Grown
  <2>2. \A o \in Operation : o.kind = "reserve" => o.amount \in Nat
    BY EventIs, PlanAssumption DEF Reservation
  <2> HIDE DEF Q
  <2> QED BY <2>1, <2>2
<1>4. \A i \in R : l[i].amount = k[i].amount
  BY DEF Grown, Starts
<1>5. op.kind = "reserve" => k[p].amount = op.amount /\ p \in Q
  BY DEF Grown, Starts
<1> HIDE DEF R, Q
<1>6. PICK u : u = [i \in R |-> l[i].amount]
  OBVIOUS
<1>7. PICK v : v = [i \in Q |-> k[i].amount]
  OBVIOUS
<1>8. PICK f : Sums(f, v, SUBSET Q) /\ Spent(k) = f[Q]
  BY <1>1, <1>7, SpentSums DEF Q
<1>9. PICK g : Sums(g, u, SUBSET R) /\ Spent(l) = g[R]
  BY <1>1, <1>6, SpentSums DEF R
<1>10. Adds(f, v, Q) /\ Adds(g, u, R) /\ SameOn(v, u, R)
  <2>1. \A i \in R : v[i] = u[i]
    BY <1>2, <1>4, <1>6, <1>7
  <2>2. (\A i \in Q : v[i] \in Nat) /\ (\A i \in R : u[i] \in Nat)
    <3>1. \A i \in Q : v[i] = k[i].amount
      BY <1>7
    <3>2. \A i \in R : u[i] = k[i].amount /\ i \in Q
      BY <1>2, <1>4, <1>6
    <3> QED BY <1>3, <3>1, <3>2
  <2> QED BY <1>1, <1>8, <1>9, <2>1, <2>2 DEF Adds, SameOn
<1>11. Splits(f, v, Q) /\ Splits(g, u, R) /\ f[R] = g[R]
  BY <1>2, <1>10, SumsSplit, SumsAgree
<1>12. Spent(l) \in Nat
  BY <1>9, <1>11 DEF Splits
<1>13. ASSUME op.kind = "reserve"
       PROVE  Spent(k) = Spent(l) + op.amount
  <2>1. p \in Q /\ Q \ {p} = R /\ v[p] = op.amount /\ op.amount \in Nat
    BY <1>2, <1>3, <1>5, <1>7, <1>13
  <2>2. f[Q] = op.amount + f[R]
    BY <1>11, <2>1 DEF Splits
  <2> QED BY <1>8, <1>9, <1>11, <1>12, <2>1, <2>2
<1>14. ASSUME op.kind # "reserve"
       PROVE  Spent(k) = Spent(l)
  BY <1>2, <1>8, <1>9, <1>11, <1>14
<1> QED BY <1>12, <1>13, <1>14

(* What a projection is made of. *)
LEMMA StateIs ==
  ASSUME NEW s \in Projection
  PROVE  /\ DOMAIN s.nodes \in SUBSET Node /\ s.nodes \in [DOMAIN s.nodes -> Entry]
         /\ DOMAIN s.producer \in SUBSET Artifact
         /\ s.producer \in [DOMAIN s.producer -> Node \cup {None}]
         /\ s.accepted \in SUBSET Artifact /\ s.reserved \in Nat /\ s.remaining \in Nat
         /\ s.active \in Nat /\ s.overrun \in BOOLEAN /\ s.best \in Incumbent \cup {None}
<1>1. /\ s.nodes \in UNION {[N -> Entry] : N \in SUBSET Node}
      /\ s.producer \in UNION {[A -> Node \cup {None}] : A \in SUBSET Artifact}
  BY DEF Projection
<1>2. PICK N \in SUBSET Node : s.nodes \in [N -> Entry]
  BY <1>1
<1>3. PICK A \in SUBSET Artifact : s.producer \in [A -> Node \cup {None}]
  BY <1>1
<1> QED BY <1>2, <1>3 DEF Projection

-------------------------------------------------------------------------------
(* What Apply may change of a projection s, leaving t. *)
SameArtifacts(t, s) == t.producer = s.producer /\ t.accepted = s.accepted
SameBudget(t, s) == t.reserved = s.reserved /\ t.remaining = s.remaining
NodesBut(t, s, n) == \A m \in DOMAIN s.nodes : m # n => t.nodes[m] = s.nodes[m]

(* A reservation adds its attempt, and takes its amount and a slot. *)
Starting(t, s, op) ==
  /\ DOMAIN t.nodes = DOMAIN s.nodes \cup {op.node} /\ op.node \notin DOMAIN s.nodes
  /\ NodesBut(t, s, op.node)
  /\ t.nodes[op.node] = [reservation |-> op, report |-> None, review |-> None]
Takes(t, s, op) ==
  /\ t.reserved = s.reserved + op.amount /\ t.reserved <= Limit
  /\ t.remaining = s.remaining - 1 /\ t.active = s.active + 1 /\ t.active <= Parallelism

(* A legal reservation does just that. *)
LEMMA ReserveIs ==
  ASSUME NEW s \in Projection, NEW op \in Operation, op.kind = "reserve", MayReserve(s, op),
         NEW t, t = Reserve(s, op)
  PROVE  /\ t \in Projection /\ Starting(t, s, op) /\ Takes(t, s, op)
         /\ SameArtifacts(t, s) /\ t.best = s.best /\ t.overrun = s.overrun
<1>1. op \in Reservation /\ op.node \in Node /\ op.amount \in Nat
  BY EventIs, PlanAssumption DEF Reservation
<1>2. DOMAIN s.nodes \in SUBSET Node /\ s.nodes \in [DOMAIN s.nodes -> Entry]
  BY StateIs
<1> DEFINE entry == [reservation |-> op, report |-> None, review |-> None]
           nodes == [n \in DOMAIN s.nodes \cup {op.node} |->
                       IF n = op.node THEN entry ELSE s.nodes[n]]
<1>3. entry \in Entry
  BY <1>1 DEF Entry
<1>4. DOMAIN nodes \in SUBSET Node /\ nodes \in [DOMAIN nodes -> Entry]
  BY <1>1, <1>2, <1>3
<1>5. /\ t = [s EXCEPT !.nodes = nodes, !.reserved = @ + op.amount, !.remaining = @ - 1,
                       !.active = @ + 1]
  BY DEF Reserve
<1>6. /\ op.node \notin DOMAIN s.nodes /\ s.remaining > 0 /\ s.active < Parallelism
      /\ s.reserved + op.amount <= Limit
  BY DEF MayReserve
<1>7. /\ DOMAIN nodes = DOMAIN s.nodes \cup {op.node} /\ nodes[op.node] = entry
      /\ \A m \in DOMAIN s.nodes : m # op.node => nodes[m] = s.nodes[m]
  OBVIOUS
<1> HIDE DEF nodes, entry
<1>8. /\ t.nodes = nodes /\ t.producer = s.producer /\ t.accepted = s.accepted
      /\ t.reserved = s.reserved + op.amount /\ t.remaining = s.remaining - 1
      /\ t.active = s.active + 1 /\ t.overrun = s.overrun /\ t.best = s.best
  BY <1>5 DEF Projection
<1>9. nodes \in UNION {[N -> Entry] : N \in SUBSET Node}
  BY <1>4
<1>10. s.reserved + op.amount \in Nat /\ s.remaining - 1 \in Nat /\ s.active + 1 \in Nat
  BY <1>1, <1>6, StateIs
<1>11. t \in Projection
  BY <1>5, <1>9, <1>10 DEF Projection
<1>12. t.active <= Parallelism
  BY <1>6, <1>8, StateIs, PlanAssumption
<1>13. Starting(t, s, op)
  BY <1>6, <1>7, <1>8 DEF NodesBut, Starting, entry
<1>14. Takes(t, s, op)
  BY <1>6, <1>8, <1>12 DEF Takes
<1> QED BY <1>8, <1>11, <1>13, <1>14 DEF SameArtifacts

(* A result or a resolution sets its attempt's report, names the producer  *)
(* of what is new, and counts the open attempts again.                     *)
Reports(t, s, op) ==
  /\ DOMAIN t.nodes = DOMAIN s.nodes /\ op.node \in DOMAIN s.nodes /\ NodesBut(t, s, op.node)
  /\ t.nodes[op.node] = [s.nodes[op.node] EXCEPT !.report = op.report]
Produces(t, s, op) ==
  /\ DOMAIN t.producer = DOMAIN s.producer \cup op.report.outputs
  /\ \A a \in DOMAIN t.producer :
       t.producer[a] = IF a \in DOMAIN s.producer THEN s.producer[a] ELSE op.node
Charges(t, s, op) ==
  /\ SameBudget(t, s) /\ t.active = Cardinality(Open(t))
  /\ s.overrun = TRUE => t.overrun = TRUE
  /\ op.report.usage # None /\ op.report.usage > s.nodes[op.node].reservation.amount =>
       t.overrun = TRUE

(* A legal result or resolution does just that. *)
LEMMA RecordIs ==
  ASSUME NEW s \in Projection, IsFiniteSet(DOMAIN s.nodes), NEW op \in Operation,
         op.kind \in {"result", "resolve"}, MayRecord(s, op), NEW t, t = Record(s, op)
  PROVE  /\ t \in Projection /\ t.accepted = s.accepted /\ t.best = s.best
         /\ Reports(t, s, op) /\ Produces(t, s, op) /\ Charges(t, s, op)
<1>1. op \in Result /\ op.node \in Node /\ op.report \in Report /\ op.report.outputs \subseteq Artifact
  BY EventIs, ReportAssumption DEF Result
<1>2. /\ DOMAIN s.nodes \in SUBSET Node /\ s.nodes \in [DOMAIN s.nodes -> Entry]
      /\ DOMAIN s.producer \in SUBSET Artifact
      /\ s.producer \in [DOMAIN s.producer -> Node \cup {None}] /\ s.overrun \in BOOLEAN
  BY StateIs
<1>3. op.node \in DOMAIN s.nodes
  BY DEF MayRecord
<1> DEFINE entry == [s.nodes[op.node] EXCEPT !.report = op.report]
           nodes == [s.nodes EXCEPT ![op.node].report = op.report]
           producer == [a \in DOMAIN s.producer \cup op.report.outputs |->
                          IF a \in DOMAIN s.producer THEN s.producer[a] ELSE op.node]
           usage == op.report.usage
           over == s.overrun \/ (usage # None /\ usage > nodes[op.node].reservation.amount)
           open == {n \in DOMAIN nodes : Unfinished(nodes[n])}
<1>4. entry \in Entry /\ entry.reservation = s.nodes[op.node].reservation
  BY <1>1, <1>2, <1>3 DEF Entry
<1>5. /\ DOMAIN nodes = DOMAIN s.nodes /\ nodes[op.node] = entry
      /\ \A m \in DOMAIN s.nodes : m # op.node => nodes[m] = s.nodes[m]
  BY <1>2, <1>3
<1>6. nodes \in UNION {[N -> Entry] : N \in SUBSET Node}
  <2>1. nodes \in [DOMAIN s.nodes -> Entry]
    BY <1>1, <1>2, <1>3 DEF Entry
  <2> QED BY <1>2, <2>1
<1>7. /\ DOMAIN producer = DOMAIN s.producer \cup op.report.outputs
      /\ \A a \in DOMAIN producer :
           producer[a] = IF a \in DOMAIN s.producer THEN s.producer[a] ELSE op.node
  OBVIOUS
<1>8. producer \in UNION {[A -> Node \cup {None}] : A \in SUBSET Artifact}
  <2>1. DOMAIN s.producer \cup op.report.outputs \in SUBSET Artifact
    BY <1>1, <1>2
  <2>2. producer \in [DOMAIN s.producer \cup op.report.outputs -> Node \cup {None}]
    BY <1>1, <1>2
  <2> QED BY <2>1, <2>2
<1>9. /\ over \in BOOLEAN
      /\ s.overrun = TRUE => over = TRUE
      /\ usage # None /\ usage > s.nodes[op.node].reservation.amount => over = TRUE
  BY <1>2, <1>4, <1>5
<1>10. Cardinality(open) \in Nat
  <2>1. IsFiniteSet(open)
    BY <1>5, FS_Subset
  <2> QED BY <2>1, FS_CardinalityType
<1>11. t = [s EXCEPT !.nodes = nodes, !.producer = producer, !.overrun = over,
                     !.active = Cardinality(open)]
  BY DEF Record
<1> HIDE DEF nodes, producer, over, entry
<1>12. /\ t.nodes = nodes /\ t.producer = producer /\ t.accepted = s.accepted
       /\ t.reserved = s.reserved /\ t.remaining = s.remaining
       /\ t.active = Cardinality(open) /\ t.overrun = over /\ t.best = s.best
  <2> HIDE DEF open
  <2> QED BY <1>11 DEF Projection
<1>13. open = Open(t)
  BY <1>12 DEF Open
<1>14. t \in Projection
  <2> HIDE DEF open
  <2> QED BY <1>6, <1>8, <1>9, <1>10, <1>11 DEF Projection
<1>15. Reports(t, s, op)
  BY <1>3, <1>5, <1>12 DEF NodesBut, entry, Reports
<1>16. Produces(t, s, op)
  BY <1>7, <1>12 DEF Produces
<1>17. Charges(t, s, op)
  BY <1>9, <1>12, <1>13 DEF SameBudget, Charges
<1> QED BY <1>12, <1>14, <1>15, <1>16, <1>17

(* A review is noted with its attempt, and accepts artifacts of its report.*)
Reviews(t, s, op) ==
  /\ DOMAIN t.nodes = DOMAIN s.nodes /\ op.node \in DOMAIN s.nodes /\ NodesBut(t, s, op.node)
  /\ t.nodes[op.node] = [s.nodes[op.node] EXCEPT !.review = op]
Leader(t, s, op) ==
  t.best = IF op.accept /\ op.report.metric # None /\ Better(op.report.metric, s.best)
           THEN [node |-> op.node, value |-> op.report.metric] ELSE s.best

(* A legal review does just that. *)
LEMMA ReviewIs ==
  ASSUME NEW s \in Projection, NEW op \in Operation, op.kind = "review", MayReview(s, op),
         NEW t, t = ReviewNode(s, op)
  PROVE  /\ t \in Projection /\ Reviews(t, s, op) /\ Leader(t, s, op)
         /\ t.producer = s.producer /\ t.accepted = s.accepted \cup op.artifacts
         /\ SameBudget(t, s) /\ t.active = s.active /\ t.overrun = s.overrun
<1>1. /\ op \in Review /\ op.node \in Node /\ op.report \in Report /\ op.artifacts \subseteq Artifact
      /\ op.report.metric \in Metric \cup {None}
  BY EventIs, ReportAssumption DEF Review
<1>2. /\ DOMAIN s.nodes \in SUBSET Node /\ s.nodes \in [DOMAIN s.nodes -> Entry]
      /\ s.accepted \in SUBSET Artifact /\ s.best \in Incumbent \cup {None}
  BY StateIs
<1>3. op.node \in DOMAIN s.nodes
  BY DEF MayReview
<1> DEFINE entry == [s.nodes[op.node] EXCEPT !.review = op]
           nodes == [s.nodes EXCEPT ![op.node].review = op]
           best == IF op.accept /\ op.report.metric # None /\ Better(op.report.metric, s.best)
                   THEN [node |-> op.node, value |-> op.report.metric] ELSE s.best
<1>4. /\ DOMAIN nodes = DOMAIN s.nodes /\ nodes[op.node] = entry
      /\ \A m \in DOMAIN s.nodes : m # op.node => nodes[m] = s.nodes[m]
  BY <1>2, <1>3
<1>5. nodes \in UNION {[N -> Entry] : N \in SUBSET Node}
  <2>1. nodes \in [DOMAIN s.nodes -> Entry]
    BY <1>1, <1>2, <1>3 DEF Entry
  <2> QED BY <1>2, <2>1
<1>6. best \in Incumbent \cup {None}
  BY <1>1, <1>2 DEF Incumbent
<1>7. t = [s EXCEPT !.nodes = nodes, !.accepted = @ \cup op.artifacts, !.best = best]
  BY DEF ReviewNode
<1> HIDE DEF nodes, best, entry
<1>8. /\ t.nodes = nodes /\ t.producer = s.producer /\ t.accepted = s.accepted \cup op.artifacts
      /\ t.reserved = s.reserved /\ t.remaining = s.remaining
      /\ t.active = s.active /\ t.overrun = s.overrun /\ t.best = best
  BY <1>7 DEF Projection
<1>9. t \in Projection
  <2>1. s.accepted \cup op.artifacts \in SUBSET Artifact
    BY <1>1, <1>2
  <2> QED BY <1>5, <1>6, <1>7, <2>1 DEF Projection
<1>10. Reviews(t, s, op)
  BY <1>3, <1>4, <1>8 DEF NodesBut, Reviews, entry
<1>11. Leader(t, s, op)
  BY <1>8 DEF Leader, best
<1> QED BY <1>8, <1>9, <1>10, <1>11 DEF SameBudget

-------------------------------------------------------------------------------
(* Each part of what explains a log goes on to hold after a legal event.   *)

(* op is legal in s and leaves t, and k is the log l with it. *)
Goes(s, t, l, k, p, op) ==
  /\ s \in Projection /\ IsFiniteSet(DOMAIN s.nodes)
  /\ Allowed(s, op) /\ t = Apply(s, op) /\ Grown(k, l, p, op)

(* The cases of a legal event. *)
LEMMA ApplyIs ==
  ASSUME NEW s, NEW t, NEW l, NEW k, NEW p, NEW op, Goes(s, t, l, k, p, op)
  PROVE  /\ s \in Projection /\ IsFiniteSet(DOMAIN s.nodes) /\ Grown(k, l, p, op) /\ op \in Operation
         /\ op.kind \in {"reserve", "result", "resolve", "review"}
         /\ op.kind = "reserve" => MayReserve(s, op) /\ t = Reserve(s, op)
         /\ op.kind \in {"result", "resolve"} => MayRecord(s, op) /\ t = Record(s, op)
         /\ op.kind = "review" => MayReview(s, op) /\ t = ReviewNode(s, op)
<1>1. op \in Operation /\ op.kind \in {"reserve", "result", "resolve", "review"}
  BY EventIs DEF Goes, Grown
<1>2. op.kind = "reserve" => MayReserve(s, op) /\ t = Reserve(s, op)
  BY <1>1 DEF Goes, Allowed, Apply
<1>3. op.kind \in {"result", "resolve"} => MayRecord(s, op) /\ t = Record(s, op)
  BY <1>1 DEF Goes, Allowed, Apply
<1>4. op.kind = "review" => MayReview(s, op) /\ t = ReviewNode(s, op)
  BY <1>1 DEF Goes, Allowed, Apply
<1> QED BY <1>1, <1>2, <1>3, <1>4 DEF Goes

(* An event leaves all attempts but its own alone. *)
LEMMA NodesAre ==
  ASSUME NEW s, NEW t, NEW l, NEW k, NEW p, NEW op, Goes(s, t, l, k, p, op)
  PROVE  /\ t \in Projection /\ DOMAIN t.nodes = DOMAIN s.nodes \cup {op.node}
         /\ op.kind = "reserve" <=> op.node \notin DOMAIN s.nodes
         /\ NodesBut(t, s, op.node)
<1>1. CASE op.kind = "reserve"
  <2>1. MayReserve(s, op) /\ t = Reserve(s, op) /\ s \in Projection /\ op \in Operation
    BY <1>1, ApplyIs
  <2> QED BY <1>1, <2>1, ReserveIs DEF Starting
<1>2. CASE op.kind \in {"result", "resolve"}
  <2>1. /\ MayRecord(s, op) /\ t = Record(s, op) /\ s \in Projection /\ op \in Operation
        /\ IsFiniteSet(DOMAIN s.nodes)
    BY <1>2, ApplyIs
  <2>2. t \in Projection /\ DOMAIN t.nodes = DOMAIN s.nodes /\ op.node \in DOMAIN s.nodes
        /\ NodesBut(t, s, op.node)
    BY <1>2, <2>1, RecordIs DEF Reports
  <2> QED BY <1>2, <2>2
<1>3. CASE op.kind = "review"
  <2>1. MayReview(s, op) /\ t = ReviewNode(s, op) /\ s \in Projection /\ op \in Operation
    BY <1>3, ApplyIs
  <2>2. t \in Projection /\ DOMAIN t.nodes = DOMAIN s.nodes /\ op.node \in DOMAIN s.nodes
        /\ NodesBut(t, s, op.node)
    BY <1>3, <2>1, ReviewIs DEF Reviews
  <2> QED BY <1>3, <2>2
<1> QED BY <1>1, <1>2, <1>3, ApplyIs

(* What it does to its own: e is left of d. *)
Turns(e, d, op) ==
  /\ op.kind = "reserve" => e.reservation = op /\ e.report = None /\ e.review = None
  /\ op.kind \in {"result", "resolve"} =>
       e.reservation = d.reservation /\ e.report = op.report /\ op.report # None /\ e.review = d.review
  /\ op.kind = "review" => e.reservation = d.reservation /\ e.report = d.report /\ e.review = op

(* A legal event turns its entry so. *)
LEMMA EntryTurns ==
  ASSUME NEW s, NEW t, NEW l, NEW k, NEW p, NEW op, Goes(s, t, l, k, p, op)
  PROVE  Turns(t.nodes[op.node], s.nodes[op.node], op)
<1>0. op.node \in DOMAIN s.nodes => s.nodes[op.node] \in Entry
  <2>1. s \in Projection
    BY ApplyIs
  <2> QED BY <2>1, StateIs
<1>1. CASE op.kind = "reserve"
  <2>1. MayReserve(s, op) /\ t = Reserve(s, op) /\ s \in Projection /\ op \in Operation
    BY <1>1, ApplyIs
  <2>2. t.nodes[op.node] = [reservation |-> op, report |-> None, review |-> None]
    BY <1>1, <2>1, ReserveIs DEF Starting
  <2> QED BY <1>1, <2>2 DEF Turns
<1>2. CASE op.kind \in {"result", "resolve"}
  <2>1. /\ MayRecord(s, op) /\ t = Record(s, op) /\ s \in Projection /\ op \in Operation
        /\ IsFiniteSet(DOMAIN s.nodes)
    BY <1>2, ApplyIs
  <2>2. t.nodes[op.node] = [s.nodes[op.node] EXCEPT !.report = op.report] /\ op.node \in DOMAIN s.nodes
    BY <1>2, <2>1, RecordIs DEF Reports
  <2>3. op.report # None
    BY <1>2, <2>1, EventIs, NoneIsOther DEF Result
  <2>4. s.nodes[op.node] \in Entry
    BY <1>0, <2>2
  <2>5. /\ t.nodes[op.node].reservation = s.nodes[op.node].reservation
        /\ t.nodes[op.node].review = s.nodes[op.node].review
        /\ t.nodes[op.node].report = op.report
    BY <2>2, <2>4 DEF Entry
  <2> QED BY <1>2, <2>3, <2>5 DEF Turns
<1>3. CASE op.kind = "review"
  <2>1. MayReview(s, op) /\ t = ReviewNode(s, op) /\ s \in Projection /\ op \in Operation
    BY <1>3, ApplyIs
  <2>2. t.nodes[op.node] = [s.nodes[op.node] EXCEPT !.review = op] /\ op.node \in DOMAIN s.nodes
    BY <1>3, <2>1, ReviewIs DEF Reviews
  <2>3. s.nodes[op.node] \in Entry
    BY <1>0, <2>2
  <2>5. /\ t.nodes[op.node].reservation = s.nodes[op.node].reservation
        /\ t.nodes[op.node].report = s.nodes[op.node].report
        /\ t.nodes[op.node].review = op
    BY <2>2, <2>3 DEF Entry
  <2> QED BY <1>3, <2>5 DEF Turns
<1> QED BY <1>1, <1>2, <1>3, ApplyIs

(* What the log may already say of the attempt of a legal event. *)
LEMMA BeforeIs ==
  ASSUME NEW s, NEW t, NEW l, NEW k, NEW p, NEW op, Goes(s, t, l, k, p, op), Traced(s, l),
         NEW i \in DOMAIN l, l[i].node = op.node
  PROVE  /\ op.kind # "reserve" /\ op.node \in DOMAIN s.nodes
         /\ l[i].kind = "reserve" => s.nodes[op.node].reservation = l[i]
         /\ op.kind = "result" => l[i].kind = "reserve"
         /\ op.kind = "resolve" => /\ l[i].kind \in {"reserve", "result"}
                                   /\ l[i].kind = "result" => l[i].report.outcome = "unknown"
         /\ op.kind = "review" => l[i].kind # "review"
<1>1. /\ op.node \in DOMAIN s.nodes /\ Shows(s.nodes[op.node], l[i])
      /\ l[i] \in Operation /\ l[i].kind \in {"reserve", "result", "resolve", "review"}
  BY ApplyIs, EventIs DEF Traced, Grown
<1>2. op.kind # "reserve"
  BY <1>1, NodesAre
<1>3. ASSUME op.kind = "result"
      PROVE  l[i].kind = "reserve"
  <2>1. s.nodes[op.node].report = None
    BY <1>3, ApplyIs DEF MayRecord
  <2> QED BY <1>1, <2>1 DEF Shows, Unfinished
<1>4. ASSUME op.kind = "resolve"
      PROVE  /\ l[i].kind \in {"reserve", "result"}
             /\ l[i].kind = "result" => l[i].report.outcome = "unknown"
  <2>1. s.nodes[op.node].report # None /\ s.nodes[op.node].report.outcome = "unknown"
    BY <1>4, ApplyIs DEF MayRecord
  <2> QED BY <1>1, <2>1 DEF Shows, Unfinished
<1>5. ASSUME op.kind = "review"
      PROVE  l[i].kind # "review"
  <2>1. s.nodes[op.node].review = None
    BY <1>5, ApplyIs DEF MayReview
  <2>2. l[i].kind = "review" => l[i] # None
    BY <1>1, EventIs, NoneIsOther
  <2> QED BY <1>1, <2>1, <2>2 DEF Shows
<1> QED BY <1>1, <1>2, <1>3, <1>4, <1>5 DEF Shows

(* Every event is in the projection, also after one more.                  *)
LEMMA TracedKeeps ==
  ASSUME NEW s, NEW t, NEW l, NEW k, NEW p, NEW op, Goes(s, t, l, k, p, op), Traced(s, l)
  PROVE  Traced(t, k)
<1>1. Grown(k, l, p, op) /\ op \in Operation
  BY ApplyIs
<1>0. /\ DOMAIN t.nodes = DOMAIN s.nodes \cup {op.node} /\ NodesBut(t, s, op.node)
      /\ Turns(t.nodes[op.node], s.nodes[op.node], op)
  BY NodesAre, EntryTurns
<1>2. ASSUME NEW i \in DOMAIN l, l[i].node # op.node
      PROVE  k[i].node \in DOMAIN t.nodes /\ Shows(t.nodes[k[i].node], k[i])
  <2>1. k[i] = l[i] /\ l[i].node \in DOMAIN s.nodes /\ Shows(s.nodes[l[i].node], l[i])
    BY <1>1 DEF Grown, Traced
  <2>2. l[i].node \in DOMAIN t.nodes /\ t.nodes[l[i].node] = s.nodes[l[i].node]
    BY <1>0, <1>2, <2>1 DEF NodesBut
  <2> QED BY <2>1, <2>2
<1>3. ASSUME NEW i \in DOMAIN l, l[i].node = op.node
      PROVE  k[i].node \in DOMAIN t.nodes /\ Shows(t.nodes[k[i].node], k[i])
  <2>1. k[i] = l[i] /\ op.node \in DOMAIN s.nodes /\ Shows(s.nodes[op.node], l[i])
    BY <1>1, <1>3 DEF Grown, Traced
  <2>2. op.kind # "reserve"
    BY <1>3, BeforeIs
  <2>3. CASE op.kind \in {"result", "resolve"}
    <3>1. /\ l[i].kind \in {"reserve", "result"}
          /\ l[i].kind = "result" => l[i].report.outcome = "unknown"
      BY <1>3, <2>3, BeforeIs
    <3>2. Shows(t.nodes[op.node], l[i])
      BY <1>0, <2>1, <2>3, <3>1 DEF Shows, Turns
    <3> QED BY <1>0, <1>3, <2>1, <3>2
  <2>4. CASE op.kind = "review"
    <3>1. l[i].kind # "review"
      BY <1>3, <2>4, BeforeIs
    <3>2. Shows(t.nodes[op.node], l[i])
      BY <1>0, <2>1, <2>4, <3>1 DEF Shows, Turns
    <3> QED BY <1>0, <1>3, <2>1, <3>2
  <2> QED BY <2>2, <2>3, <2>4, ApplyIs
<1>4. op.node \in DOMAIN t.nodes /\ Shows(t.nodes[op.node], op)
  <2>1. op.node \in DOMAIN t.nodes
    BY <1>0
  <2>2. CASE op.kind = "reserve"
    BY <1>0, <2>1, <2>2 DEF Shows, Turns
  <2>3. CASE op.kind \in {"result", "resolve"}
    <3>1. op.kind = "resolve" => op.report.outcome # "unknown"
      BY <2>3, ApplyIs DEF MayRecord
    <3> QED BY <1>0, <2>1, <2>3, <3>1 DEF Shows, Turns
  <2>4. CASE op.kind = "review"
    <3>1. ~Unfinished(s.nodes[op.node]) /\ op.report = s.nodes[op.node].report
      BY <2>4, ApplyIs DEF MayReview
    <3> QED BY <1>0, <2>1, <2>4, <3>1 DEF Shows, Turns, Unfinished
  <2> QED BY <2>2, <2>3, <2>4, ApplyIs
<1> QED BY <1>1, <1>2, <1>3, <1>4 DEF Traced, Grown

(* Every attempt of the projection is on the log, also after one more event.  *)
LEMMA BackedKeeps ==
  ASSUME NEW s, NEW t, NEW l, NEW k, NEW p, NEW op, Goes(s, t, l, k, p, op), Backed(s, l)
  PROVE  Backed(t, k)
<1>1. Grown(k, l, p, op) /\ op \in Operation
  BY ApplyIs
<1>0. /\ DOMAIN t.nodes = DOMAIN s.nodes \cup {op.node} /\ NodesBut(t, s, op.node)
      /\ op.kind = "reserve" <=> op.node \notin DOMAIN s.nodes
      /\ Turns(t.nodes[op.node], s.nodes[op.node], op)
  BY NodesAre, EntryTurns
<1>2. \A i \in DOMAIN l : k[i] = l[i] /\ i \in DOMAIN k
  BY <1>1 DEF Grown
<1>3. p \in DOMAIN k /\ k[p] = op
  BY <1>1 DEF Grown
<1>4. ASSUME NEW n \in DOMAIN s.nodes, t.nodes[n].reservation = s.nodes[n].reservation
      PROVE  \E i \in Starts(k) : k[i] = t.nodes[n].reservation /\ k[i].node = n
  <2>1. PICK i \in Starts(l) : l[i] = s.nodes[n].reservation /\ l[i].node = n
    BY DEF Backed
  <2>2. i \in Starts(k) /\ k[i] = l[i]
    BY <1>2, <2>1 DEF Starts
  <2> QED BY <1>4, <2>1, <2>2
<1>5. ASSUME NEW n \in DOMAIN s.nodes, t.nodes[n].report = s.nodes[n].report,
             t.nodes[n].report # None
      PROVE  \E i \in Told(k, n) : k[i].report = t.nodes[n].report
  <2>1. PICK i \in Told(l, n) : l[i].report = s.nodes[n].report
    BY <1>5 DEF Backed
  <2>2. i \in Told(k, n) /\ k[i] = l[i]
    BY <1>2, <2>1 DEF Told
  <2> QED BY <1>5, <2>1, <2>2
<1>6. ASSUME NEW n \in DOMAIN s.nodes, n # op.node
      PROVE  t.nodes[n] = s.nodes[n]
  BY <1>0, <1>6 DEF NodesBut
<1>7. /\ \E i \in Starts(k) : k[i] = t.nodes[op.node].reservation /\ k[i].node = op.node
      /\ t.nodes[op.node].report # None =>
           \E i \in Told(k, op.node) : k[i].report = t.nodes[op.node].report
  <2>1. CASE op.kind = "reserve"
    <3>1. t.nodes[op.node].reservation = op /\ t.nodes[op.node].report = None
      BY <1>0, <2>1 DEF Turns
    <3>2. p \in Starts(k)
      BY <1>3, <2>1 DEF Starts
    <3> QED BY <1>3, <3>1, <3>2
  <2>2. CASE op.kind \in {"result", "resolve"}
    <3>1. op.node \in DOMAIN s.nodes
      BY <1>0, <2>2
    <3>2. /\ t.nodes[op.node].report = op.report
          /\ t.nodes[op.node].reservation = s.nodes[op.node].reservation
      BY <1>0, <2>2 DEF Turns
    <3>3. p \in Told(k, op.node)
      BY <1>3, <2>2 DEF Told
    <3> QED BY <1>3, <1>4, <3>1, <3>2, <3>3
  <2>3. CASE op.kind = "review"
    <3>1. op.node \in DOMAIN s.nodes
      BY <1>0, <2>3
    <3>2. /\ t.nodes[op.node].report = s.nodes[op.node].report
          /\ t.nodes[op.node].reservation = s.nodes[op.node].reservation
      BY <1>0, <2>3 DEF Turns
    <3> QED BY <1>4, <1>5, <3>1, <3>2
  <2> QED BY <2>1, <2>2, <2>3, ApplyIs
<1>9. ASSUME NEW n \in DOMAIN t.nodes
      PROVE  /\ \E i \in Starts(k) : k[i] = t.nodes[n].reservation /\ k[i].node = n
             /\ t.nodes[n].report # None => \E i \in Told(k, n) : k[i].report = t.nodes[n].report
  <2>1. CASE n = op.node
    BY <1>7, <2>1
  <2>2. CASE n # op.node
    <3>1. n \in DOMAIN s.nodes /\ t.nodes[n] = s.nodes[n]
      BY <1>0, <1>6, <2>2
    <3> QED BY <1>4, <1>5, <3>1
  <2> QED BY <2>1, <2>2
<1> QED BY <1>9 DEF Backed

(* A legal event is the only one of its kind for its attempt.              *)
LEMMA OnceKeeps ==
  ASSUME NEW s, NEW t, NEW l, NEW k, NEW p, NEW op, Goes(s, t, l, k, p, op), Traced(s, l), Once(l)
  PROVE  Once(k)
<1>1. Grown(k, l, p, op)
  BY ApplyIs
<1>2. \A i \in DOMAIN l : l[i].node = op.node => l[i].kind # op.kind
  BY BeforeIs, ApplyIs
<1> QED BY <1>1, <1>2 DEF Once, Grown

(* A reservation comes first and a review last.                            *)
LEMMA OrderedKeeps ==
  ASSUME NEW s, NEW t, NEW l, NEW k, NEW p, NEW op, Goes(s, t, l, k, p, op), Traced(s, l), Ordered(l)
  PROVE  Ordered(k)
<1>1. Grown(k, l, p, op)
  BY ApplyIs
<1>2. \A i \in DOMAIN l : l[i].node = op.node =>
        op.kind # "reserve" /\ (op.kind \in {"result", "resolve"} => l[i].kind # "review")
  BY BeforeIs
<1>3. \A i \in Starts(k), j \in DOMAIN k : k[i].node = k[j].node => i <= j
  BY <1>1, <1>2 DEF Ordered, Grown, Starts
<1>4. \A i \in Seen(k) : \A j \in Told(k, k[i].node) : j < i
  BY <1>1, <1>2 DEF Ordered, Grown, Seen, Told
<1> QED BY <1>3, <1>4 DEF Ordered

(* The attempts are counted, and so are the open ones. *)
LEMMA SlotsKeep ==
  ASSUME NEW s, NEW t, NEW l, NEW k, NEW p, NEW op, Goes(s, t, l, k, p, op),
         Cardinality(DOMAIN s.nodes) + s.remaining = Attempts,
         s.active = Cardinality(Open(s)), s.active <= Parallelism
  PROVE  /\ IsFiniteSet(DOMAIN t.nodes) /\ Cardinality(DOMAIN t.nodes) + t.remaining = Attempts
         /\ t.active = Cardinality(Open(t)) /\ t.active <= Parallelism
<1>1. /\ s \in Projection /\ IsFiniteSet(DOMAIN s.nodes) /\ op \in Operation /\ t \in Projection
      /\ DOMAIN t.nodes = DOMAIN s.nodes \cup {op.node} /\ NodesBut(t, s, op.node)
      /\ op.kind = "reserve" <=> op.node \notin DOMAIN s.nodes
      /\ Turns(t.nodes[op.node], s.nodes[op.node], op)
  BY NodesAre, EntryTurns, ApplyIs
<1>2. /\ s.remaining \in Nat /\ s.active \in Nat /\ Cardinality(DOMAIN s.nodes) \in Nat
      /\ t.remaining \in Nat /\ t.active \in Nat
  BY <1>1, StateIs, FS_CardinalityType
<1>3. IsFiniteSet(DOMAIN t.nodes)
  BY <1>1, FS_AddElement
<1>4. CASE op.kind = "reserve"
  <2>1. MayReserve(s, op) /\ t = Reserve(s, op)
    BY <1>4, ApplyIs
  <2>2. t.remaining = s.remaining - 1 /\ t.active = s.active + 1 /\ t.active <= Parallelism
    BY <1>1, <1>4, <2>1, ReserveIs DEF Takes
  <2>3. Cardinality(DOMAIN t.nodes) = Cardinality(DOMAIN s.nodes) + 1
    BY <1>1, <1>4, FS_AddElement
  <2>4. Open(t) = Open(s) \cup {op.node} /\ op.node \notin Open(s) /\ IsFiniteSet(Open(s))
    <3>1. Unfinished(t.nodes[op.node])
      BY <1>1, <1>4 DEF Turns, Unfinished
    <3>2. \A m \in DOMAIN s.nodes : t.nodes[m] = s.nodes[m] /\ m # op.node
      BY <1>1, <1>4 DEF NodesBut
    <3>3. Open(t) = Open(s) \cup {op.node} /\ op.node \notin Open(s) /\ Open(s) \subseteq DOMAIN s.nodes
      BY <1>1, <3>1, <3>2 DEF Open
    <3> QED BY <1>1, <3>3, FS_Subset
  <2>5. Cardinality(Open(t)) = Cardinality(Open(s)) + 1
    BY <2>4, FS_AddElement
  <2> QED BY <1>2, <1>3, <2>2, <2>3, <2>5
<1>5. CASE op.kind \in {"result", "resolve"}
  <2>1. MayRecord(s, op) /\ t = Record(s, op) /\ op.node \in DOMAIN s.nodes
    BY <1>1, <1>5, ApplyIs
  <2>2. t.remaining = s.remaining /\ t.active = Cardinality(Open(t))
    BY <1>1, <1>5, <2>1, RecordIs DEF Charges, SameBudget
  <2>3. Unfinished(s.nodes[op.node])
    BY <1>5, <2>1 DEF MayRecord, Unfinished
  <2>4. Open(t) \subseteq Open(s) /\ Open(s) \subseteq DOMAIN s.nodes
    <3>1. \A m \in DOMAIN t.nodes : m \in DOMAIN s.nodes /\ (m # op.node => t.nodes[m] = s.nodes[m])
      BY <1>1, <2>1 DEF NodesBut
    <3> QED BY <2>3, <3>1 DEF Open
  <2>5. Cardinality(Open(t)) <= Cardinality(Open(s))
    BY <1>1, <2>4, FS_Subset
  <2>6. DOMAIN t.nodes = DOMAIN s.nodes
    BY <1>1, <2>1
  <2> QED BY <1>2, <1>3, <2>2, <2>5, <2>6, PlanAssumption
<1>6. CASE op.kind = "review"
  <2>1. MayReview(s, op) /\ t = ReviewNode(s, op) /\ op.node \in DOMAIN s.nodes
    BY <1>1, <1>6, ApplyIs
  <2>2. t.remaining = s.remaining /\ t.active = s.active
    BY <1>1, <1>6, <2>1, ReviewIs DEF SameBudget
  <2>3. Open(t) = Open(s)
    <3>1. Unfinished(t.nodes[op.node]) <=> Unfinished(s.nodes[op.node])
      BY <1>1, <1>6 DEF Turns, Unfinished
    <3>2. \A m \in DOMAIN t.nodes : m \in DOMAIN s.nodes /\ (m # op.node => t.nodes[m] = s.nodes[m])
      BY <1>1, <2>1 DEF NodesBut
    <3>3. DOMAIN t.nodes = DOMAIN s.nodes
      BY <1>1, <2>1
    <3> QED BY <3>1, <3>2, <3>3 DEF Open
  <2> QED BY <1>1, <1>2, <1>3, <2>1, <2>2, <2>3
<1> QED BY <1>4, <1>5, <1>6, ApplyIs

(* After an overrun was reported nothing starts. *)
LEMMA OverrunsKeep ==
  ASSUME NEW s, NEW t, NEW l, NEW k, NEW p, NEW op, Goes(s, t, l, k, p, op), Traced(s, l),
         \A i, j \in DOMAIN l : Overruns(l, i, j) => s.overrun = TRUE /\ \A h \in Starts(l) : h < j,
         NEW i \in DOMAIN k, NEW j \in DOMAIN k, Overruns(k, i, j)
  PROVE  t.overrun = TRUE /\ \A h \in Starts(k) : h < j
<1>1. Grown(k, l, p, op) /\ op \in Operation /\ s \in Projection /\ IsFiniteSet(DOMAIN s.nodes)
  BY ApplyIs
<1>2. /\ i \in Starts(k) /\ j \in Told(k, k[i].node)
      /\ k[j].report.usage # None /\ k[j].report.usage > k[i].amount
  BY DEF Overruns
<1>3. \A h \in DOMAIN l : h \in Nat /\ h < p /\ k[h] = l[h]
  BY <1>1 DEF Grown
<1>4. i # p
  <2>1. ASSUME i = p PROVE FALSE
    <3>1. op.kind = "reserve" /\ j # p /\ j \in DOMAIN l /\ l[j].node = op.node
      BY <1>1, <1>2, <2>1 DEF Grown, Starts, Told
    <3> QED BY <3>1, BeforeIs
  <2> QED BY <2>1
<1>5. i \in DOMAIN l /\ k[i] = l[i] /\ i \in Starts(l)
  BY <1>1, <1>2, <1>4 DEF Grown, Starts
<1>6. CASE j = p
  <2>1. op.kind \in {"result", "resolve"} /\ l[i].node = op.node /\ op.report.usage # None
        /\ op.report.usage > l[i].amount
    BY <1>1, <1>2, <1>5, <1>6 DEF Told, Grown
  <2>2. s.nodes[op.node].reservation = l[i]
    BY <1>5, <2>1, BeforeIs DEF Starts
  <2>3. MayRecord(s, op) /\ t = Record(s, op)
    BY <2>1, ApplyIs
  <2>4. t.overrun = TRUE
    BY <1>1, <2>1, <2>2, <2>3, RecordIs DEF Charges
  <2>5. \A h \in Starts(k) : h \in DOMAIN l
    BY <1>1, <2>1 DEF Starts, Grown
  <2> QED BY <1>3, <1>6, <2>4, <2>5
<1>7. CASE j # p
  <2>1. j \in DOMAIN l /\ k[j] = l[j] /\ Overruns(l, i, j)
    BY <1>1, <1>2, <1>5, <1>7 DEF Grown, Told, Overruns
  <2>2. s.overrun = TRUE /\ \A h \in Starts(l) : h < j
    BY <1>5, <2>1
  <2>3. op.kind # "reserve"
    BY <2>2, ApplyIs DEF MayReserve
  <2>4. \A h \in Starts(k) : h \in Starts(l)
    BY <1>1, <2>3 DEF Starts, Grown
  <2>5. t.overrun = TRUE
    <3>1. CASE op.kind \in {"result", "resolve"}
      <4>1. MayRecord(s, op) /\ t = Record(s, op)
        BY <3>1, ApplyIs
      <4> QED BY <1>1, <2>2, <3>1, <4>1, RecordIs DEF Charges
    <3>2. CASE op.kind = "review"
      <4>1. MayReview(s, op) /\ t = ReviewNode(s, op)
        BY <3>2, ApplyIs
      <4> QED BY <1>1, <2>2, <3>2, <4>1, ReviewIs
    <3> QED BY <2>3, <3>1, <3>2, ApplyIs
  <2> QED BY <2>2, <2>4, <2>5
<1> QED BY <1>6, <1>7

(* The counters of the projection are those of the log.                    *)
LEMMA CountedKeeps ==
  ASSUME NEW s, NEW t, NEW l \in Seq(Operation), NEW k \in Seq(Operation), NEW p, NEW op,
         Goes(s, t, l, k, p, op), Traced(s, l), Counted(s, l)
  PROVE  Counted(t, k)
<1>1. Grown(k, l, p, op) /\ op \in Operation /\ s \in Projection /\ IsFiniteSet(DOMAIN s.nodes)
  BY ApplyIs
<1>2. /\ IsFiniteSet(DOMAIN t.nodes) /\ Cardinality(DOMAIN t.nodes) + t.remaining = Attempts
      /\ t.active = Cardinality(Open(t)) /\ t.active <= Parallelism
  BY SlotsKeep DEF Counted
<1>3. \A i, j \in DOMAIN k : Overruns(k, i, j) => t.overrun = TRUE /\ \A h \in Starts(k) : h < j
  BY OverrunsKeep DEF Counted
<1>4. s.reserved = Spent(l) /\ s.reserved <= Limit
  BY DEF Counted
<1>5. /\ op.kind = "reserve" => Spent(k) = Spent(l) + op.amount
      /\ op.kind # "reserve" => Spent(k) = Spent(l)
  BY <1>1, SpentAdds
<1>6. t.reserved = Spent(k) /\ t.reserved <= Limit
  <2>1. CASE op.kind = "reserve"
    <3>1. MayReserve(s, op) /\ t = Reserve(s, op)
      BY <2>1, ApplyIs
    <3>2. t.reserved = s.reserved + op.amount /\ t.reserved <= Limit
      BY <1>1, <2>1, <3>1, ReserveIs DEF Takes
    <3> QED BY <1>4, <1>5, <2>1, <3>2
  <2>2. CASE op.kind \in {"result", "resolve"}
    <3>1. MayRecord(s, op) /\ t = Record(s, op)
      BY <2>2, ApplyIs
    <3>2. t.reserved = s.reserved
      BY <1>1, <2>2, <3>1, RecordIs DEF Charges, SameBudget
    <3> QED BY <1>4, <1>5, <2>2, <3>2
  <2>3. CASE op.kind = "review"
    <3>1. MayReview(s, op) /\ t = ReviewNode(s, op)
      BY <2>3, ApplyIs
    <3>2. t.reserved = s.reserved
      BY <1>1, <2>3, <3>1, ReviewIs DEF SameBudget
    <3> QED BY <1>4, <1>5, <2>3, <3>2
  <2> QED BY <2>1, <2>2, <2>3, ApplyIs
<1> QED BY <1>2, <1>3, <1>6 DEF Counted

(* Every artifact has the producer that the log names.                     *)
LEMMA SourcedKeeps ==
  ASSUME NEW s, NEW t, NEW l, NEW k, NEW p, NEW op, Goes(s, t, l, k, p, op), Sourced(s, l)
  PROVE  Sourced(t, k)
<1>1. Grown(k, l, p, op) /\ op \in Operation /\ s \in Projection /\ IsFiniteSet(DOMAIN s.nodes)
  BY ApplyIs
<1>2. /\ p \in DOMAIN k /\ k[p] = op
      /\ \A i \in DOMAIN k : i # p => i \in DOMAIN l
      /\ \A i \in DOMAIN l : i \in DOMAIN k /\ k[i] = l[i] /\ i < p
  BY <1>1 DEF Grown
<1>3. \A j \in Seen(l) : j \in Seen(k) /\ k[j] = l[j] /\ j < p
  BY <1>2 DEF Seen
<1>4. /\ \A a \in DOMAIN s.producer : a \in DOMAIN t.producer /\ t.producer[a] = s.producer[a]
      /\ op.kind \in {"result", "resolve"} =>
           \A a \in op.report.outputs : a \in DOMAIN t.producer /\ t.producer[a] = op.node
      /\ op.kind # "review" => t.accepted = s.accepted
      /\ op.kind = "review" => t.accepted = s.accepted \cup op.artifacts
  <2>1. CASE op.kind = "reserve"
    <3>1. MayReserve(s, op) /\ t = Reserve(s, op)
      BY <2>1, ApplyIs
    <3>2. SameArtifacts(t, s)
      BY <1>1, <2>1, <3>1, ReserveIs
    <3> QED BY <2>1, <3>2 DEF SameArtifacts
  <2>2. CASE op.kind \in {"result", "resolve"}
    <3>1. MayRecord(s, op) /\ t = Record(s, op)
      BY <2>2, ApplyIs
    <3>2. Produces(t, s, op) /\ t.accepted = s.accepted
      BY <1>1, <2>2, <3>1, RecordIs
    <3>3. \A a \in op.report.outputs \cap DOMAIN s.producer : s.producer[a] = op.node
      BY <2>2, <3>1 DEF MayRecord
    <3> QED BY <2>2, <3>2, <3>3 DEF Produces
  <2>3. CASE op.kind = "review"
    <3>1. MayReview(s, op) /\ t = ReviewNode(s, op)
      BY <2>3, ApplyIs
    <3>2. t.producer = s.producer /\ t.accepted = s.accepted \cup op.artifacts
      BY <1>1, <2>3, <3>1, ReviewIs
    <3> QED BY <2>3, <3>2
  <2> QED BY <2>1, <2>2, <2>3, ApplyIs
<1>5. ASSUME NEW i \in DOMAIN k, k[i].kind \in {"result", "resolve"}, NEW a \in k[i].report.outputs
      PROVE  a \in DOMAIN t.producer /\ t.producer[a] = k[i].node
  BY <1>2, <1>4, <1>5 DEF Sourced
<1>6. \A a \in Root : a \in DOMAIN t.producer /\ t.producer[a] = None
  BY <1>4 DEF Sourced
<1>7. ASSUME NEW a \in t.accepted \ Root
      PROVE  \E j \in Seen(k) : a \in k[j].artifacts
  <2>1. CASE a \in s.accepted
    <3>1. PICK j \in Seen(l) : a \in l[j].artifacts
      BY <2>1 DEF Sourced
    <3> QED BY <1>3, <3>1
  <2>2. CASE a \notin s.accepted
    <3>1. op.kind = "review" /\ a \in op.artifacts
      BY <1>4, <2>2
    <3>2. p \in Seen(k)
      BY <1>2, <3>1 DEF Seen
    <3> QED BY <1>2, <3>1, <3>2
  <2> QED BY <2>1, <2>2
<1>8. ASSUME NEW j \in Seen(k)
      PROVE  k[j].artifacts \subseteq k[j].report.outputs
  <2>1. CASE j = p
    <3>1. op.kind = "review"
      BY <1>2, <2>1 DEF Seen
    <3>2. op.artifacts \subseteq op.report.outputs
      BY <3>1, ApplyIs DEF MayReview
    <3> QED BY <1>2, <2>1, <3>2
  <2>2. CASE j # p
    <3>1. j \in Seen(l) /\ k[j] = l[j]
      BY <1>2, <2>2 DEF Seen
    <3> QED BY <3>1 DEF Sourced
  <2> QED BY <2>1, <2>2
<1>9. ASSUME NEW i \in Starts(k), NEW a \in k[i].inputs \ Root
      PROVE  \E j \in Seen(k) : j < i /\ a \in k[j].artifacts
  <2>1. CASE i = p
    <3>1. op.kind = "reserve" /\ a \in op.inputs
      BY <1>2, <2>1 DEF Starts
    <3>2. a \in s.accepted \ Root
      BY <3>1, ApplyIs DEF MayReserve
    <3>3. PICK j \in Seen(l) : a \in l[j].artifacts
      BY <3>2 DEF Sourced
    <3> QED BY <1>3, <2>1, <3>3
  <2>2. CASE i # p
    <3>1. i \in Starts(l) /\ k[i] = l[i]
      BY <1>2, <2>2 DEF Starts
    <3>2. PICK j \in Seen(l) : j < i /\ a \in l[j].artifacts
      BY <3>1 DEF Sourced
    <3> QED BY <1>3, <3>2
  <2> QED BY <2>1, <2>2
<1> QED BY <1>5, <1>6, <1>7, <1>8, <1>9 DEF Sourced

(* The incumbent stays the best of what was accepted with a metric. *)
LEMMA LedKeeps ==
  ASSUME NEW s, NEW t, NEW l, NEW k, NEW p, NEW op, Goes(s, t, l, k, p, op), Led(s, l)
  PROVE  Led(t, k)
<1>1. Grown(k, l, p, op) /\ op \in Operation /\ s \in Projection /\ IsFiniteSet(DOMAIN s.nodes)
  BY ApplyIs
<1>2. /\ p \in DOMAIN k /\ k[p] = op /\ p \in Nat
      /\ \A i \in DOMAIN k : i # p => i \in DOMAIN l
      /\ \A i \in DOMAIN l : i \in DOMAIN k /\ k[i] = l[i] /\ i < p /\ i \in Nat /\ l[i] \in Operation
  BY <1>1 DEF Grown
<1>3. /\ \A i \in Rated(l) : i \in Rated(k) /\ k[i] = l[i] /\ i < p /\ i \in Nat
      /\ \A i \in Rated(k) : i # p => i \in Rated(l)
      /\ p \in Rated(k) <=> op.kind = "review" /\ op.accept = TRUE /\ op.report.metric # None
  BY <1>2 DEF Rated, Seen
<1>4. \A i \in Rated(k) : k[i].report.metric \in Int
  <2>1. ASSUME NEW i \in Rated(k)
        PROVE  k[i].report.metric \in Int
    <3>1. k[i] \in Operation /\ k[i].kind = "review" /\ k[i].report.metric # None
      BY <1>1, <1>2 DEF Rated, Seen
    <3>2. k[i].report \in Report
      BY <3>1, EventIs DEF Review
    <3>3. k[i].report.metric \in Metric \cup {None}
      BY <3>2, ReportAssumption
    <3> QED BY <3>1, <3>3 DEF Metric
  <2> QED BY <2>1
<1>5. ASSUME p \notin Rated(k), t.best = s.best
      PROVE  Led(t, k)
  <2>1. Rated(k) = Rated(l)
    BY <1>3, <1>5
  <2>2. \A i, j \in Rated(l) : Leads(k, i, j) <=> Leads(l, i, j)
    BY <1>3 DEF Leads
  <2> QED BY <1>3, <1>5, <2>1, <2>2 DEF Led
<1>6. CASE op.kind # "review"
  <2>1. t.best = s.best
    <3>1. CASE op.kind = "reserve"
      <4>1. MayReserve(s, op) /\ t = Reserve(s, op)
        BY <3>1, ApplyIs
      <4> QED BY <1>1, <3>1, <4>1, ReserveIs
    <3>2. CASE op.kind \in {"result", "resolve"}
      <4>1. MayRecord(s, op) /\ t = Record(s, op)
        BY <3>2, ApplyIs
      <4> QED BY <1>1, <3>2, <4>1, RecordIs
    <3> QED BY <1>6, <3>1, <3>2, ApplyIs
  <2> QED BY <1>3, <1>5, <1>6, <2>1
<1>7. CASE op.kind = "review"
  <2>1. MayReview(s, op) /\ t = ReviewNode(s, op)
    BY <1>7, ApplyIs
  <2>2. Leader(t, s, op)
    BY <1>1, <1>7, <2>1, ReviewIs
  <2>3. op.accept \in BOOLEAN
    BY <1>1, <1>7, EventIs DEF Review
  <2>4. CASE ~(op.accept = TRUE /\ op.report.metric # None)
    <3>1. p \notin Rated(k) /\ t.best = s.best
      BY <1>3, <2>2, <2>3, <2>4 DEF Leader
    <3> QED BY <1>5, <3>1
  <2>5. CASE op.accept = TRUE /\ op.report.metric # None
    <3> DEFINE v == op.report.metric
    <3>1. p \in Rated(k) /\ v \in Int /\ k[p].report.metric = v /\ k[p].node = op.node
      BY <1>2, <1>3, <1>4, <1>7, <2>5
    <3>2. t.best = IF Better(v, s.best) THEN [node |-> op.node, value |-> v] ELSE s.best
      BY <2>2, <2>3, <2>5 DEF Leader
    <3> HIDE DEF v
    <3>3. Leads(k, p, p)
      BY <1>2 DEF Leads
    <3>4. CASE Rated(l) = {}
      <4>1. s.best = None
        BY <3>4 DEF Led
      <4>2. t.best = [node |-> op.node, value |-> v]
        BY <3>2, <4>1 DEF Better
      <4>3. Rated(k) = {p}
        BY <1>3, <3>1, <3>4
      <4> QED BY <3>1, <3>3, <4>2, <4>3 DEF Led
    <3>5. CASE Rated(l) # {}
      <4>1. PICK i \in Rated(l) : /\ \A j \in Rated(l) : Leads(l, i, j)
                                  /\ s.best = [node |-> l[i].node, value |-> l[i].report.metric]
        BY <3>5 DEF Led
      <4> DEFINE u == l[i].report.metric
      <4>2. u \in Int /\ s.best # None /\ s.best.value = u /\ k[i].report.metric = u /\ k[i] = l[i]
            /\ i \in Rated(k) /\ i < p /\ i \in Nat
        <5>1. l[i] \in Operation /\ k[i] = l[i] /\ i \in Rated(k) /\ i < p /\ i \in Nat
          BY <1>2, <1>3 DEF Rated, Seen
        <5>2. u \in Int
          BY <1>4, <5>1
        <5>3. l[i].node \in Node
          BY <5>1, EventIs
        <5>4. s.best \in Incumbent
          BY <4>1, <5>2, <5>3 DEF Incumbent, Metric
        <5>5. s.best # None
          BY <5>4, NoneIsNothing
        <5> QED BY <4>1, <5>1, <5>2, <5>5
      <4>3. \A j \in Rated(l) : Leads(k, i, j)
        BY <1>3, <4>1, <4>2 DEF Leads
      <4> HIDE DEF u
      <4>4. CASE Better(v, s.best)
        <5>1. v # u /\ ((v > u) <=> (Maximize = TRUE))
          BY <3>1, <4>2, <4>4, PlanAssumption DEF Better
        <5>2. ASSUME NEW j \in Rated(l)
              PROVE  Leads(k, p, j)
          <6>1. /\ j \in Rated(k) /\ k[j].report.metric \in Int /\ Leads(k, i, j)
            BY <1>3, <1>4, <4>3
          <6>2. IF u = k[j].report.metric THEN i <= j
                ELSE (u > k[j].report.metric) <=> (Maximize = TRUE)
            BY <4>2, <6>1 DEF Leads
          <6>3. v # k[j].report.metric /\ ((v > k[j].report.metric) <=> (Maximize = TRUE))
            BY <3>1, <4>2, <5>1, <6>1, <6>2
          <6> QED BY <3>1, <6>3 DEF Leads
        <5>3. \A j \in Rated(k) : Leads(k, p, j)
          BY <1>3, <3>3, <5>2
        <5>4. t.best = [node |-> k[p].node, value |-> k[p].report.metric]
          BY <3>1, <3>2, <4>4
        <5> QED BY <3>1, <5>3, <5>4 DEF Led
      <4>5. CASE ~Better(v, s.best)
        <5>1. IF u = v THEN i <= p ELSE (u > v) <=> (Maximize = TRUE)
          BY <1>2, <3>1, <4>2, <4>5, PlanAssumption DEF Better
        <5>2. Leads(k, i, p)
          BY <3>1, <4>2, <5>1 DEF Leads
        <5>3. \A j \in Rated(k) : Leads(k, i, j)
          BY <1>3, <4>3, <5>2
        <5>4. t.best = [node |-> k[i].node, value |-> k[i].report.metric]
          BY <3>2, <4>1, <4>2, <4>5
        <5> QED BY <4>2, <5>3, <5>4 DEF Led
      <4> QED BY <4>4, <4>5
    <3> QED BY <3>4, <3>5
  <2> QED BY <2>4, <2>5
<1> QED BY <1>6, <1>7

(* A legal event that is appended is in the projection it leaves. *)
LEMMA ExplainsKeeps ==
  ASSUME NEW s \in Projection, NEW l \in Seq(Operation), NEW op \in Operation,
         Explains(s, l), Allowed(s, op)
  PROVE  Apply(s, op) \in Projection /\ Explains(Apply(s, op), Append(l, op))
<1>1. PICK t : t = Apply(s, op)
  OBVIOUS
<1>2. PICK k \in Seq(Operation) : k = Append(l, op)
  BY AppendProperties
<1>3. Traced(s, l) /\ Backed(s, l) /\ Once(l) /\ Ordered(l) /\ Counted(s, l) /\ Sourced(s, l) /\ Led(s, l)
  BY DEF Explains
<1>4. PICK p : Goes(s, t, l, k, p, op)
  <2>1. Grown(k, l, Len(l) + 1, op)
    BY <1>2, AppendGrows
  <2>2. IsFiniteSet(DOMAIN s.nodes)
    BY <1>3 DEF Counted
  <2> QED BY <1>1, <2>1, <2>2 DEF Goes
<1>5. t \in Projection
  BY <1>4, NodesAre
<1>6. Traced(t, k) /\ Backed(t, k) /\ Once(k) /\ Ordered(k)
  BY <1>3, <1>4, TracedKeeps, BackedKeeps, OnceKeeps, OrderedKeeps
<1>7. Counted(t, k) /\ Sourced(t, k) /\ Led(t, k)
  BY <1>3, <1>4, CountedKeeps, SourcedKeeps, LedKeeps
<1> QED BY <1>1, <1>2, <1>5, <1>6, <1>7 DEF Explains

(* The empty log and the initial projection. *)
LEMMA ExplainsInitially == Initial \in Projection /\ Explains(Initial, <<>>)
<1>1. DOMAIN <<>> = {} /\ <<>> \in [{} -> Entry] /\ <<>> \in Seq(Operation)
  OBVIOUS
<1>2. /\ Initial.nodes = <<>> /\ Initial.producer = [a \in Root |-> None] /\ Initial.accepted = Root
      /\ Initial.reserved = 0 /\ Initial.remaining = Attempts /\ Initial.active = 0
      /\ Initial.overrun = FALSE /\ Initial.best = None
  BY DEF Initial
<1>3. Initial \in Projection
  <2>1. Initial.nodes \in UNION {[N -> Entry] : N \in SUBSET Node}
    BY <1>1, <1>2
  <2>2. [a \in Root |-> None] \in [Root -> Node \cup {None}] /\ Root \in SUBSET Artifact
    BY PlanAssumption
  <2>3. Initial.producer \in UNION {[A -> Node \cup {None}] : A \in SUBSET Artifact}
    BY <1>2, <2>2
  <2> QED BY <1>2, <2>1, <2>2, <2>3, PlanAssumption DEF Projection, Initial
<1>4. Starts(<<>>) = {} /\ Seen(<<>>) = {} /\ Rated(<<>>) = {} /\ Open(Initial) = {}
  BY <1>1, <1>2 DEF Starts, Seen, Rated, Open
<1>5. Traced(Initial, <<>>) /\ Backed(Initial, <<>>) /\ Once(<<>>) /\ Ordered(<<>>)
  BY <1>1, <1>2, <1>4 DEF Traced, Backed, Once, Ordered
<1>6. Counted(Initial, <<>>)
  <2>1. IsFiniteSet({}) /\ Cardinality({}) = 0
    BY FS_EmptySet
  <2>2. Spent(<<>>) = 0
    <3>1. PICK f : /\ Sums(f, [i \in Starts(<<>>) |-> <<>>[i].amount], SUBSET Starts(<<>>))
                   /\ Spent(<<>>) = f[Starts(<<>>)]
      BY <1>4, <2>1, SpentSums
    <3> QED BY <1>4, <3>1 DEF Sums
  <2>3. 0 <= Parallelism /\ 0 <= Limit /\ Attempts \in Nat
    BY PlanAssumption
  <2> QED BY <1>1, <1>2, <1>4, <2>1, <2>2, <2>3 DEF Counted
<1>7. Sourced(Initial, <<>>) /\ Led(Initial, <<>>)
  BY <1>1, <1>2, <1>4 DEF Sourced, Led
<1> QED BY <1>3, <1>5, <1>6, <1>7 DEF Explains

-------------------------------------------------------------------------------
(* The invariant. *)

(* The empty log is explained.                                             *)
LEMMA CampaignInitially == Init => CampaignInv
<1> SUFFICES ASSUME Init PROVE CampaignInv
  OBVIOUS
<1>1. LogInv /\ log = <<>> /\ client = [c \in Client |-> Rest]
  BY LogInitially DEF Init
<1>2. Folded(log) = Initial
  BY <1>1, FoldBegins DEF Folded
<1>3. \A c \in Client : client[c].at = "idle"
  BY <1>1 DEF Rest
<1> QED BY <1>1, <1>2, <1>3, ExplainsInitially DEF CampaignInv, Timely

(* A legal event goes on from the fold. *)
LEMMA FoldedGoesOn ==
  ASSUME NEW l \in Seq(Operation), NEW op \in Operation, Folded(l) \in Projection,
         Explains(Folded(l), l), Allowed(Folded(l), op)
  PROVE  Folded(Append(l, op)) \in Projection /\ Explains(Folded(Append(l, op)), Append(l, op))
<1>1. Folded(l) # None
  BY NoneIsNothing
<1>2. Folded(Append(l, op)) = Replay(Folded(l), op)
  BY FoldAppends DEF Folded
<1>3. Replay(Folded(l), op) = Apply(Folded(l), op)
  BY <1>1 DEF Replay
<1> QED BY <1>2, <1>3, ExplainsKeeps

(* What a step that is no publication and no acceptance leaves.            *)
LEMMA CallsKeep ==
  ASSUME CampaignInv, LogInv', log' = log, plan' = plan \/ plan' = TRUE,
         \A d \in Client : client'[d] = client[d] \/ client'[d].at # "publish"
  PROVE  CampaignInv'
<1>1. ASSUME NEW d \in Client
      PROVE  Timely(client[d])'
  <2>1. Timely(client[d])
    BY DEF CampaignInv
  <2> QED BY <2>1 DEF Timely
<1>2. Folded(log') \in Projection /\ Explains(Folded(log'), log')
  BY DEF CampaignInv
<1> QED BY <1>1, <1>2 DEF CampaignInv

(* A step that ends a call leaves the other calls alone.                   *)
LEMMA GotoLeaves ==
  ASSUME LogInv, NEW c \in Client, NEW step \in {"idle", "action", "release"}, Goto(c, step),
         NEW d \in Client
  PROVE  IF d = c THEN client'[d].at = step ELSE client'[d] = client[d]
<1>1. [Rest EXCEPT !.at = step] = [at |-> step, event |-> None, sequence |-> 0]
  BY DEF Rest
<1>2. client' = [client EXCEPT ![c] = [at |-> step, event |-> None, sequence |-> 0]]
  BY <1>1 DEF Goto
<1> QED BY <1>2 DEF LogInv

(* A call that read the log holds an event that is legal after it.         *)
LEMMA AcceptIsTimely ==
  ASSUME CampaignInv, NEW c \in Client, Accept(c)
  PROVE  CampaignInv'
<1>1. LogInv /\ LogInv'
  BY AcceptKeeps DEF CampaignInv
<1>2. PICK op \in Operation :
        /\ History # None /\ Allowed(History, op)
        /\ client' = [client EXCEPT ![c] = [at |-> "publish", event |-> op, sequence |-> Len(log) + 1]]
        /\ plan' = plan /\ log' = log
  BY DEF Accept
<1>3. plan = TRUE /\ History = Folded(log)
  BY <1>1, <1>2 DEF History, Folded, LogInv
<1>4. ASSUME NEW d \in Client
      PROVE  Timely(client[d])'
  <2>1. CASE d = c
    <3>1. client'[d] = [at |-> "publish", event |-> op, sequence |-> Len(log) + 1]
      BY <1>1, <1>2, <2>1 DEF LogInv
    <3>2. Len(log) \in Nat
      BY <1>1 DEF LogInv
    <3>3. client'[d].event = op /\ client'[d].sequence = Len(log) + 1
      BY <3>1
    <3> QED BY <1>2, <1>3, <3>2, <3>3 DEF Timely
  <2>2. CASE d # c
    <3>1. client'[d] = client[d]
      BY <1>1, <1>2, <2>2 DEF LogInv
    <3>2. Timely(client[d])
      BY DEF CampaignInv
    <3> QED BY <1>2, <3>1, <3>2 DEF Timely
  <2> QED BY <2>1, <2>2
<1>5. Folded(log') \in Projection /\ Explains(Folded(log'), log')
  BY <1>2 DEF CampaignInv
<1> QED BY <1>1, <1>4, <1>5 DEF CampaignInv

(* What is published is legal after the log, or nobody sees it.            *)
LEMMA PublishIsLegal ==
  ASSUME CampaignInv, NEW c \in Client, Publish(c), LogInv'
  PROVE  CampaignInv'
<1>1. /\ LogInv /\ client[c].at = "publish" /\ client[c].event \in Operation
      /\ Goto(c, "release") /\ plan' = plan
  BY DEF Publish, CampaignInv, LogInv
<1>2. \A d \in Client : IF d = c THEN client'[d].at = "release" ELSE client'[d] = client[d]
  BY <1>1, GotoLeaves
<1>3. CASE client[c].sequence # Len(log) + 1
  <2>1. log' = log
    BY <1>3 DEF Publish
  <2> QED BY <1>1, <1>2, <2>1, CallsKeep
<1>4. CASE client[c].sequence = Len(log) + 1
  <2>1. log' = Append(log, client[c].event)
    BY <1>4 DEF Publish
  <2>2. log \in Seq(Operation) /\ Len(log) \in Nat /\ Len(log') = Len(log) + 1
    BY <1>1, <2>1, AppendProperties DEF LogInv
  <2>3. Allowed(Folded(log), client[c].event)
    BY <1>1, <1>4 DEF CampaignInv, Timely
  <2>4. Folded(log') \in Projection /\ Explains(Folded(log'), log')
    BY <1>1, <2>1, <2>2, <2>3, FoldedGoesOn DEF CampaignInv
  <2>5. ASSUME NEW d \in Client
        PROVE  Timely(client[d])'
    <3>1. CASE d = c
      <4>1. client'[d].at # "publish"
        BY <1>2, <3>1
      <4> QED BY <4>1 DEF Timely
    <3>2. CASE d # c
      <4>1. client'[d] = client[d] /\ Timely(client[d]) /\ client[d].sequence \in Nat
        BY <1>1, <1>2, <3>2 DEF CampaignInv, LogInv, Call
      <4>2. client[d].at = "publish" =>
              plan' = TRUE /\ client[d].sequence <= Len(log') + 1 /\ client[d].sequence # Len(log') + 1
        BY <1>1, <2>2, <4>1 DEF Timely
      <4> QED BY <4>1, <4>2 DEF Timely
    <3> QED BY <3>1, <3>2
  <2> QED BY <2>4, <2>5 DEF CampaignInv
<1> QED BY <1>3, <1>4

(* Every step keeps the log explained.                                     *)
LEMMA CampaignStep == CampaignInv /\ [Next]_vars => CampaignInv'
<1> SUFFICES ASSUME CampaignInv, [Next]_vars PROVE CampaignInv'
  OBVIOUS
<1>1. LogInv /\ LogInv'
  BY LogStep DEF CampaignInv
<1>2. ASSUME NEW c \in Client, Lease(c) \/ Prepare(c) \/ Answer(c) \/ Release(c) \/ Crash(c)
      PROVE  CampaignInv'
  <2>1. PICK step \in {"idle", "action", "release"} : Goto(c, step)
    BY <1>2 DEF Lease, Prepare, Answer, Release, Crash
  <2>2. log' = log /\ (plan' = plan \/ plan' = TRUE)
    BY <1>2 DEF Lease, Prepare, Answer, Release, Crash
  <2>3. \A d \in Client : client'[d] = client[d] \/ client'[d].at # "publish"
    BY <1>1, <2>1, GotoLeaves
  <2> QED BY <1>1, <2>2, <2>3, CallsKeep
<1>3. CASE RemoveLock \/ UNCHANGED vars
  <2>1. log' = log /\ plan' = plan /\ client' = client
    BY <1>3 DEF RemoveLock, vars
  <2> QED BY <1>1, <2>1, CallsKeep
<1> QED BY <1>1, <1>2, <1>3, AcceptIsTimely, PublishIsLegal DEF Next

(* The projection a reader gets explains the log, and no call is about to  *)
(* publish what the log does not allow, whoever holds the lock.            *)
THEOREM CampaignInvariant == Spec => []CampaignInv
<1> QED BY CampaignInitially, CampaignStep, PTL DEF Spec

-------------------------------------------------------------------------------
(* What the invariant says of the log.                                     *)

(* Different elements go to different ones, so there are not more of them. *)
LEMMA NotMore ==
  ASSUME NEW S, IsFiniteSet(S), NEW T, IsFiniteSet(T), NEW f \in [S -> T],
         \A x, y \in S : f[x] = f[y] => x = y
  PROVE  Cardinality(S) <= Cardinality(T)
<1>1. Cardinality(S) \in Nat /\ Cardinality(T) \in Nat
  BY FS_CardinalityType
<1>2. ~ (Cardinality(T) < Cardinality(S))
  BY FS_PigeonHole
<1> QED BY <1>1, <1>2

(* The parts of the invariant, under short names. *)
LEMMA LogIs ==
  ASSUME CampaignInv
  PROVE  \E s \in Projection :
           /\ s = Folded(log) /\ log \in Seq(Operation) /\ plan \in BOOLEAN
           /\ Traced(s, log) /\ Backed(s, log) /\ Once(log) /\ Ordered(log)
           /\ Counted(s, log) /\ Sourced(s, log) /\ Led(s, log)
           /\ s.nodes \in [DOMAIN s.nodes -> Entry]
           /\ \A i \in DOMAIN log : i \in Nat /\ log[i] \in Operation
<1>1. log \in Seq(Operation) /\ plan \in BOOLEAN
  BY DEF CampaignInv, LogInv
<1>2. PICK s \in Projection : s = Folded(log) /\ Explains(s, log)
  BY DEF CampaignInv
<1>3. s.nodes \in [DOMAIN s.nodes -> Entry]
  BY StateIs
<1>4. \A i \in DOMAIN log : i \in Nat /\ log[i] \in Operation
  BY <1>1, LenProperties, ElementOfSeq
<1> QED BY <1>1, <1>2, <1>3, <1>4 DEF Explains

(* The log has no more events than its attempts have kinds of events. *)
LEMMA LogIsShort ==
  ASSUME CampaignInv
  PROVE  Len(log) <= EventLimit
<1>1. PICK s \in Projection :
           /\ log \in Seq(Operation)
           /\ Traced(s, log) /\ Once(log) /\ Counted(s, log)
           /\ \A i \in DOMAIN log : i \in Nat /\ log[i] \in Operation
  BY LogIs
<1> DEFINE kinds == {"reserve", "result", "resolve", "review"}
           places == (DOMAIN s.nodes) \X kinds
           f == [i \in DOMAIN log |-> <<log[i].node, log[i].kind>>]
<1>2. IsFiniteSet(kinds) /\ Cardinality(kinds) = 4
  <2>1. IsFiniteSet({}) /\ Cardinality({}) = 0
    BY FS_EmptySet
  <2>2. IsFiniteSet({"reserve"}) /\ Cardinality({"reserve"}) = 1
    BY FS_Singleton
  <2>3. /\ IsFiniteSet({"reserve"} \cup {"result"})
        /\ Cardinality({"reserve"} \cup {"result"}) = 2
    BY <2>2, FS_AddElement
  <2>4. /\ IsFiniteSet(({"reserve"} \cup {"result"}) \cup {"resolve"})
        /\ Cardinality(({"reserve"} \cup {"result"}) \cup {"resolve"}) = 3
    BY <2>3, FS_AddElement
  <2>5. /\ IsFiniteSet((({"reserve"} \cup {"result"}) \cup {"resolve"}) \cup {"review"})
        /\ Cardinality((({"reserve"} \cup {"result"}) \cup {"resolve"}) \cup {"review"}) = 4
    BY <2>4, FS_AddElement
  <2>6. kinds = (({"reserve"} \cup {"result"}) \cup {"resolve"}) \cup {"review"}
    OBVIOUS
  <2> QED BY <2>5, <2>6
<1>3. /\ IsFiniteSet(DOMAIN s.nodes) /\ Cardinality(DOMAIN s.nodes) \in Nat
      /\ Cardinality(DOMAIN s.nodes) <= Attempts
  <2>1. IsFiniteSet(DOMAIN s.nodes) /\ Cardinality(DOMAIN s.nodes) + s.remaining = Attempts
    BY <1>1 DEF Counted
  <2>2. s.remaining \in Nat /\ Cardinality(DOMAIN s.nodes) \in Nat
    BY <2>1, StateIs, FS_CardinalityType
  <2> QED BY <2>1, <2>2
<1> HIDE DEF kinds
<1>4. IsFiniteSet(places) /\ Cardinality(places) = Cardinality(DOMAIN s.nodes) * 4
  BY <1>2, <1>3, FS_Product
<1>5. \A i \in DOMAIN log : log[i].node \in DOMAIN s.nodes /\ log[i].kind \in kinds
  BY <1>1, EventIs DEF Traced, kinds
<1>6. f \in [DOMAIN log -> places]
  BY <1>5
<1>7. \A i, j \in DOMAIN log : f[i] = f[j] => i = j
  BY <1>1 DEF Once
<1>8. IsFiniteSet(DOMAIN log) /\ Cardinality(DOMAIN log) = Len(log)
  <2>1. Len(log) \in Nat /\ DOMAIN log = 1..Len(log)
    BY <1>1, LenProperties
  <2>2. \A n \in Nat : IsFiniteSet(1..n) /\ Cardinality(1..n) = n
    <3>1. ASSUME NEW n \in Nat PROVE IsFiniteSet(1..n) /\ Cardinality(1..n) = n
      <4>1. IsFiniteSet(1..n) /\ Cardinality(1..n) = IF 1 > n THEN 0 ELSE n - 1 + 1
        BY FS_Interval
      <4> QED BY <4>1
    <3> QED BY <3>1
  <2> QED BY <2>1, <2>2
<1> HIDE DEF places, f
<1>9. Cardinality(DOMAIN log) <= Cardinality(places)
  BY <1>4, <1>6, <1>7, <1>8, NotMore
<1>10. Cardinality(DOMAIN s.nodes) * 4 <= 4 * Attempts
  BY <1>3, PlanAssumption
<1>11. Len(log) \in Nat /\ Attempts \in Nat /\ Cardinality(places) \in Nat
  BY <1>1, <1>4, FS_CardinalityType, PlanAssumption
<1> QED BY <1>4, <1>8, <1>9, <1>10, <1>11 DEF EventLimit

(* history() never refuses the log of a prepared campaign: every event was *)
(* legal after those before it, and an attempt has at most four.           *)
THEOREM LogCanBeRead == Spec => []LogLoads
<1>1. CampaignInv => LogLoads
  <2> SUFFICES ASSUME CampaignInv, plan PROVE History # None
    BY DEF LogLoads
  <2>1. History = Folded(log)
    BY LogIsShort DEF History, Folded
  <2>2. Folded(log) # None
    BY NoneIsNothing DEF CampaignInv
  <2> QED BY <2>1, <2>2
<1> QED BY <1>1, CampaignInvariant, PTL

(* The names of the properties are those of the invariant. *)
LEMMA SameEvents ==
  /\ Events("reserve") = Starts(log) /\ Events("review") = Seen(log)
  /\ \A n : Reported(n) = Told(log, n)
BY DEF Events, Starts, Seen, Reported, Told

(* The limits of the plan bind: attempts, what is reserved, how many are   *)
(* open at once, and an overrun that was reported ends the campaign.       *)
THEOREM LimitsAlwaysBind == Spec => []LimitsBind
<1>1. CampaignInv => LimitsBind
  <2> SUFFICES ASSUME CampaignInv PROVE LimitsBind
    OBVIOUS
  <2>1. PICK s \in Projection :
           /\ log \in Seq(Operation)
           /\ Traced(s, log) /\ Backed(s, log) /\ Once(log) /\ Counted(s, log)
           /\ \A i \in DOMAIN log : i \in Nat /\ log[i] \in Operation
    BY LogIs
  <2> DEFINE starts == Starts(log)
             open == {i \in starts : ~Settled(log[i].node)}
  <2>2. IsFiniteSet(starts) /\ starts \subseteq DOMAIN log /\ IsFiniteSet(open)
    <3>1. IsFiniteSet(starts) /\ starts \subseteq DOMAIN log
      BY <2>1, PositionsFinite
    <3>2. open \in SUBSET starts
      OBVIOUS
    <3> QED BY <3>1, <3>2, FS_Subset
  <2>3. /\ IsFiniteSet(DOMAIN s.nodes) /\ Cardinality(DOMAIN s.nodes) <= Attempts
        /\ Cardinality(DOMAIN s.nodes) \in Nat
    <3>1. IsFiniteSet(DOMAIN s.nodes) /\ Cardinality(DOMAIN s.nodes) + s.remaining = Attempts
      BY <2>1 DEF Counted
    <3>2. s.remaining \in Nat /\ Cardinality(DOMAIN s.nodes) \in Nat
      BY <3>1, StateIs, FS_CardinalityType
    <3> QED BY <3>1, <3>2
  <2>4. \A i, j \in starts : log[i].node = log[j].node => i = j
    BY <2>1 DEF Once, Starts
  <2>5. Cardinality(starts) <= Attempts
    <3> DEFINE f == [i \in starts |-> log[i].node]
    <3>1. f \in [starts -> DOMAIN s.nodes]
      BY <2>1, <2>2 DEF Traced
    <3>2. \A i, j \in starts : f[i] = f[j] => i = j
      BY <2>4
    <3> HIDE DEF f
    <3>3. Cardinality(starts) <= Cardinality(DOMAIN s.nodes) /\ Cardinality(starts) \in Nat
      BY <2>2, <2>3, <3>1, <3>2, NotMore, FS_CardinalityType
    <3> QED BY <2>3, <3>3, PlanAssumption
  <2>6. FoldFunctionOnSet(LAMBDA op, sum : op.amount + sum, 0, log, starts) <= Limit
    <3>1. Spent(log) <= Limit
      BY <2>1 DEF Counted
    <3> QED BY <3>1 DEF Spent
  <2>7. Cardinality(open) <= Parallelism
    <3> DEFINE f == [i \in open |-> log[i].node]
    <3>1. ASSUME NEW i \in open
          PROVE  log[i].node \in Open(s)
      <4>1. log[i].node \in DOMAIN s.nodes
        BY <2>1, <2>2 DEF Traced
      <4>2. \A j \in Told(log, log[i].node) : log[j].report.outcome = "unknown"
        BY SameEvents DEF Settled
      <4>3. Unfinished(s.nodes[log[i].node])
        <5>1. CASE s.nodes[log[i].node].report = None
          BY <5>1 DEF Unfinished
        <5>2. CASE s.nodes[log[i].node].report # None
          <6>1. PICK j \in Told(log, log[i].node) : log[j].report = s.nodes[log[i].node].report
            BY <2>1, <4>1, <5>2 DEF Backed
          <6> QED BY <4>2, <6>1 DEF Unfinished
        <5> QED BY <5>1, <5>2
      <4> QED BY <4>1, <4>3 DEF Open
    <3>2. f \in [open -> Open(s)]
      BY <3>1
    <3>3. \A i, j \in open : f[i] = f[j] => i = j
      BY <2>4
    <3>4. IsFiniteSet(Open(s))
      <4>1. Open(s) \in SUBSET DOMAIN s.nodes
        BY DEF Open
      <4> QED BY <2>3, <4>1, FS_Subset
    <3> HIDE DEF f, open
    <3>5. Cardinality(open) <= Cardinality(Open(s)) /\ Cardinality(open) \in Nat
          /\ Cardinality(Open(s)) \in Nat
      BY <2>2, <3>2, <3>3, <3>4, NotMore, FS_CardinalityType
    <3>6. Cardinality(Open(s)) <= Parallelism
      BY <2>1 DEF Counted
    <3> QED BY <3>5, <3>6, PlanAssumption
  <2>8. ASSUME NEW i \in starts, NEW j \in Told(log, log[i].node),
               log[j].report.usage # None, log[j].report.usage > log[i].amount
        PROVE  \A h \in starts : h < j
    <3>1. Overruns(log, i, j) /\ i \in DOMAIN log /\ j \in DOMAIN log
      BY <2>2, <2>8 DEF Overruns, Told
    <3> QED BY <2>1, <3>1 DEF Counted
  <2> HIDE DEF starts, open
  <2>9. Events("reserve") = starts /\ {i \in starts : ~Settled(log[i].node)} = open
        /\ \A n : Reported(n) = Told(log, n)
    BY SameEvents DEF starts, open
  <2> QED BY <2>5, <2>6, <2>7, <2>8, <2>9 DEF LimitsBind
<1> QED BY <1>1, CampaignInvariant, PTL

(* No artifact descends from itself, and an attempt starts from what had   *)
(* been accepted.  Of a cycle, the attempt that was reserved first takes   *)
(* an artifact that an earlier review accepted, of an attempt that was     *)
(* reserved before that review: the cycle has an earlier one.              *)
THEOREM ProvenanceIsAlwaysSound == Spec => []ProvenanceIsSound
<1>1. CampaignInv => ProvenanceIsSound
  <2> SUFFICES ASSUME CampaignInv PROVE ProvenanceIsSound
    OBVIOUS
  <2>1. PICK s \in Projection :
           /\ log \in Seq(Operation)
           /\ Traced(s, log) /\ Backed(s, log) /\ Ordered(log) /\ Sourced(s, log)
           /\ \A i \in DOMAIN log : i \in Nat /\ log[i] \in Operation
    BY LogIs
  <2>2. ASSUME NEW n, NEW a \in Outputs(n)
        PROVE  a \in DOMAIN s.producer /\ s.producer[a] = n
    <3>1. PICK i \in Told(log, n) : a \in log[i].report.outputs
      BY SameEvents DEF Outputs
    <3> QED BY <2>1, <3>1 DEF Sourced, Told
  <2>3. ASSUME NEW i \in Starts(log), NEW b \in log[i].inputs, NEW h \in Starts(log),
               b \in Outputs(log[h].node)
        PROVE  h < i
    <3>1. s.producer[b] = log[h].node /\ b \in DOMAIN s.producer
      BY <2>2, <2>3
    <3>2. b \notin Root
      <4>1. log[h].node \in Node /\ None \notin Node
        BY <2>1, EventIs, NoneIsNothing DEF Starts
      <4> QED BY <2>1, <3>1, <4>1 DEF Sourced
    <3>3. PICK j \in Seen(log) : j < i /\ b \in log[j].artifacts
      BY <2>1, <3>2 DEF Sourced
    <3>4. b \in log[j].report.outputs
      BY <2>1, <3>3 DEF Sourced
    <3>5. log[j].node \in DOMAIN s.nodes /\ s.nodes[log[j].node].report = log[j].report
          /\ s.nodes[log[j].node].report # None
      BY <2>1 DEF Traced, Shows, Seen, Unfinished
    <3>6. PICK m \in Told(log, log[j].node) : log[m].report = log[j].report
      BY <2>1, <3>5 DEF Backed
    <3>7. s.producer[b] = log[j].node
      BY <2>1, <3>4, <3>6 DEF Sourced, Told
    <3>8. h <= j
      BY <2>1, <3>1, <3>7 DEF Ordered, Seen
    <3>9. h \in Nat /\ i \in Nat /\ j \in Nat
      BY <2>1 DEF Starts, Seen
    <3> QED BY <3>3, <3>8, <3>9
  <2>4. ASSUME NEW S \in SUBSET Artifact, S # {},
               \A a \in S : \E b \in S : MadeFrom(a, b)
        PROVE  FALSE
    <3> DEFINE I == {i \in Starts(log) : \E a, b \in S : a \in Outputs(log[i].node) /\ b \in log[i].inputs}
    <3>1. \A a \in S : \E i \in I : a \in Outputs(log[i].node)
      BY <2>4, SameEvents DEF MadeFrom
    <3>2. I \in SUBSET Nat /\ I # {}
      <4>1. I \in SUBSET Nat
        BY <2>1 DEF Starts
      <4> HIDE DEF I
      <4> QED BY <2>4, <3>1, <4>1
    <3>3. PICK i \in I : \A m \in I : i <= m
      <4> HIDE DEF I
      <4> QED BY <3>2, LeastNumber
    <3>4. PICK b \in S : b \in log[i].inputs
      OBVIOUS
    <3>5. PICK h \in I : b \in Outputs(log[h].node)
      BY <3>1
    <3>6. h < i
      BY <2>3, <3>4, <3>5
    <3>7. i \in Nat /\ h \in Nat /\ i <= h
      BY <3>2, <3>3
    <3> QED BY <3>6, <3>7
  <2>5. ASSUME NEW i \in Events("reserve"), NEW a \in log[i].inputs \ Root
        PROVE  \E j \in Events("review") : j < i /\ a \in log[j].artifacts
    BY <2>1, SameEvents DEF Sourced
  <2>6. \A S \in (SUBSET Artifact) \ {{}} : \E a \in S : \A b \in S : ~MadeFrom(a, b)
    BY <2>4
  <2> QED BY <2>5, <2>6 DEF ProvenanceIsSound
<1> QED BY <1>1, CampaignInvariant, PTL

(* A review judges the last word on its attempt, and the incumbent that a  *)
(* reader of the log gets is the first of the best accepted ones.          *)
THEOREM ReviewsAlwaysStand == Spec => []ReviewsStand
<1>1. CampaignInv => ReviewsStand
  <2> SUFFICES ASSUME CampaignInv PROVE ReviewsStand
    OBVIOUS
  <2>1. PICK s \in Projection :
           /\ s = Folded(log) /\ log \in Seq(Operation)
           /\ Traced(s, log) /\ Ordered(log) /\ Led(s, log)
           /\ \A i \in DOMAIN log : i \in Nat /\ log[i] \in Operation
    BY LogIs
  <2>2. ASSUME NEW i \in Events("review"), NEW j \in Reported(log[i].node)
        PROVE  j < i /\ (log[j].report = log[i].report \/ log[j].report.outcome = "unknown")
    <3>1. i \in Seen(log) /\ j \in Told(log, log[i].node)
      BY SameEvents
    <3>2. j < i
      BY <2>1, <3>1 DEF Ordered
    <3>3. Shows(s.nodes[log[i].node], log[i]) /\ Shows(s.nodes[log[i].node], log[j])
      BY <2>1, <3>1 DEF Traced, Seen, Told
    <3> QED BY <3>1, <3>2, <3>3 DEF Shows, Seen, Told
  <2>3. ASSUME plan
        PROVE  History = s
    BY <2>1, <2>3, LogIsShort DEF History, Folded
  <2>4. Scored = Rated(log)
    <3>1. \A i \in Seen(log) : log[i].accept \in BOOLEAN
      BY <2>1, EventIs DEF Seen, Review
    <3> QED BY <3>1, SameEvents DEF Scored, Rated
  <2>5. ASSUME NEW i \in Rated(log), NEW j \in Rated(log), Leads(log, i, j)
        PROVE  Ahead(i, j)
    <3>1. Maximize = TRUE \/ Maximize = FALSE
      BY PlanAssumption
    <3>2. CASE Maximize = TRUE
      BY <2>5, <3>2 DEF Leads, Ahead
    <3>3. CASE Maximize = FALSE
      <4>1. PICK v : v = log[i].report.metric
        OBVIOUS
      <4>2. PICK u : u = log[j].report.metric
        OBVIOUS
      <4>3. IF v = u THEN i <= j ELSE ~ (v > u)
        BY <2>5, <3>3, <4>1, <4>2 DEF Leads
      <4>4. ~ (v > u) => (v > u) = FALSE
        OBVIOUS
      <4>5. IF v = u THEN i <= j ELSE (v > u) = Maximize
        BY <3>3, <4>3, <4>4
      <4> QED BY <4>1, <4>2, <4>5 DEF Ahead
    <3> QED BY <3>1, <3>2, <3>3
  <2>6. IF Scored = {} THEN s.best = None
        ELSE \E i \in Scored :
               /\ \A j \in Scored : Ahead(i, j)
               /\ s.best = [node |-> log[i].node, value |-> log[i].report.metric]
    BY <2>1, <2>4, <2>5 DEF Led
  <2> QED BY <2>2, <2>3, <2>6 DEF ReviewsStand
<1> QED BY <1>1, CampaignInvariant, PTL
===============================================================================
