-------------------------- MODULE ModelGateway_proofs --------------------------
(***************************************************************************)
(* Proofs about the spend ledger and the gateway over it, for any requests,*)
(* costs and caps.  First the ledger alone, for any number of concurrent   *)
(* calls: nothing there depends on the gateway or its assumptions.  Then   *)
(* the gateway, for any number of handlers, diagnostic slots, arrivals and *)
(* crashes: every step of it is a step of the ledger, or none.             *)
(***************************************************************************)
EXTENDS ModelGateway, FiniteSums, SequenceTheorems

Item == [kind : {"cap", "reservation", "cap_extension"}, value : Nat, request : Request \cup {None}]
Chain == Seq(Item)
Steps == {"idle", "look", "list", "read", "lookAgain", "verify", "lock", "done"} \cup Holding
Results == {"none", "ok", "busy", "corrupt", "invalid", "denied", "drift", "reserved", "exceeded",
            "stale"}
Call == [cmd : {"none", "reserve", "extend", "snapshot"}, at : Steps, ask : Request \cup {None},
         limit : Cap \cup {0}, names : SUBSET Chain, view : Chain, since : Chain, next : Chain,
         result : Results]

HasLongest(names) == \E f \in names : \A g \in names : Len(g) <= Len(f)

-------------------------------------------------------------------------------
(* Facts about chains.                                                     *)

(* Longest picks what its name says wherever there is such a record. *)
LEMMA LongestIs ==
  ASSUME NEW names, HasLongest(names)
  PROVE  /\ Longest(names) \in names
         /\ \A g \in names : Len(g) <= Len(Longest(names))
  BY DEF HasLongest, Longest

(* A record that readChain would accept next extends a verified chain.     *)
LEMMA AppendIsVerified ==
  ASSUME NEW c \in Chain, NEW x \in Item, Len(c) >= 1, Verified(c), Follows(c, x)
  PROVE  /\ Append(c, x) \in Chain
         /\ Len(Append(c, x)) = Len(c) + 1
         /\ SubSeq(Append(c, x), 1, Len(Append(c, x)) - 1) = c
         /\ Verified(Append(c, x))
<1> DEFINE d == Append(c, x)
<1>1. /\ d \in Chain /\ Len(d) = Len(c) + 1 /\ Len(c) \in Nat
      /\ d[Len(c) + 1] = x
      /\ \A i \in 1..Len(c) : d[i] = c[i]
  BY DEF Chain
<1>2. ASSUME NEW n \in 0..Len(c)
      PROVE  SubSeq(d, 1, n) = SubSeq(c, 1, n)
  <2>1. /\ \A i \in 1..n : d[i] \in Item /\ c[i] \in Item /\ d[i] = c[i]
        /\ n \in Int /\ 1 \in Int
    BY <1>1, ElementOfSeq DEF Chain
  <2>2. /\ SubSeq(d, 1, n) \in Seq(Item) /\ Len(SubSeq(d, 1, n)) = n
        /\ \A i \in 1..n : SubSeq(d, 1, n)[i] = d[i]
    BY <2>1, SubSeqProperties, <1>1
  <2>3. /\ SubSeq(c, 1, n) \in Seq(Item) /\ Len(SubSeq(c, 1, n)) = n
        /\ \A i \in 1..n : SubSeq(c, 1, n)[i] = c[i]
    BY <2>1, SubSeqProperties, <1>1
  <2> QED BY <2>1, <2>2, <2>3, SeqEqual
<1>3. SubSeq(c, 1, Len(c)) = c
  BY SubSeqFull DEF Chain
<1>4. SubSeq(d, 1, Len(d) - 1) = c
  BY <1>1, <1>2, <1>3
<1>5. ASSUME NEW i \in 2..Len(d)
      PROVE  Follows(SubSeq(d, 1, i - 1), d[i])
  <2>1. CASE i = Len(d)
    BY <2>1, <1>1, <1>4
  <2>2. CASE i # Len(d)
    <3>1. i \in 2..Len(c) /\ i - 1 \in 0..Len(c) /\ i \in 1..Len(c)
      BY <2>2, <1>1
    <3> QED BY <3>1, <1>1, <1>2 DEF Verified
  <2> QED BY <2>1, <2>2
<1> QED BY <1>1, <1>4, <1>5 DEF Verified

-------------------------------------------------------------------------------
(* The inductive invariant.                                                *)

BudgetTypes ==
  /\ locked \in BOOLEAN /\ orphaned \in BOOLEAN
  /\ dir \in {"none", "bare", "ready"}
  /\ files \in SUBSET Chain /\ torn \in SUBSET Chain
  /\ proc \in [Writer -> Call]
  /\ granted \in SUBSET [on : Chain, to : Cap] /\ valid \subseteq granted

(* The records on the disk. *)
RecordsFit ==
  /\ \A f \in files \cup torn : Len(f) >= 1 /\ Verified(f)
  /\ Linked(files \cup torn)
  /\ files # {} => HasLongest(files)
  /\ files \cup torn # {} => HasLongest(files \cup torn)
  /\ files \cap torn = {}
  /\ dir # "ready" => files = {} /\ torn = {}

(* A record that may be written now. *)
Grows(c) ==
  /\ Len(c) >= 1 /\ Verified(c)
  /\ Len(c) > 1 => SubSeq(c, 1, Len(c) - 1) \in files
  /\ \A f \in files : Len(f) < Len(c)

(* What a call knows, by the step it is at. *)
Fits(call) ==
  /\ call.at \in Holding => locked
  /\ call.at \in Holding \cup {"lock"} => call.cmd \in {"reserve", "extend"}
  /\ call.at = "verify" => call.cmd = "extend"
  /\ call.at \in {"look", "list", "read", "lookAgain"} => call.cmd \in {"extend", "snapshot"}
  /\ call.at \in {"directory", "records"} => call.cmd = "reserve"
  /\ call.at \in {"lock", "directory", "records", "decide", "create", "fill"} =>
       (call.cmd = "reserve" => call.limit \in Cap /\ call.ask \in Request)
  /\ call.at = "records" => dir # "ready"
  /\ call.at \in {"create", "fill"} =>
       dir = "ready" /\ Grows(call.next) /\ (call.cmd = "extend" => Len(call.next) > 1)
  /\ call.at = "create" => torn = {}
  /\ call.at = "fill" => torn = {call.next}
  /\ call.at = "list" => call.since = <<>> \/ call.since \in files
  /\ call.at = "read" => /\ HasLongest(call.names)
                         /\ call.since = <<>> \/ call.since \in call.names
  /\ (\/ call.at = "lookAgain"
      \/ call.at = "done" /\ call.cmd = "snapshot" /\ call.result = "ok")
     => call.view \in files /\ Len(call.since) <= Len(call.view)
  /\ call.at \in {"verify", "lock", "decide"} /\ call.cmd = "extend" =>
       ~(call.limit <= Limit(call.view))

OneHolder ==
  \A w, v \in Writer : proc[w].at \in Holding /\ proc[v].at \in Holding => w = v

BudgetInv == /\ BudgetTypes /\ RecordsFit /\ OneHolder
             /\ \A w \in Writer : Fits(proc[w])

-------------------------------------------------------------------------------
(* How a step of one call concerns the others.                             *)

(* A call at rest knows nothing. *)
LEMMA RestFits == Rest \in Call /\ Fits(Rest) /\ Rest.at = "idle"
<1>1. <<>> \in Chain /\ Len(<<>>) = 0
  BY EmptySeq DEF Chain
<1>2. Rest \in Call
  BY <1>1 DEF Rest, Call, Steps, Results
<1> QED BY <1>2 DEF Rest, Fits, Holding

(* A step that changes nothing but its own call. *)
LEMMA QuietStep ==
  ASSUME BudgetInv, NEW w \in Writer, NEW call \in Call,
         UNCHANGED <<locked, dir, files, torn>>,
         orphaned' \in BOOLEAN, granted' \in SUBSET [on : Chain, to : Cap], valid' \subseteq granted',
         proc' = [proc EXCEPT ![w] = call],
         call.at \in Holding => proc[w].at \in Holding,
         Fits(call)
  PROVE  BudgetInv'
<1>1. BudgetTypes' /\ \A v \in Writer : proc'[v] = IF v = w THEN call ELSE proc[v]
  BY DEF BudgetInv, BudgetTypes
<1>2. RecordsFit' /\ OneHolder'
  BY <1>1 DEF BudgetInv, RecordsFit, OneHolder
<1>3. ASSUME NEW c \in Call, Fits(c) PROVE Fits(c)'
  BY <1>3 DEF Fits, Grows
<1> QED BY <1>1, <1>2, <1>3 DEF BudgetInv, BudgetTypes

(* A step under the lock, or one that takes it. *)
LEMMA LockedStep ==
  ASSUME BudgetInv, NEW w \in Writer, NEW call \in Call,
         proc[w].at \in Holding \/ ~locked,
         files \subseteq files',
         locked' \in BOOLEAN, orphaned' \in BOOLEAN, dir' \in {"none", "bare", "ready"},
         files' \in SUBSET Chain, torn' \in SUBSET Chain, UNCHANGED <<valid, granted>>,
         proc' = [proc EXCEPT ![w] = call],
         RecordsFit', Fits(call)'
  PROVE  BudgetInv'
<1>1. BudgetTypes' /\ \A v \in Writer : proc'[v] = IF v = w THEN call ELSE proc[v]
  BY DEF BudgetInv, BudgetTypes
<1>2. \A v \in Writer : v # w => proc[v].at \notin Holding /\ proc[v] \in Call /\ Fits(proc[v])
  BY DEF BudgetInv, BudgetTypes, OneHolder, Fits
<1>3. OneHolder'
  BY <1>1, <1>2 DEF OneHolder
<1>4. ASSUME NEW v \in Writer PROVE Fits(proc[v])'
  <2>1. CASE v = w BY <2>1, <1>1
  <2>2. CASE v # w
    <3>1. proc'[v] = proc[v]
      BY <2>2, <1>1
    <3> QED BY <2>2, <1>2, <3>1 DEF Fits, Holding
  <2> QED BY <2>1, <2>2
<1> QED BY <1>1, <1>3, <1>4 DEF BudgetInv

-------------------------------------------------------------------------------
(* The steps without the lock.                                             *)

(* A call that returns without success knows nothing. *)
LEMMA ReturnFits ==
  ASSUME BudgetInv, NEW w \in Writer, NEW r \in Results \ {"ok"}, Return(w, r)
  PROVE  \E call \in Call : /\ proc' = [proc EXCEPT ![w] = call]
                            /\ call.at = "done" /\ Fits(call)
<1> DEFINE call == [Rest EXCEPT !.cmd = proc[w].cmd, !.at = "done", !.result = r]
<1>1. proc[w] \in Call
  BY DEF BudgetInv, BudgetTypes
<1>2. call \in Call /\ call.at = "done" /\ call.result = r
  BY <1>1, RestFits DEF Call, Steps
<1>3. Fits(call)
  BY <1>2 DEF Fits, Holding
<1> QED BY <1>2, <1>3 DEF Return

(* A call that returns an error gives up what it knew. *)
LEMMA ReturnKeeps ==
  ASSUME BudgetInv, NEW w \in Writer, NEW r \in Results \ {"ok"}, Return(w, r), UNCHANGED OnDisk
  PROVE  BudgetInv'
<1>1. PICK call \in Call : /\ proc' = [proc EXCEPT ![w] = call]
                           /\ call.at = "done" /\ Fits(call)
  BY ReturnFits
<1>2. call.at \notin Holding
  BY <1>1 DEF Holding
<1> QED BY <1>1, <1>2, QuietStep DEF OnDisk, BudgetInv, BudgetTypes

(* A call that begins knows nothing of the ledger. *)
LEMMA BeginKeeps ==
  ASSUME BudgetInv, NEW w \in Writer, NEW cmd \in {"reserve", "extend", "snapshot"},
         NEW r \in Request \cup {None}, NEW l \in Cap \cup {0}, cmd = "reserve" => r \in Request /\ l \in Cap,
         Begin(w, cmd, r, l)
  PROVE  BudgetInv'
<1>1. PICK call : call = [Rest EXCEPT !.cmd = cmd, !.ask = r, !.limit = l,
                                      !.at = IF cmd = "reserve" THEN "lock" ELSE "look"]
  OBVIOUS
<1>2. /\ call \in Call /\ call.at \in {"lock", "look"} /\ call.cmd = cmd
      /\ call.at = "lock" <=> cmd = "reserve"
      /\ call.ask = r /\ call.limit = l
  BY <1>1, RestFits DEF Call, Steps
<1>3. Fits(call) /\ call.at \notin Holding
  BY <1>2 DEF Fits, Holding
<1>4. proc' = [proc EXCEPT ![w] = call]
  BY <1>1 DEF Begin
<1> QED BY <1>2, <1>3, <1>4, QuietStep DEF Begin, OnDisk, BudgetInv, BudgetTypes

(* A call that is done goes to rest. *)
LEMMA LeaveKeeps == ASSUME BudgetInv, NEW w \in Writer, Leave(w) PROVE BudgetInv'
<1>1. PICK call \in Call : call = Rest /\ Fits(call) /\ call.at \notin Holding
  BY RestFits DEF Holding
<1> QED BY <1>1, QuietStep DEF Leave, OnDisk, BudgetInv, BudgetTypes

(* The first look finds a lock or none. *)
LEMMA LookKeeps == ASSUME BudgetInv, NEW w \in Writer, Look(w) PROVE BudgetInv'
<1>1. CASE locked
  BY <1>1, ReturnKeeps DEF Look, Results
<1>2. CASE ~locked
  <2>1. PICK call : call = [proc[w] EXCEPT !.at = "list", !.since = Tip]
    OBVIOUS
  <2>2. Tip = <<>> \/ Tip \in files
    BY LongestIs DEF Tip, BudgetInv, RecordsFit
  <2>3. Tip \in Chain /\ proc[w] \in Call /\ proc[w].cmd \in {"extend", "snapshot"}
    BY <2>2, EmptySeq DEF Look, BudgetInv, BudgetTypes, Chain, Fits
  <2>4. call \in Call /\ call.at = "list" /\ call.since = Tip /\ call.cmd = proc[w].cmd
    BY <2>1, <2>3 DEF Call, Steps
  <2>5. Fits(call) /\ call.at \notin Holding
    BY <2>2, <2>3, <2>4 DEF Fits, Holding
  <2>6. proc' = [proc EXCEPT ![w] = call]
    BY <1>2, <2>1 DEF Look, BudgetInv, BudgetTypes, Call
  <2> QED BY <2>4, <2>5, <2>6, QuietStep DEF Look, OnDisk, BudgetInv, BudgetTypes
<1> QED BY <1>1, <1>2 DEF BudgetInv, BudgetTypes

(* The names a reader lists are those of records. *)
LEMMA ListKeeps == ASSUME BudgetInv, NEW w \in Writer, List(w) PROVE BudgetInv'
<1>1. CASE ~(dir = "ready" /\ \E f \in files : Len(f) = 1)
  BY <1>1, ReturnKeeps DEF List, Results
<1>2. CASE dir = "ready" /\ \E f \in files : Len(f) = 1
  <2>1. PICK call : call = [proc[w] EXCEPT !.at = "read", !.names = files \cup torn]
    OBVIOUS
  <2>2. /\ proc[w] \in Call /\ files \cup torn \in SUBSET Chain
        /\ HasLongest(files \cup torn)
        /\ proc[w].since = <<>> \/ proc[w].since \in files
        /\ proc[w].cmd \in {"extend", "snapshot"}
    BY <1>2 DEF List, BudgetInv, BudgetTypes, RecordsFit, Fits
  <2>3. /\ call \in Call /\ call.at = "read" /\ call.names = files \cup torn
        /\ call.since = proc[w].since /\ call.cmd = proc[w].cmd
    BY <2>1, <2>2 DEF Call, Steps
  <2>4. Fits(call) /\ call.at \notin Holding
    BY <2>2, <2>3 DEF Fits, Holding
  <2>5. proc' = [proc EXCEPT ![w] = call]
    BY <1>2, <2>1 DEF List, BudgetInv, BudgetTypes, Call
  <2> QED BY <2>3, <2>4, <2>5, QuietStep DEF List, OnDisk, BudgetInv, BudgetTypes
<1> QED BY <1>1, <1>2

(* readChain returns a listed, complete record that is the longest listed. *)
LEMMA ReadChainIs ==
  ASSUME NEW names, HasLongest(names), ReadChain(names) # <<>>
  PROVE  /\ names # {} /\ names \subseteq files /\ Linked(names)
         /\ ReadChain(names) = Longest(names) /\ Verified(Longest(names))
         /\ Longest(names) \in names
         /\ \A g \in names : Len(g) <= Len(Longest(names))
  BY LongestIs DEF ReadChain

(* What is read under those names is a chain, or damage. *)
LEMMA ReadKeeps == ASSUME BudgetInv, NEW w \in Writer, Read(w) PROVE BudgetInv'
<1> DEFINE c == ReadChain(proc[w].names)
<1>1. CASE c = <<>>
  BY <1>1, ReturnKeeps DEF Read, Results
<1>2. CASE c # <<>>
  <2>1. PICK call : call = [proc[w] EXCEPT !.at = "lookAgain", !.view = c, !.names = {}]
    OBVIOUS
  <2>2. /\ proc[w] \in Call /\ HasLongest(proc[w].names)
        /\ proc[w].since = <<>> \/ proc[w].since \in proc[w].names
        /\ proc[w].cmd \in {"extend", "snapshot"}
    BY DEF Read, BudgetInv, BudgetTypes, Fits
  <2>3. /\ c \in files /\ c \in Chain /\ Len(c) \in Nat
        /\ Len(proc[w].since) <= Len(c)
    <3>1. c \in files /\ \A g \in proc[w].names : Len(g) <= Len(c)
      BY <1>2, <2>2, ReadChainIs
    <3>2. c \in Chain /\ Len(c) \in Nat
      BY <3>1, LenProperties DEF BudgetInv, BudgetTypes, Chain
    <3> QED BY <2>2, <3>1, <3>2, EmptySeq
  <2>4. /\ call \in Call /\ call.at = "lookAgain" /\ call.view = c
        /\ call.since = proc[w].since /\ call.cmd = proc[w].cmd
    BY <2>1, <2>2, <2>3 DEF Call, Steps
  <2>5. Fits(call) /\ call.at \notin Holding
    BY <2>2, <2>3, <2>4 DEF Fits, Holding
  <2>6. proc' = [proc EXCEPT ![w] = call]
    BY <1>2, <2>1 DEF Read, BudgetInv, BudgetTypes, Call
  <2> QED BY <2>4, <2>5, <2>6, QuietStep DEF Read, OnDisk, BudgetInv, BudgetTypes
<1> QED BY <1>1, <1>2

(* The second look only decides whether the snapshot counts. *)
LEMMA LookAgainKeeps == ASSUME BudgetInv, NEW w \in Writer, LookAgain(w) PROVE BudgetInv'
<1>1. /\ proc[w] \in Call /\ proc[w].at = "lookAgain"
      /\ proc[w].view \in files /\ Len(proc[w].since) <= Len(proc[w].view)
      /\ proc[w].cmd \in {"extend", "snapshot"}
  BY DEF LookAgain, BudgetInv, BudgetTypes, Fits
<1>2. CASE locked
  BY <1>2, ReturnKeeps DEF LookAgain, Results
<1>3. CASE ~locked /\ proc[w].cmd = "snapshot"
  <2>1. PICK call : call = [proc[w] EXCEPT !.at = "done", !.result = "ok"]
    OBVIOUS
  <2>2. /\ call \in Call /\ call.at = "done" /\ call.view = proc[w].view
        /\ call.since = proc[w].since
    BY <2>1, <1>1 DEF Call, Steps, Results
  <2>3. Fits(call) /\ call.at \notin Holding
    BY <1>1, <2>2 DEF Fits, Holding
  <2>4. proc' = [proc EXCEPT ![w] = call]
    BY <1>3, <2>1 DEF LookAgain, BudgetInv, BudgetTypes, Call
  <2> QED BY <2>2, <2>3, <2>4, QuietStep DEF LookAgain, OnDisk, BudgetInv, BudgetTypes
<1>4. CASE ~locked /\ proc[w].cmd # "snapshot" /\ proc[w].limit <= Limit(proc[w].view)
  BY <1>4, ReturnKeeps DEF LookAgain, Results
<1>5. CASE ~locked /\ proc[w].cmd # "snapshot" /\ ~(proc[w].limit <= Limit(proc[w].view))
  <2>1. PICK call : call = [proc[w] EXCEPT !.at = "verify"]
    OBVIOUS
  <2>2. /\ call \in Call /\ call.at = "verify" /\ call.view = proc[w].view
        /\ call.limit = proc[w].limit /\ call.cmd = proc[w].cmd
    BY <2>1, <1>1 DEF Call, Steps
  <2>3. call.cmd = "extend"
    BY <1>1, <1>5, <2>2
  <2>4. Fits(call) /\ call.at \notin Holding
    BY <1>5, <2>2, <2>3 DEF Fits, Holding
  <2>5. proc' = [proc EXCEPT ![w] = call]
    BY <1>5, <2>1 DEF LookAgain, Goto, BudgetInv, BudgetTypes, Call
  <2> QED BY <2>2, <2>4, <2>5, QuietStep DEF LookAgain, OnDisk, BudgetInv, BudgetTypes
<1> QED BY <1>2, <1>3, <1>4, <1>5 DEF BudgetInv, BudgetTypes

(* An approval is looked for before the lock is taken. *)
LEMMA VerifyKeeps == ASSUME BudgetInv, NEW w \in Writer, Verify(w) PROVE BudgetInv'
<1>1. CASE Scope(w) \notin valid
  BY <1>1, ReturnKeeps DEF Verify, Results
<1>2. CASE Scope(w) \in valid
  <2>1. PICK call : call = [proc[w] EXCEPT !.at = "lock", !.since = <<>>]
    OBVIOUS
  <2>2. /\ proc[w] \in Call /\ proc[w].cmd \in {"reserve", "extend"} /\ <<>> \in Chain
        /\ proc[w].cmd = "extend" /\ ~(proc[w].limit <= Limit(proc[w].view))
    BY EmptySeq DEF Verify, BudgetInv, BudgetTypes, Fits, Chain
  <2>3. /\ call \in Call /\ call.at = "lock" /\ call.view = proc[w].view
        /\ call.limit = proc[w].limit /\ call.cmd = proc[w].cmd
    BY <2>1, <2>2 DEF Call, Steps
  <2>4. Fits(call) /\ call.at \notin Holding
    BY <2>2, <2>3 DEF Fits, Holding
  <2>5. proc' = [proc EXCEPT ![w] = call]
    BY <1>2, <2>1 DEF Verify, BudgetInv, BudgetTypes, Call
  <2> QED BY <2>3, <2>4, <2>5, QuietStep DEF Verify, OnDisk, BudgetInv, BudgetTypes
<1> QED BY <1>1, <1>2

-------------------------------------------------------------------------------
(* The steps under the lock.                                               *)

(* The lock is taken by one call. *)
LEMMA TakeLockKeeps == ASSUME BudgetInv, NEW w \in Writer, TakeLock(w) PROVE BudgetInv'
<1>1. CASE locked
  BY <1>1, ReturnKeeps DEF TakeLock, Results, OnDisk
<1>2. CASE ~locked
  <2>1. PICK call : call = [proc[w] EXCEPT !.at = Entry(w)]
    OBVIOUS
  <2>2. /\ proc[w] \in Call /\ proc[w].cmd \in {"reserve", "extend"}
        /\ proc[w].cmd = "extend" => ~(proc[w].limit <= Limit(proc[w].view))
        /\ proc[w].cmd = "reserve" => proc[w].limit \in Cap /\ proc[w].ask \in Request
    BY DEF TakeLock, BudgetInv, BudgetTypes, Fits
  <2>3. /\ call \in Call /\ call.at \in {"directory", "decide"} /\ call.view = proc[w].view
        /\ call.limit = proc[w].limit /\ call.cmd = proc[w].cmd
        /\ call.at = "directory" => call.cmd = "reserve"
        /\ call.ask = proc[w].ask
    BY <2>1, <2>2 DEF Call, Steps, Holding, Entry
  <2>4. Fits(call)'
    BY <1>2, <2>2, <2>3 DEF Fits, Holding, TakeLock
  <2>5. proc' = [proc EXCEPT ![w] = call]
    BY <1>2, <2>1 DEF TakeLock, Goto, BudgetInv, BudgetTypes, Call
  <2>6. RecordsFit'
    BY DEF TakeLock, BudgetInv, RecordsFit
  <2> QED BY <1>2, <2>3, <2>4, <2>5, <2>6, LockedStep DEF TakeLock, BudgetInv, BudgetTypes
<1> QED BY <1>1, <1>2 DEF BudgetInv, BudgetTypes

(* The directory of the ledger is made under the lock. *)
LEMMA MakeDirectoryKeeps == ASSUME BudgetInv, NEW w \in Writer, MakeDirectory(w) PROVE BudgetInv'
<1>1. PICK at : at = IF dir = "none" THEN "records" ELSE "decide"
  OBVIOUS
<1>2. PICK call : call = [proc[w] EXCEPT !.at = at]
  OBVIOUS
<1>3. /\ proc[w] \in Call /\ proc[w].cmd = "reserve" /\ proc[w].at \in Holding /\ locked
      /\ proc[w].limit \in Cap /\ proc[w].ask \in Request
  BY DEF MakeDirectory, BudgetInv, BudgetTypes, Fits, Holding
<1>4. /\ call \in Call /\ call.at = at /\ call.cmd = "reserve"
      /\ call.limit = proc[w].limit /\ call.ask = proc[w].ask
  BY <1>1, <1>2, <1>3 DEF Call, Steps, Holding
<1>5. Fits(call)'
  BY <1>1, <1>3, <1>4 DEF Fits, Holding, MakeDirectory
<1>6. proc' = [proc EXCEPT ![w] = call]
  BY <1>1, <1>2 DEF MakeDirectory, Goto, BudgetInv, BudgetTypes, Call
<1>7. RecordsFit'
  BY DEF MakeDirectory, BudgetInv, BudgetTypes, RecordsFit
<1> QED BY <1>3, <1>4, <1>5, <1>6, <1>7, LockedStep DEF MakeDirectory, BudgetInv, BudgetTypes

(* The cap is a chain of its own. *)
LEMMA CapIsVerified ==
  ASSUME NEW l \in Cap
  PROVE  <<CapItem(l)>> \in Chain /\ Len(<<CapItem(l)>>) = 1 /\ Verified(<<CapItem(l)>>)
<1>1. CapItem(l) \in Item
  BY CapAssumption DEF CapItem, Item
<1>2. <<CapItem(l)>> \in Seq(Item) /\ Len(<<CapItem(l)>>) = 1
  BY <1>1
<1> QED BY <1>2 DEF Chain, Verified

(* The first record is a cap. *)
LEMMA MakeRecordsKeeps == ASSUME BudgetInv, NEW w \in Writer, MakeRecords(w) PROVE BudgetInv'
<1> DEFINE c == <<CapItem(proc[w].limit)>>
<1>1. PICK call : call = [proc[w] EXCEPT !.at = "create", !.next = c, !.view = <<>>]
  OBVIOUS
<1>2. /\ proc[w] \in Call /\ proc[w].cmd = "reserve" /\ proc[w].at \in Holding /\ locked
      /\ files = {} /\ torn = {} /\ <<>> \in Chain
      /\ proc[w].limit \in Cap /\ proc[w].ask \in Request
  BY EmptySeq DEF MakeRecords, BudgetInv, BudgetTypes, Fits, Holding, RecordsFit, Chain
<1>3. c \in Chain /\ Len(c) = 1 /\ Verified(c)
  BY <1>2, CapIsVerified
<1>4. /\ call \in Call /\ call.at = "create" /\ call.cmd = "reserve" /\ call.next = c
      /\ call.limit = proc[w].limit /\ call.ask = proc[w].ask
  BY <1>1, <1>2, <1>3 DEF Call, Steps, Holding
<1>5. Fits(call)'
  BY <1>2, <1>3, <1>4 DEF Fits, Grows, Holding, MakeRecords
<1>6. proc' = [proc EXCEPT ![w] = call]
  BY <1>1 DEF MakeRecords, Publish, BudgetInv, BudgetTypes, Call
<1>7. RecordsFit'
  BY DEF MakeRecords, BudgetInv, BudgetTypes, RecordsFit
<1> QED BY <1>2, <1>4, <1>5, <1>6, <1>7, LockedStep DEF MakeRecords, BudgetInv, BudgetTypes

(* A call that gives up still has the lock to remove. *)
LEMMA GiveUpFits ==
  ASSUME BudgetInv, NEW w \in Writer, NEW r \in Results, proc[w].at \in Holding, GiveUp(w, r)
  PROVE  \E call \in Call : /\ proc' = [proc EXCEPT ![w] = call]
                            /\ call.at = "unlock" /\ call.cmd \in {"reserve", "extend"}
<1>1. PICK call : call = [Rest EXCEPT !.cmd = proc[w].cmd, !.at = "unlock", !.result = r]
  OBVIOUS
<1>2. proc[w] \in Call /\ proc[w].cmd \in {"reserve", "extend"}
  BY DEF BudgetInv, BudgetTypes, Fits
<1>3. call \in Call /\ call.at = "unlock" /\ call.cmd = proc[w].cmd
  BY <1>1, <1>2, RestFits DEF Call, Steps, Holding
<1>4. proc' = [proc EXCEPT ![w] = call]
  BY <1>1 DEF GiveUp
<1> QED BY <1>2, <1>3, <1>4

(* A call that gives up leaves the disk as it is. *)
LEMMA GiveUpKeeps ==
  ASSUME BudgetInv, NEW w \in Writer, NEW r \in Results, proc[w].at \in Holding, GiveUp(w, r),
         UNCHANGED OnDisk
  PROVE  BudgetInv'
<1>1. PICK call \in Call : /\ proc' = [proc EXCEPT ![w] = call]
                           /\ call.at = "unlock" /\ call.cmd \in {"reserve", "extend"}
  BY GiveUpFits
<1>2. Fits(call)
  BY <1>1 DEF Fits, Holding, BudgetInv
<1> QED BY <1>1, <1>2, QuietStep DEF OnDisk, BudgetInv, BudgetTypes

(* What a writer finds is the whole ledger, undamaged. *)
LEMMA FoundIs ==
  ASSUME BudgetInv, Found # <<>>
  PROVE  /\ dir = "ready" /\ torn = {}
         /\ Found \in files /\ Found \in Chain /\ Len(Found) \in Nat /\ Len(Found) >= 1
         /\ Verified(Found)
         /\ \A f \in files : Len(f) <= Len(Found)
<1> DEFINE names == files \cup torn
<1>1. dir = "ready" /\ Found = ReadChain(names) /\ ReadChain(names) # <<>>
  BY DEF Found
<1>2. names # {}
  BY <1>1 DEF ReadChain
<1>3. HasLongest(names)
  BY <1>2 DEF BudgetInv, RecordsFit
<1>4. /\ names \subseteq files /\ Found \in names
      /\ \A g \in names : Len(g) <= Len(Found)
  BY <1>1, <1>3, ReadChainIs
<1>5. torn = {}
  BY <1>4 DEF BudgetInv, RecordsFit
<1>6. Found \in Chain /\ Len(Found) >= 1 /\ Verified(Found)
  BY <1>4 DEF BudgetInv, RecordsFit, BudgetTypes
<1>7. Len(Found) \in Nat
  BY <1>6, LenProperties DEF Chain
<1> QED BY <1>1, <1>4, <1>5, <1>6, <1>7

(* A chain and a record that follows it make a longer chain. *)
LEMMA AppendGrows ==
  ASSUME BudgetInv, Found # <<>>, NEW x \in Item, Follows(Found, x)
  PROVE  Append(Found, x) \in Chain /\ Grows(Append(Found, x)) /\ Len(Append(Found, x)) > 1
<1> DEFINE d == Append(Found, x)
<1>1. /\ d \in Chain /\ Verified(d) /\ Len(d) = Len(Found) + 1 /\ SubSeq(d, 1, Len(d) - 1) = Found
      /\ Found \in files /\ Len(Found) \in Nat /\ Len(Found) >= 1
  BY FoundIs, AppendIsVerified
<1>2. \A f \in files : Len(f) \in Nat /\ Len(f) <= Len(Found)
  BY FoundIs, LenProperties DEF BudgetInv, BudgetTypes, Chain
<1> HIDE DEF d
<1>3. Len(d) > 1 /\ Len(d) >= 1 /\ \A f \in files : Len(f) < Len(d)
  <2>1. Len(d) > 1 /\ Len(d) >= 1
    BY <1>1
  <2>2. \A f \in files : Len(f) < Len(d)
    BY <1>1, <1>2
  <2> QED BY <2>1, <2>2
<1>4. d \in Chain /\ Grows(d) /\ Len(d) > 1
  BY <1>1, <1>3 DEF Grows
<1> QED BY <1>4 DEF d

(* What is to be published follows what was found under the lock. *)
LEMMA PublishKeeps ==
  ASSUME BudgetInv, NEW w \in Writer, proc[w].at = "decide", Found # <<>>, NEW x \in Item,
         Follows(Found, x), Publish(w, Append(Found, x)), UNCHANGED OnDisk
  PROVE  BudgetInv'
<1>1. PICK call : call = [proc[w] EXCEPT !.at = "create", !.next = Append(Found, x), !.view = <<>>]
  OBVIOUS
<1>2. /\ proc[w] \in Call /\ proc[w].cmd \in {"reserve", "extend"} /\ <<>> \in Chain /\ locked
      /\ proc[w].cmd = "reserve" => proc[w].limit \in Cap /\ proc[w].ask \in Request
      /\ proc[w].at \in Holding
  BY EmptySeq DEF BudgetInv, BudgetTypes, Fits, Chain, Holding
<1>3. /\ call \in Call /\ call.at = "create" /\ call.next = Append(Found, x)
      /\ call.cmd = proc[w].cmd /\ call.limit = proc[w].limit /\ call.ask = proc[w].ask
  BY <1>1, <1>2, AppendGrows DEF Call, Steps, Holding
<1>4. Fits(call)
  BY <1>2, <1>3, AppendGrows, FoundIs DEF Fits, Holding
<1>5. proc' = [proc EXCEPT ![w] = call]
  BY <1>1 DEF Publish, BudgetInv, BudgetTypes, Call
<1> QED BY <1>2, <1>3, <1>4, <1>5, QuietStep DEF OnDisk, BudgetInv, BudgetTypes

(* The decision is taken on the chain that is there. *)
LEMMA DecideKeeps == ASSUME BudgetInv, NEW w \in Writer, Decide(w) PROVE BudgetInv'
<1>1. /\ proc[w] \in Call /\ proc[w].at = "decide" /\ proc[w].at \in Holding
      /\ proc[w].cmd \in {"reserve", "extend"}
      /\ proc[w].cmd = "reserve" => proc[w].limit \in Cap /\ proc[w].ask \in Request
      /\ proc[w].cmd = "extend" => ~(proc[w].limit <= Limit(proc[w].view))
      /\ UNCHANGED OnDisk
  BY DEF Decide, BudgetInv, BudgetTypes, Fits, Holding
<1>2. ASSUME NEW r \in Results, GiveUp(w, r) PROVE BudgetInv'
  BY <1>1, <1>2, GiveUpKeeps
<1>3. CASE proc[w].cmd = "reserve"
  <2> DEFINE r == proc[w].ask
             x == Reservation(r)
  <2>1. \/ \E result \in Results : GiveUp(w, result)
        \/ /\ Found # <<>> /\ r \notin Requests(Found)
           /\ ~(Cost[r] > Limit(Found) - Total(Found))
           /\ Publish(w, Append(Found, x))
    BY <1>3 DEF Decide, DecideReserve, Results
  <2>2. x \in Item /\ x.kind = "reservation" /\ x.value = Cost[r] /\ x.request = r
    BY <1>1, <1>3, CostAssumption DEF Reservation, Item
  <2> HIDE DEF x
  <2>3. ASSUME Found # <<>>, r \notin Requests(Found),
               ~(Cost[r] > Limit(Found) - Total(Found)), Publish(w, Append(Found, x))
        PROVE  BudgetInv'
    <3>1. Follows(Found, x)
      BY <2>2, <2>3 DEF Follows
    <3> QED BY <1>1, <2>2, <2>3, <3>1, PublishKeeps
  <2> QED BY <1>2, <2>1, <2>3
<1>4. CASE proc[w].cmd = "extend"
  <2> DEFINE x == Extension(proc[w].limit)
  <2>1. \/ \E result \in Results : GiveUp(w, result)
        \/ /\ Found # <<>> /\ Found = proc[w].view
           /\ Publish(w, Append(Found, x))
    BY <1>4 DEF Decide, DecideExtend, Results
  <2>2. x \in Item /\ x.kind = "cap_extension" /\ x.value = proc[w].limit
    <3>1. proc[w].limit \in Cap \cup {0}
      BY <1>1 DEF Call
    <3>2. \A l \in Cap : l \in Nat
      BY CapAssumption
    <3>3. proc[w].limit \in Nat
      BY <3>1, <3>2
    <3> QED BY <3>3 DEF Extension, Item
  <2> HIDE DEF x
  <2>3. ASSUME Found # <<>>, Found = proc[w].view, Publish(w, Append(Found, x))
        PROVE  BudgetInv'
    <3>1. Follows(Found, x)
      BY <1>1, <1>4, <2>2, <2>3 DEF Follows
    <3> QED BY <1>1, <2>2, <2>3, <3>1, PublishKeeps
  <2> QED BY <1>2, <2>1, <2>3
<1> QED BY <1>1, <1>3, <1>4

(* A record that may be written now continues the one chain. *)
LEMMA GrownIsLinked ==
  ASSUME BudgetInv, NEW c \in Chain, Grows(c), torn = {}
  PROVE  Linked(files \cup {c}) /\ HasLongest(files \cup {c}) /\ c \notin files
<1>1. /\ Linked(files) /\ Len(c) \in Nat
      /\ \A f \in files : Len(f) \in Nat /\ Len(f) < Len(c)
  <2>1. files \cup torn = files
    OBVIOUS
  <2>2. Linked(files)
    BY <2>1 DEF BudgetInv, RecordsFit
  <2> QED BY <2>2, LenProperties DEF BudgetInv, BudgetTypes, Chain, Grows
<1>2. c \notin files
  BY <1>1
<1>3. HasLongest(files \cup {c})
  BY <1>1 DEF HasLongest
<1>4. ASSUME NEW f \in files \cup {c}
      PROVE  /\ Len(f) > 1 => SubSeq(f, 1, Len(f) - 1) \in files \cup {c}
             /\ \A g \in files \cup {c} : Len(f) = Len(g) => f = g
  <2>1. Len(f) > 1 => SubSeq(f, 1, Len(f) - 1) \in files
    BY <1>1 DEF Linked, Grows
  <2>2. \A g \in files \cup {c} : Len(f) = Len(g) => f = g
    BY <1>1 DEF Linked
  <2> QED BY <2>1, <2>2
<1>5. Linked(files \cup {c})
  BY <1>4 DEF Linked
<1> QED BY <1>2, <1>3, <1>5

(* The file of the next record is created by the holder of the lock. *)
LEMMA CreateKeeps == ASSUME BudgetInv, NEW w \in Writer, Create(w) PROVE BudgetInv'
<1>1. PICK call : call = [proc[w] EXCEPT !.at = "fill"]
  OBVIOUS
<1>2. PICK c : c = proc[w].next
  OBVIOUS
<1>3. /\ proc[w] \in Call /\ proc[w].cmd \in {"reserve", "extend"} /\ proc[w].at \in Holding /\ locked
      /\ c \in Chain /\ Grows(c) /\ dir = "ready" /\ torn = {}
      /\ proc[w].cmd = "extend" => Len(c) > 1
      /\ proc[w].cmd = "reserve" => proc[w].limit \in Cap /\ proc[w].ask \in Request
  BY <1>2 DEF Create, BudgetInv, BudgetTypes, Fits, Holding, Call
<1>4. /\ call \in Call /\ call.at = "fill" /\ call.next = c /\ call.cmd = proc[w].cmd
      /\ call.limit = proc[w].limit /\ call.ask = proc[w].ask
  BY <1>1, <1>2, <1>3 DEF Call, Steps, Holding
<1>5. torn' = {c} /\ UNCHANGED <<locked, dir, files, valid, granted, orphaned>>
  BY <1>2, <1>3 DEF Create
<1>6. Fits(call)'
  BY <1>3, <1>4, <1>5 DEF Fits, Grows, Holding
<1>7. proc' = [proc EXCEPT ![w] = call]
  BY <1>1 DEF Create, Goto, BudgetInv, BudgetTypes, Call
<1>8. RecordsFit'
  <2>1. Linked(files \cup {c}) /\ HasLongest(files \cup {c}) /\ c \notin files
    BY <1>3, GrownIsLinked
  <2> QED BY <1>3, <1>5, <2>1 DEF BudgetInv, RecordsFit, Grows
<1> QED BY <1>3, <1>4, <1>5, <1>6, <1>7, <1>8, LockedStep DEF BudgetInv, BudgetTypes

(* A completed record was half written before. *)
LEMMA WrittenKeepsRecords ==
  ASSUME BudgetInv, NEW w \in Writer, proc[w].at = "fill", Written(w), UNCHANGED dir
  PROVE  /\ RecordsFit' /\ files \subseteq files'
         /\ files' \in SUBSET Chain /\ torn' \in SUBSET Chain
<1>1. /\ torn = {proc[w].next} /\ dir = "ready" /\ proc[w].next \in Chain
  BY DEF BudgetInv, BudgetTypes, Fits, Call
<1>2. files' = files \cup torn /\ torn' = {} /\ files' \cup torn' = files \cup torn
  BY <1>1 DEF Written
<1> QED BY <1>1, <1>2 DEF BudgetInv, BudgetTypes, RecordsFit

(* The record is written as it was decided. *)
LEMMA FillKeeps == ASSUME BudgetInv, NEW w \in Writer, Fill(w) PROVE BudgetInv'
<1>1. /\ proc[w] \in Call /\ proc[w].cmd \in {"reserve", "extend"} /\ proc[w].at \in Holding
      /\ proc[w].at = "fill" /\ locked
      /\ proc[w].cmd = "extend" => Len(proc[w].next) > 1
      /\ proc[w].cmd = "reserve" => proc[w].limit \in Cap /\ proc[w].ask \in Request
      /\ Written(w) /\ UNCHANGED <<locked, dir, valid, granted, orphaned>>
  BY DEF Fill, BudgetInv, BudgetTypes, Fits, Holding
<1>2. \E call \in Call : proc' = [proc EXCEPT ![w] = call] /\ Fits(call)'
  <2>1. CASE Len(proc[w].next) = 1
    <3>1. PICK call : call = [proc[w] EXCEPT !.at = "decide", !.next = <<>>]
      OBVIOUS
    <3>2. proc[w].cmd = "reserve" /\ <<>> \in Chain
      BY <1>1, <2>1, EmptySeq DEF Chain
    <3>3. /\ call \in Call /\ call.at = "decide" /\ call.cmd = "reserve"
          /\ call.limit = proc[w].limit /\ call.ask = proc[w].ask
      BY <1>1, <3>1, <3>2 DEF Call, Steps, Holding
    <3>4. Fits(call)'
      BY <1>1, <3>2, <3>3 DEF Fits, Holding
    <3>5. proc' = [proc EXCEPT ![w] = call]
      BY <2>1, <3>1 DEF Fill, BudgetInv, BudgetTypes, Call
    <3> QED BY <3>3, <3>4, <3>5
  <2>2. CASE Len(proc[w].next) # 1
    <3>1. GiveUp(w, "ok")
      BY <2>2 DEF Fill
    <3>2. PICK call \in Call : /\ proc' = [proc EXCEPT ![w] = call]
                               /\ call.at = "unlock" /\ call.cmd \in {"reserve", "extend"}
      BY <1>1, <3>1, GiveUpFits DEF Results
    <3>3. Fits(call)'
      BY <1>1, <3>2 DEF Fits, Holding
    <3> QED BY <3>2, <3>3
  <2> QED BY <2>1, <2>2
<1>3. PICK call \in Call : proc' = [proc EXCEPT ![w] = call] /\ Fits(call)'
  BY <1>2
<1> QED BY <1>1, <1>3, WrittenKeepsRecords, LockedStep DEF BudgetInv, BudgetTypes

(* The lock is removed by its holder. *)
LEMMA UnlockKeeps == ASSUME BudgetInv, NEW w \in Writer, Unlock(w) PROVE BudgetInv'
<1>1. PICK call : call = [proc[w] EXCEPT !.at = "done"]
  OBVIOUS
<1>2. /\ proc[w] \in Call /\ proc[w].cmd \in {"reserve", "extend"} /\ proc[w].at \in Holding
  BY DEF Unlock, BudgetInv, BudgetTypes, Fits, Holding
<1>3. call \in Call /\ call.at = "done" /\ call.cmd \in {"reserve", "extend"}
  BY <1>1, <1>2 DEF Call, Steps
<1>4. Fits(call)'
  BY <1>3 DEF Fits, Holding
<1>5. proc' = [proc EXCEPT ![w] = call]
  BY <1>1 DEF Unlock, BudgetInv, BudgetTypes, Call
<1>6. RecordsFit'
  BY DEF Unlock, BudgetInv, RecordsFit
<1> QED BY <1>2, <1>3, <1>4, <1>5, <1>6, LockedStep DEF Unlock, BudgetInv, BudgetTypes

(* A failing operation leaves half a record at worst. *)
LEMMA IOFailsKeeps == ASSUME BudgetInv, NEW w \in Writer, IOFails(w) PROVE BudgetInv'
<1>1. CASE proc[w].at \in Holding \ {"unlock"} /\ GiveUp(w, "corrupt") /\ UNCHANGED OnDisk
  BY <1>1, GiveUpKeeps DEF Results
<1>2. CASE /\ proc[w].at = "fill" /\ Written(w) /\ GiveUp(w, "corrupt")
           /\ UNCHANGED <<locked, dir, valid, granted, orphaned>>
  <2>1. proc[w].at \in Holding /\ locked
    BY <1>2 DEF BudgetInv, Fits, Holding
  <2>2. PICK call \in Call : /\ proc' = [proc EXCEPT ![w] = call]
                             /\ call.at = "unlock" /\ call.cmd \in {"reserve", "extend"}
    BY <1>2, <2>1, GiveUpFits DEF Results
  <2>3. Fits(call)'
    BY <1>2, <2>1, <2>2 DEF Fits, Holding
  <2> QED BY <1>2, <2>1, <2>2, <2>3, WrittenKeepsRecords, LockedStep DEF BudgetInv, BudgetTypes
<1>3. CASE /\ proc[w].at \in {Entry(w), "unlock"}
           /\ locked' \in IF proc[w].at = "unlock" THEN {locked, FALSE} ELSE {locked}
           /\ orphaned' = locked' /\ Return(w, "corrupt")
           /\ UNCHANGED <<dir, files, torn, valid, granted>>
  <2>1. PICK call \in Call : /\ proc' = [proc EXCEPT ![w] = call]
                             /\ call.at = "done" /\ Fits(call)
    BY <1>3, ReturnFits DEF Results
  <2>2. Fits(call)'
    BY <1>3, <2>1 DEF Fits, Holding
  <2>3. proc[w].at \in Holding
    BY <1>3 DEF Entry, Holding
  <2>4. locked' \in BOOLEAN /\ orphaned' \in BOOLEAN
    BY <1>3 DEF BudgetInv, BudgetTypes
  <2>5. RecordsFit'
    BY <1>3 DEF BudgetInv, RecordsFit
  <2> QED BY <1>3, <2>1, <2>2, <2>3, <2>4, <2>5, LockedStep DEF BudgetInv, BudgetTypes
<1> QED BY <1>1, <1>2, <1>3 DEF IOFails

-------------------------------------------------------------------------------
(* Every step keeps the invariant.                                         *)

(* Calls that die leave the lock and the files behind. *)
LEMMA DieKeeps == ASSUME BudgetInv, NEW writers \in SUBSET Writer, Die(writers) PROVE BudgetInv'
<1>1. \A v \in Writer : proc'[v] = Rest \/ proc'[v] = proc[v]
  BY DEF Die
<1>2. /\ proc' \in [Writer -> Call] /\ orphaned' \in BOOLEAN
      /\ UNCHANGED <<locked, dir, files, torn, valid, granted>>
  BY RestFits DEF Die, BudgetInv, BudgetTypes
<1>3. BudgetTypes' /\ RecordsFit'
  BY <1>2 DEF BudgetInv, BudgetTypes, RecordsFit
<1>4. OneHolder'
  BY <1>1, RestFits DEF BudgetInv, OneHolder, Holding
<1>5. ASSUME NEW c, Fits(c) PROVE Fits(c)'
  BY <1>2, <1>5 DEF Fits, Grows
<1>6. ASSUME NEW v \in Writer PROVE Fits(proc[v])'
  <2>1. CASE proc'[v] = Rest
    <3>1. \E c : c = proc'[v] /\ Fits(c)'
      BY <1>5, <2>1, RestFits
    <3> QED BY <3>1
  <2>2. CASE proc'[v] = proc[v]
    BY <1>2, <2>2 DEF BudgetInv, Fits, Grows
  <2> QED BY <1>1, <2>1, <2>2
<1> QED BY <1>3, <1>4, <1>6 DEF BudgetInv

(* Approvals come and go without touching the ledger. *)
LEMMA ApprovalsKeep ==
  ASSUME BudgetInv,
         \/ \E c \in files, l \in Cap : Approve(c, l)
         \/ \E a \in valid : Expire(a)
  PROVE  BudgetInv'
<1>1. /\ UNCHANGED <<locked, dir, files, torn, proc, orphaned>>
      /\ granted' \in SUBSET [on : Chain, to : Cap] /\ valid' \subseteq granted'
  <2>1. ASSUME NEW c \in files, NEW l \in Cap, Approve(c, l)
        PROVE  /\ UNCHANGED <<locked, dir, files, torn, proc, orphaned>>
               /\ granted' \in SUBSET [on : Chain, to : Cap] /\ valid' \subseteq granted'
    <3>1. [on |-> c, to |-> l] \in [on : Chain, to : Cap]
      BY DEF BudgetInv, BudgetTypes
    <3> QED BY <2>1, <3>1 DEF Approve, BudgetInv, BudgetTypes
  <2>2. ASSUME NEW a \in valid, Expire(a)
        PROVE  /\ UNCHANGED <<locked, dir, files, torn, proc, orphaned>>
               /\ granted' \in SUBSET [on : Chain, to : Cap] /\ valid' \subseteq granted'
    BY <2>2 DEF Expire, BudgetInv, BudgetTypes
  <2> QED BY <2>1, <2>2
<1> QED BY <1>1 DEF BudgetInv, BudgetTypes, RecordsFit, OneHolder, Fits, Grows

(* There is no ledger at first. *)
LEMMA BudgetInitially == BudgetInit => BudgetInv
<1> SUFFICES ASSUME BudgetInit PROVE BudgetInv
  OBVIOUS
<1>1. BudgetTypes
  BY RestFits DEF BudgetInit, BudgetTypes
<1>2. RecordsFit
  BY DEF BudgetInit, RecordsFit, Linked
<1>3. OneHolder /\ \A w \in Writer : Fits(proc[w])
  BY RestFits DEF BudgetInit, OneHolder, Holding
<1> QED BY <1>1, <1>2, <1>3 DEF BudgetInv

(* Every step of the ledger keeps its invariant. *)
LEMMA BudgetStep == BudgetInv /\ [BudgetNext]_budgetVars => BudgetInv'
<1> SUFFICES ASSUME BudgetInv, [BudgetNext]_budgetVars PROVE BudgetInv'
  OBVIOUS
<1>1. ASSUME NEW w \in Writer, Proceed(w) PROVE BudgetInv'
  BY <1>1, LookKeeps, ListKeeps, ReadKeeps, LookAgainKeeps, VerifyKeeps, TakeLockKeeps,
     MakeDirectoryKeeps, MakeRecordsKeeps, DecideKeeps, CreateKeeps, FillKeeps, UnlockKeeps
  DEF Proceed
<1>2. ASSUME NEW w \in Writer,
             \/ \E r \in Request, l \in Cap : Begin(w, "reserve", r, l)
             \/ \E l \in Cap : Begin(w, "extend", None, l)
             \/ Begin(w, "snapshot", None, 0)
      PROVE  BudgetInv'
  BY <1>2, BeginKeeps
<1>3. CASE UNCHANGED budgetVars
  BY <1>3 DEF budgetVars, BudgetInv, BudgetTypes, RecordsFit, OneHolder, Fits, Grows
<1> QED BY <1>1, <1>2, <1>3, IOFailsKeeps, LeaveKeeps, DieKeeps, ApprovalsKeep DEF BudgetNext

(* One holder of the lock, one chain of records, and calls that know them. *)
THEOREM BudgetInvariant == BudgetSpec => []BudgetInv
<1> QED BY BudgetInitially, BudgetStep, PTL DEF BudgetSpec

(* Type correctness, and nobody works on the ledger without the lock. *)
THEOREM LedgerTypes == BudgetSpec => []BudgetTypeOK
<1>1. BudgetInv => BudgetTypeOK
  BY DEF BudgetInv, BudgetTypes, BudgetTypeOK, Call, Fits
<1> QED BY <1>1, BudgetInvariant, PTL

(* reserveProposalBudget and extendProposalBudget, called any number of    *)
(* times at once, crashing or failing anywhere, write one verified chain.  *)
THEOREM LedgerIsOneChain == BudgetSpec => []OneChain
<1>1. BudgetInv => OneChain
  BY DEF BudgetInv, RecordsFit, OneChain
<1> QED BY <1>1, BudgetInvariant, PTL

(* readProposalBudgetSnapshot returns a ledger that was there, although it *)
(* holds no lock.                                                          *)
THEOREM SnapshotsAreReal == BudgetSpec => []SnapshotIsReal
<1>1. BudgetInv => SnapshotIsReal
  BY DEF BudgetInv, Fits, SnapshotIsReal
<1> QED BY <1>1, BudgetInvariant, PTL

(* A half written record that nobody is writing any more stops the ledger. *)
THEOREM DamageIsFinal == BudgetSpec => DamageStops
<1>1. ASSUME BudgetInv, [BudgetNext]_budgetVars, Damaged
      PROVE  files' = files /\ torn' = torn
  <2>1. PICK f \in torn : \A w \in Writer : proc[w].next # f \/ proc[w].at # "fill"
    BY <1>1 DEF Damaged
  <2>2. \A w \in Writer : proc[w].at \notin {"create", "fill"}
    BY <1>1, <2>1 DEF BudgetInv, Fits
  <2>3. CASE UNCHANGED budgetVars
    BY <2>3 DEF budgetVars
  <2>4. CASE BudgetNext
    BY <2>2, <2>4
    DEF BudgetNext, Begin, Proceed, Look, List, Read, LookAgain, Verify, TakeLock, MakeDirectory,
        MakeRecords, Decide, Create, Fill, Unlock, IOFails, Leave, Die, Approve, Expire, OnDisk
  <2> QED BY <1>1, <2>3, <2>4
<1>2. BudgetInv /\ [BudgetNext]_budgetVars => [Damaged => files' = files /\ torn' = torn]_budgetVars
  BY <1>1
<1> QED BY <1>2, BudgetInvariant, PTL DEF BudgetSpec, DamageStops

-------------------------------------------------------------------------------
(* Facts about sums: the folds of the ledger over a set of records, and of *)
(* SpendCap over a set of requests.                                        *)

(* The fold of a chain's charges is such a function. *)
LEMMA TotalSums ==
  ASSUME NEW c, IsFiniteSet(Reservations(c))
  PROVE  \E f : /\ Sums(f, [i \in Reservations(c) |-> c[i].value], SUBSET Reservations(c))
                /\ Total(c) = f[Reservations(c)]
<1> DEFINE S == Reservations(c)
           v == [i \in S |-> c[i].value]
           Iter(g) == g = [s \in SUBSET S |-> IF s = {} THEN 0
                           ELSE LET x == CHOOSE x \in s : TRUE IN c[x].value + g[s \ {x}]]
           iter == CHOOSE g : Iter(g)
<1>1. Total(c) = iter[S]
  BY DEF Total, MapThenSumSet, MapThenFoldSet
<1> HIDE DEF S
<1>2. PICK f : Sums(f, v, SUBSET S)
  BY SumsExist DEF S
<1>3. \A g : Sums(g, v, SUBSET S) <=> Iter(g)
  BY DEF Sums, Some, ButSome
<1> HIDE DEF Iter
<1>4. Sums(iter, v, SUBSET S)
  <2>1. \E g : Iter(g)
    BY <1>2, <1>3
  <2>2. Iter(iter)
    BY <2>1
  <2> QED BY <1>3, <2>2
<1> HIDE DEF iter
<1>5. \E g : Sums(g, v, SUBSET S) /\ Total(c) = g[S]
  BY <1>1, <1>4
<1> QED BY <1>5 DEF S

(* So is the fold of SpendCap over requests. *)
LEMMA SumSums ==
  ASSUME NEW R, IsFiniteSet(R)
  PROVE  \E f : Sums(f, Cost, SUBSET R) /\ Accounts!Sum(R) = f[R]
<1> DEFINE Iter(g) == g = [s \in SUBSET R |-> IF s = {} THEN 0
                           ELSE LET x == CHOOSE x \in s : TRUE IN Cost[x] + g[s \ {x}]]
           iter == CHOOSE g : Iter(g)
<1>1. Accounts!Sum(R) = iter[R]
  BY DEF Accounts!Sum, Accounts!MapThenSumSet, Accounts!MapThenFoldSet
<1>2. PICK f : Sums(f, Cost, SUBSET R)
  BY SumsExist
<1>3. \A g : Sums(g, Cost, SUBSET R) <=> Iter(g)
  BY DEF Sums, Some, ButSome
<1> HIDE DEF Iter
<1>4. Sums(iter, Cost, SUBSET R)
  <2>1. \E g : Iter(g)
    BY <1>2, <1>3
  <2>2. Iter(iter)
    BY <2>1
  <2> QED BY <1>3, <2>2
<1> QED BY <1>1, <1>4

(* A further request adds its cost to the sum. *)
LEMMA SumAdds ==
  ASSUME NEW R \in SUBSET Request, IsFiniteSet(R), NEW r \in Request \ R
  PROVE  /\ Accounts!Sum(R) \in Nat
         /\ Accounts!Sum(R \cup {r}) = Accounts!Sum(R) + Cost[r]
<1> DEFINE T == R \cup {r}
<1>1. IsFiniteSet(T) /\ R \in SUBSET T /\ T \in SUBSET T /\ r \in T /\ T \ {r} = R
  BY FS_AddElement
<1>2. \A x \in T : Cost[x] \in Nat
  BY CostAssumption
<1> HIDE DEF T
<1>3. PICK f : Sums(f, Cost, SUBSET T) /\ Accounts!Sum(T) = f[T]
  BY <1>1, SumSums
<1>4. PICK g : Sums(g, Cost, SUBSET R) /\ Accounts!Sum(R) = g[R]
  BY SumSums
<1>5. Adds(f, Cost, T) /\ Adds(g, Cost, R) /\ SameOn(Cost, Cost, R)
  BY <1>1, <1>2, <1>3, <1>4 DEF Adds, SameOn
<1>6. Splits(f, Cost, T) /\ Splits(g, Cost, R) /\ f[R] = g[R]
  BY <1>1, <1>5, SumsSplit, SumsAgree
<1>7. Cost[r] \in Nat
  BY <1>1, <1>2
<1>8. Accounts!Sum(R) \in Nat /\ Accounts!Sum(T) = Accounts!Sum(R) + Cost[r]
  BY <1>1, <1>3, <1>4, <1>6, <1>7 DEF Splits
<1> QED BY <1>8 DEF T

(* The total of a chain without charges, and of one with a further record. *)
LEMMA TotalAdds ==
  ASSUME NEW c \in Chain, NEW x \in Item
  PROVE  /\ IsFiniteSet(Reservations(c)) /\ Total(c) \in Nat
         /\ x.kind = "reservation" => Total(Append(c, x)) = Total(c) + x.value
         /\ x.kind # "reservation" => Total(Append(c, x)) = Total(c)
<1> DEFINE d == Append(c, x)
           n == Len(c) + 1
           R == Reservations(c)
           Q == Reservations(d)
<1>1. /\ Len(c) \in Nat /\ DOMAIN c = 1..Len(c) /\ d \in Chain /\ DOMAIN d = 1..n
      /\ d[n] = x /\ \A i \in 1..Len(c) : d[i] = c[i] /\ c[i] \in Item
  BY ElementOfSeq, LenProperties DEF Chain
<1>2. IsFiniteSet(R) /\ IsFiniteSet(Q)
  <2>0. \A k \in Nat : IsFiniteSet(1..k)
    BY FS_Interval
  <2>1. IsFiniteSet(1..Len(c)) /\ IsFiniteSet(1..n)
    BY <1>1, <2>0
  <2>2. R \subseteq 1..Len(c) /\ Q \subseteq 1..n
    BY <1>1 DEF Reservations
  <2> QED BY <2>1, <2>2, FS_Subset
<1>3. R \subseteq Q /\ n \notin R /\ Q = IF x.kind = "reservation" THEN R \cup {n} ELSE R
  BY <1>1 DEF Reservations
<1>4. \A i \in Q : d[i].value \in Nat
  <2>1. \A i \in 1..n : d[i] \in Item
    BY <1>1
  <2>2. \A i \in Q : i \in 1..n
    BY <1>1 DEF Reservations
  <2>3. \A y \in Item : y.value \in Nat
    BY DEF Item
  <2> HIDE DEF d, Q, n
  <2> QED BY <2>1, <2>2, <2>3
<1>5. \A i \in R : c[i].value = d[i].value
  BY <1>1 DEF Reservations
<1> HIDE DEF d, R, Q, n
<1>6. PICK u : u = [i \in R |-> c[i].value]
  OBVIOUS
<1>7. PICK v : v = [i \in Q |-> d[i].value]
  OBVIOUS
<1>8. PICK f : Sums(f, v, SUBSET Q) /\ Total(d) = f[Q]
  BY <1>2, <1>7, TotalSums DEF Q
<1>9. PICK g : Sums(g, u, SUBSET R) /\ Total(c) = g[R]
  BY <1>2, <1>6, TotalSums DEF R
<1>10. Adds(f, v, Q) /\ Adds(g, u, R) /\ SameOn(v, u, R)
  <2>1. \A i \in R : v[i] = u[i]
    BY <1>3, <1>5, <1>6, <1>7
  <2>2. (\A i \in Q : v[i] \in Nat) /\ (\A i \in R : u[i] \in Nat)
    <3>1. \A i \in Q : v[i] = d[i].value
      BY <1>7
    <3>2. \A i \in R : u[i] = d[i].value /\ i \in Q
      BY <1>3, <1>5, <1>6
    <3> QED BY <1>4, <3>1, <3>2
  <2> QED BY <1>2, <1>8, <1>9, <2>1, <2>2 DEF Adds, SameOn
<1>11. Splits(f, v, Q) /\ Splits(g, u, R) /\ f[R] = g[R]
  BY <1>3, <1>10, SumsSplit, SumsAgree
<1>12. Total(c) \in Nat
  BY <1>9, <1>11 DEF Splits
<1>13. ASSUME x.kind = "reservation"
       PROVE  Total(d) = Total(c) + x.value
  <2>1. n \in Q /\ Q \ {n} = R /\ v[n] = x.value /\ x.value \in Nat
    BY <1>1, <1>3, <1>13, <1>7 DEF Item, d, n
  <2>2. f[Q] = x.value + f[R]
    BY <1>11, <2>1 DEF Splits
  <2> QED BY <1>8, <1>9, <1>11, <1>12, <2>1, <2>2
<1>14. ASSUME x.kind # "reservation"
       PROVE  Total(d) = Total(c)
  BY <1>3, <1>8, <1>9, <1>11, <1>14
<1> QED BY <1>2, <1>12, <1>13, <1>14 DEF d, R
-------------------------------------------------------------------------------
(* The ledger is a SpendCap.                                               *)

(* The cap in force is the one that was recorded last. *)
Latest(c, m) ==
  m \in DOMAIN c \ Reservations(c) /\ \A k \in DOMAIN c \ Reservations(c) : k <= m

(* The charges of a chain add up, and it has a cap. *)
Balanced(c) ==
  /\ Requests(c) \in SUBSET Request /\ IsFiniteSet(Requests(c))
  /\ Total(c) = Accounts!Sum(Requests(c))
  /\ \E m \in DOMAIN c : Latest(c, m) /\ c[m].value \in Cap

(* There is one last cap. *)
LEMMA LimitIs ==
  ASSUME NEW c \in Chain, NEW m, Latest(c, m)
  PROVE  Limit(c) = c[m].value
<1>1. \A k \in DOMAIN c : k \in Int
  BY LenProperties DEF Chain
<1>2. Max(DOMAIN c \ Reservations(c)) = m
  BY <1>1 DEF Latest, Max
<1> QED BY <1>2 DEF Limit

(* A chain of one cap charges nothing. *)
LEMMA CapBalances ==
  ASSUME NEW l \in Cap
  PROVE  LET c == <<CapItem(l)>>
         IN  Balanced(c) /\ Requests(c) = {} /\ Limit(c) = l
<1>1. PICK c : c = <<CapItem(l)>>
  OBVIOUS
<1>2. c \in Chain /\ DOMAIN c = {1} /\ c[1].kind = "cap" /\ c[1].value = l
  BY <1>1, CapIsVerified DEF CapItem
<1>3. Reservations(c) = {} /\ Requests(c) = {}
  BY <1>2 DEF Reservations, Requests
<1>4. Latest(c, 1) /\ Limit(c) = l
  BY <1>2, <1>3, LimitIs DEF Latest
<1>5. IsFiniteSet({})
  BY FS_EmptySet
<1>6. Total(c) = 0
  <2>1. \E v, f : Sums(f, v, SUBSET {}) /\ Total(c) = f[{}]
    BY <1>3, <1>5, TotalSums
  <2> QED BY <2>1 DEF Sums
<1>7. Accounts!Sum({}) = 0
  BY <1>5, SumSums DEF Sums
<1>8. Balanced(c)
  BY <1>2, <1>3, <1>4, <1>5, <1>6, <1>7 DEF Balanced
<1> QED BY <1>1, <1>3, <1>4, <1>8

(* What a further record changes, by its kind. *)
LEMMA AppendIs ==
  ASSUME NEW c \in Chain, NEW x \in Item
  PROVE  LET d == Append(c, x)
             n == Len(c) + 1
         IN  /\ d \in Chain /\ DOMAIN d = DOMAIN c \cup {n} /\ n \notin DOMAIN c
             /\ \A i \in DOMAIN c : d[i] = c[i] /\ i \in Nat /\ i < n
             /\ d[n] = x /\ n \in Nat
             /\ Reservations(d) = IF x.kind = "reservation" THEN Reservations(c) \cup {n}
                                                            ELSE Reservations(c)
             /\ Requests(d) = IF x.kind = "reservation" THEN Requests(c) \cup {x.request}
                                                        ELSE Requests(c)
<1>1. PICK d, n : d = Append(c, x) /\ n = Len(c) + 1
  OBVIOUS
<1>2. /\ d \in Chain /\ DOMAIN d = DOMAIN c \cup {n} /\ n \notin DOMAIN c
      /\ \A i \in DOMAIN c : d[i] = c[i] /\ i \in Nat /\ i < n
      /\ d[n] = x /\ n \in Nat
  BY <1>1, LenProperties DEF Chain
<1>3. Reservations(d) = IF x.kind = "reservation" THEN Reservations(c) \cup {n}
                                                  ELSE Reservations(c)
  BY <1>2 DEF Reservations
<1>4. \A i \in Reservations(c) : i \in DOMAIN c
  BY DEF Reservations
<1>5. Requests(d) = IF x.kind = "reservation" THEN Requests(c) \cup {x.request}
                                              ELSE Requests(c)
  BY <1>2, <1>3, <1>4 DEF Requests
<1> QED BY <1>1, <1>2, <1>3, <1>5

(* A reservation that follows a chain charges its request once and within the cap. *)
LEMMA ReservationBalances ==
  ASSUME NEW c \in Chain, Balanced(c), NEW r \in Request, Follows(c, Reservation(r))
  PROVE  LET d == Append(c, Reservation(r))
         IN  /\ Balanced(d) /\ Requests(d) = Requests(c) \cup {r} /\ Limit(d) = Limit(c)
             /\ r \notin Requests(c)
             /\ Accounts!Sum(Requests(c)) + Cost[r] <= Limit(c)
<1>1. PICK x : x = Reservation(r)
  OBVIOUS
<1>2. /\ x \in Item /\ x.kind = "reservation" /\ x.value = Cost[r] /\ x.request = r
      /\ Cost[r] \in Nat
  BY <1>1, CostAssumption DEF Reservation, Item
<1>3. PICK d, n : d = Append(c, x) /\ n = Len(c) + 1
  OBVIOUS
<1>4. /\ d \in Chain /\ DOMAIN d = DOMAIN c \cup {n} /\ n \notin DOMAIN c
      /\ \A i \in DOMAIN c : d[i] = c[i]
      /\ Reservations(d) = Reservations(c) \cup {n} /\ Requests(d) = Requests(c) \cup {r}
  BY <1>2, <1>3, AppendIs
<1>5. ~(x.value > Limit(c) - Total(c)) /\ r \notin Requests(c)
  BY <1>1, <1>2 DEF Follows
<1>6. PICK m \in DOMAIN c : Latest(c, m) /\ c[m].value \in Cap
  BY DEF Balanced
<1>7. Latest(d, m) /\ d[m].value = c[m].value /\ Limit(d) = Limit(c)
  <2>1. DOMAIN d \ Reservations(d) = DOMAIN c \ Reservations(c)
    BY <1>4 DEF Reservations
  <2>2. Latest(d, m) /\ d[m].value = c[m].value
    BY <1>4, <1>6, <2>1 DEF Latest
  <2> QED BY <1>4, <1>6, <2>2, LimitIs
<1>8. Limit(c) \in Nat
  <2>1. Limit(c) = c[m].value
    BY <1>6, LimitIs
  <2> QED BY <1>6, <2>1, CapAssumption
<1>9. Total(d) = Total(c) + Cost[r] /\ Total(c) \in Nat
  BY <1>2, <1>3, TotalAdds
<1>10. Accounts!Sum(Requests(d)) = Accounts!Sum(Requests(c)) + Cost[r]
  BY <1>4, <1>5, SumAdds DEF Balanced
<1>11. Requests(d) \in SUBSET Request /\ IsFiniteSet(Requests(d))
  BY <1>4, FS_AddElement DEF Balanced
<1>12. Balanced(d)
  <2>1. Total(d) = Accounts!Sum(Requests(d))
    BY <1>9, <1>10 DEF Balanced
  <2> QED BY <1>4, <1>6, <1>7, <1>11, <2>1 DEF Balanced
<1>13. Accounts!Sum(Requests(c)) + Cost[r] <= Limit(c)
  <2>1. Total(c) = Accounts!Sum(Requests(c))
    BY DEF Balanced
  <2> QED BY <1>2, <1>5, <1>8, <1>9, <2>1
<1> QED BY <1>1, <1>3, <1>4, <1>5, <1>7, <1>12, <1>13

(* An extension charges nothing and raises the cap. *)
LEMMA ExtensionBalances ==
  ASSUME NEW c \in Chain, Balanced(c), NEW l \in Cap, Follows(c, Extension(l))
  PROVE  LET d == Append(c, Extension(l))
         IN  /\ Balanced(d) /\ Requests(d) = Requests(c) /\ Limit(d) = l
             /\ l > Limit(c)
<1>1. PICK x : x = Extension(l)
  OBVIOUS
<1>2. x \in Item /\ x.kind = "cap_extension" /\ x.value = l /\ l \in Nat
  <2>1. l \in Nat
    BY CapAssumption
  <2> QED BY <1>1, <2>1 DEF Extension, Item
<1>3. PICK d, n : d = Append(c, x) /\ n = Len(c) + 1
  OBVIOUS
<1>4. /\ d \in Chain /\ DOMAIN d = DOMAIN c \cup {n} /\ n \notin DOMAIN c
      /\ \A i \in DOMAIN c : i \in Nat /\ i < n
      /\ n \in Nat /\ d[n] = x
      /\ Reservations(d) = Reservations(c) /\ Requests(d) = Requests(c)
  BY <1>2, <1>3, AppendIs
<1>5. ~(l <= Limit(c))
  BY <1>1, <1>2 DEF Follows
<1>6. PICK m \in DOMAIN c : Latest(c, m) /\ c[m].value \in Cap
  BY DEF Balanced
<1>7. Latest(d, n) /\ Limit(d) = l
  <2>1. Latest(d, n)
    <3>1. n \notin Reservations(c)
      BY <1>4 DEF Reservations
    <3> QED BY <1>4, <3>1 DEF Latest
  <2> QED BY <1>2, <1>4, <2>1, LimitIs
<1>8. Limit(c) \in Nat
  <2>1. Limit(c) = c[m].value
    BY <1>6, LimitIs
  <2> QED BY <1>6, <2>1, CapAssumption
<1>9. Total(d) = Total(c)
  BY <1>2, <1>3, TotalAdds
<1>10. Balanced(d)
  BY <1>2, <1>4, <1>7, <1>9 DEF Balanced
<1>11. l > Limit(c)
  BY <1>2, <1>5, <1>8
<1> QED BY <1>1, <1>3, <1>4, <1>7, <1>10, <1>11

(* The record a writer under way is about to add to the ledger. *)
Pending(call) ==
  \/ /\ files = {} /\ call.limit \in Cap
     /\ call.next = <<CapItem(call.limit)>>
  \/ /\ files # {} /\ call.cmd = "reserve" /\ call.ask \in Request
     /\ Follows(Tip, Reservation(call.ask))
     /\ call.next = Append(Tip, Reservation(call.ask))
  \/ /\ files # {} /\ call.cmd = "extend" /\ call.limit \in Cap
     /\ Follows(Tip, Extension(call.limit))
     /\ call.next = Append(Tip, Extension(call.limit))
     /\ [on |-> Tip, to |-> call.limit] \in granted

LedgerInv == /\ BudgetInv
             /\ \A c \in files : Balanced(c)
             /\ \A w \in Writer : proc[w].at \in {"create", "fill"} => Pending(proc[w])

(* Longest is unique where no two records have the same length. *)
LEMMA OneLongest ==
  ASSUME NEW names \in SUBSET Chain, HasLongest(names),
         \A f, g \in names : Len(f) = Len(g) => f = g,
         NEW c \in names, \A f \in names : Len(f) <= Len(c)
  PROVE  Longest(names) = c
<1>1. Longest(names) \in names /\ Len(Longest(names)) <= Len(c) /\ Len(c) <= Len(Longest(names))
  BY LongestIs
<1>2. Len(Longest(names)) \in Nat /\ Len(c) \in Nat
  BY <1>1, LenProperties DEF Chain
<1> QED BY <1>1, <1>2

(* The tip is the longest record, and what a writer finds. *)
LEMMA TipIs ==
  ASSUME BudgetInv
  PROVE  /\ files # {} => Tip \in files /\ Tip \in Chain
         /\ \A c \in files : (\A f \in files : Len(f) <= Len(c)) => Tip = c
         /\ Found # <<>> => files # {} /\ Found = Tip
<1>1. ASSUME files # {}
      PROVE  Tip \in files /\ Tip \in Chain /\ \A g \in files : Len(g) <= Len(Tip)
  <2>1. HasLongest(files) /\ Tip = Longest(files)
    BY <1>1 DEF BudgetInv, RecordsFit, Tip
  <2>2. Tip \in files /\ \A g \in files : Len(g) <= Len(Tip)
    BY <2>1, LongestIs
  <2> QED BY <2>2 DEF BudgetInv, BudgetTypes
<1>2. ASSUME NEW c \in files, \A f \in files : Len(f) <= Len(c)
      PROVE  Tip = c
  <2>1. Tip \in files /\ Len(c) <= Len(Tip) /\ Len(Tip) <= Len(c)
    BY <1>1, <1>2
  <2>2. Len(c) \in Nat /\ Len(Tip) \in Nat
    BY <2>1, LenProperties DEF BudgetInv, BudgetTypes, Chain
  <2>3. Len(Tip) = Len(c)
    BY <2>1, <2>2
  <2> QED BY <1>2, <2>1, <2>3 DEF BudgetInv, RecordsFit, Linked
<1>3. ASSUME Found # <<>>
      PROVE  files # {} /\ Found = Tip
  BY <1>2, <1>3, FoundIs
<1> QED BY <1>1, <1>2, <1>3

(* A step that adds no record, and under which only such calls come to     *)
(* write as have something to write.                                       *)
LEMMA UndisturbedLedger ==
  ASSUME LedgerInv, UNCHANGED files, granted \subseteq granted',
         \A v \in Writer : proc'[v].at \in {"create", "fill"} =>
           \/ /\ proc[v].at \in {"create", "fill"} /\ proc'[v].cmd = proc[v].cmd
              /\ proc'[v].limit = proc[v].limit /\ proc'[v].ask = proc[v].ask
              /\ proc'[v].next = proc[v].next
           \/ Pending(proc'[v]),
         BudgetInv'
  PROVE  LedgerInv'
<1>1. Tip' = Tip
  BY DEF Tip, Longest
<1>2. \A c \in files' : Balanced(c)
  BY DEF LedgerInv
<1>3. ASSUME NEW v \in Writer, proc'[v].at \in {"create", "fill"}
      PROVE  Pending(proc'[v])
  BY <1>3 DEF LedgerInv, Pending
<1>4. ASSUME NEW call, Pending(call)
      PROVE  Pending(call)'
  BY <1>1, <1>4 DEF Pending
<1>5. \A v \in Writer : proc'[v].at \in {"create", "fill"} => Pending(proc[v])'
  <2> SUFFICES ASSUME NEW v \in Writer, proc'[v].at \in {"create", "fill"}
               PROVE  Pending(proc[v])'
    OBVIOUS
  <2>1. Pending(proc'[v])
    BY <1>3
  <2> QED BY <1>1, <2>1 DEF Pending
<1> QED BY <1>2, <1>5 DEF LedgerInv, Balanced

(* A step that changes one call, which does not come to write. *)
LEMMA UnwritingStep ==
  ASSUME LedgerInv, NEW w \in Writer, NEW call, call.at \notin {"create", "fill"},
         proc' = [proc EXCEPT ![w] = call],
         UNCHANGED <<files, granted>>, BudgetInv'
  PROVE  LedgerInv'
<1>1. \A v \in Writer : proc'[v] = IF v = w THEN call ELSE proc[v]
  BY DEF LedgerInv, BudgetInv, BudgetTypes
<1> QED BY <1>1, UndisturbedLedger

(* What is written is the pending record, and it was the only one. *)
Writes(w) ==
  /\ proc[w].at = "fill" /\ files' = files \cup {proc[w].next} /\ UNCHANGED granted
  /\ \A v \in Writer : proc'[v].at \notin {"create", "fill"}

(* The chain that is being written adds up. *)
LEMMA PendingBalances ==
  ASSUME LedgerInv, NEW w \in Writer, proc[w].at = "fill"
  PROVE  Balanced(proc[w].next) /\ Grows(proc[w].next) /\ proc[w].next \in Chain
<1>1. Pending(proc[w]) /\ Grows(proc[w].next) /\ proc[w].next \in Chain
  BY DEF LedgerInv, BudgetInv, BudgetTypes, Fits, Call
<1>2. files # {} => Tip \in Chain /\ Balanced(Tip)
  BY TipIs DEF LedgerInv
<1>3. ASSUME NEW l \in Cap, proc[w].next = <<CapItem(l)>>
      PROVE  Balanced(proc[w].next)
  BY <1>3, CapBalances
<1>4. ASSUME files # {}, NEW r \in Request, Follows(Tip, Reservation(r)),
             proc[w].next = Append(Tip, Reservation(r))
      PROVE  Balanced(proc[w].next)
  BY <1>2, <1>4, ReservationBalances
<1>5. ASSUME files # {}, NEW l \in Cap, Follows(Tip, Extension(l)),
             proc[w].next = Append(Tip, Extension(l))
      PROVE  Balanced(proc[w].next)
  BY <1>2, <1>5, ExtensionBalances
<1> QED BY <1>1, <1>3, <1>4, <1>5 DEF Pending

(* A record that is written makes its chain the ledger. *)
LEMMA WritingStep ==
  ASSUME LedgerInv, NEW w \in Writer, Writes(w), BudgetInv'
  PROVE  LedgerInv' /\ Tip' = proc[w].next
<1>1. Balanced(proc[w].next) /\ Grows(proc[w].next) /\ proc[w].next \in Chain
  BY PendingBalances DEF Writes
<1>2. Tip' = proc[w].next
  <2>1. proc[w].next \in files' /\ \A f \in files' : Len(f) <= Len(proc[w].next)
    <3>1. \A f \in files \cup {proc[w].next} : f \in Chain /\ Len(f) \in Nat
      BY <1>1, LenProperties DEF LedgerInv, BudgetInv, BudgetTypes, Chain
    <3> QED BY <1>1, <3>1 DEF Writes, Grows
  <2>2. PICK names : names = files'
    OBVIOUS
  <2>3. /\ names \in SUBSET Chain /\ HasLongest(names) /\ Tip' = Longest(names)
        /\ \A f, g \in names : Len(f) = Len(g) => f = g
    <3>1. names # {} /\ names \in SUBSET Chain
      BY <2>1, <2>2 DEF BudgetInv, BudgetTypes
    <3>2. HasLongest(names)
      BY <2>2, <3>1 DEF BudgetInv, RecordsFit, HasLongest
    <3>3. Tip' = Longest(names)
      BY <2>2, <3>1 DEF Tip, Longest
    <3>4. \A f, g \in names : Len(f) = Len(g) => f = g
      BY <2>2 DEF BudgetInv, RecordsFit, Linked
    <3> QED BY <3>1, <3>2, <3>3, <3>4
  <2> QED BY <2>1, <2>2, <2>3, OneLongest
<1>3. \A c \in files' : Balanced(c)
  BY <1>1 DEF LedgerInv, Writes
<1>4. \A v \in Writer : proc'[v].at \in {"create", "fill"} => Pending(proc[v])'
  BY DEF Writes
<1> QED BY <1>2, <1>3, <1>4 DEF LedgerInv, Balanced

(* Only the holder of the lock writes. *)
LEMMA FillWrites ==
  ASSUME LedgerInv, NEW w \in Writer, proc[w].at = "fill", Written(w), UNCHANGED granted,
         NEW call, call.at \notin {"create", "fill"}, proc' = [proc EXCEPT ![w] = call]
  PROVE  Writes(w)
<1>1. \A v \in Writer : v # w => proc[v].at \notin {"create", "fill"}
  BY DEF LedgerInv, BudgetInv, OneHolder, Holding
<1>2. \A v \in Writer : proc'[v] = IF v = w THEN call ELSE proc[v]
  BY DEF LedgerInv, BudgetInv, BudgetTypes
<1> QED BY <1>1, <1>2 DEF Written, Writes

(* A call that ends writes no more. *)
LEMMA ReturnUnwrites ==
  ASSUME NEW w \in Writer, NEW r, Return(w, r) \/ GiveUp(w, r)
  PROVE  \E call : call.at \notin {"create", "fill"} /\ proc' = [proc EXCEPT ![w] = call]
<1>1. CASE Return(w, r)
  <2>1. PICK call : call = [Rest EXCEPT !.cmd = proc[w].cmd, !.at = "done", !.result = r]
    OBVIOUS
  <2>2. call.at = "done"
    BY <2>1 DEF Rest
  <2> QED BY <1>1, <2>1, <2>2 DEF Return
<1>2. CASE GiveUp(w, r)
  <2>1. PICK call : call = [Rest EXCEPT !.cmd = proc[w].cmd, !.at = "unlock", !.result = r]
    OBVIOUS
  <2>2. call.at = "unlock"
    BY <2>1 DEF Rest
  <2> QED BY <1>2, <2>1, <2>2 DEF GiveUp
<1> QED BY <1>1, <1>2

(* The steps that only move one call on. *)
LEMMA QuietLedger ==
  ASSUME LedgerInv, BudgetInv', NEW w \in Writer,
         \/ \E cmd, r, l : Begin(w, cmd, r, l)
         \/ Look(w) \/ List(w) \/ Read(w) \/ LookAgain(w) \/ Verify(w) \/ TakeLock(w)
         \/ MakeDirectory(w) \/ Unlock(w) \/ Leave(w)
  PROVE  LedgerInv' /\ UNCHANGED <<files, granted>>
<1>1. proc[w] \in Call /\ UNCHANGED <<files, granted>>
  BY DEF LedgerInv, BudgetInv, BudgetTypes, Begin, Look, List, Read, LookAgain, Verify, TakeLock,
         MakeDirectory, Unlock, Leave, OnDisk
<1>2. ASSUME NEW r, Return(w, r) PROVE LedgerInv'
  BY <1>1, <1>2, ReturnUnwrites, UnwritingStep
<1>3. ASSUME NEW call, call.at \notin {"create", "fill"}, proc' = [proc EXCEPT ![w] = call]
      PROVE  LedgerInv'
  BY <1>1, <1>3, UnwritingStep
<1>4. ASSUME NEW step \in Steps \ {"create", "fill"}, NEW call \in Call,
             proc' = [proc EXCEPT ![w] = [call EXCEPT !.at = step]]
      PROVE  LedgerInv'
  <2>1. PICK next : next = [call EXCEPT !.at = step]
    OBVIOUS
  <2>2. next.at = step
    BY <2>1 DEF Call
  <2> QED BY <1>3, <1>4, <2>1, <2>2
<1>5. ASSUME NEW cmd, NEW r, NEW l, Begin(w, cmd, r, l) PROVE LedgerInv'
  <2>1. PICK call : call = [Rest EXCEPT !.cmd = cmd, !.ask = r, !.limit = l,
                                        !.at = IF cmd = "reserve" THEN "lock" ELSE "look"]
    OBVIOUS
  <2>2. call.at \in {"lock", "look"}
    BY <2>1 DEF Rest
  <2> QED BY <1>3, <1>5, <2>1, <2>2 DEF Begin
<1>6. ASSUME Look(w) PROVE LedgerInv'
  <2>1. PICK call : call = [proc[w] EXCEPT !.at = "list", !.since = Tip]
    OBVIOUS
  <2>2. call.at = "list" /\ (locked \/ proc' = [proc EXCEPT ![w] = call])
    BY <1>1, <1>6, <2>1 DEF Look, Call, LedgerInv, BudgetInv, BudgetTypes
  <2> QED BY <1>2, <1>3, <1>6, <2>2 DEF Look
<1>7. ASSUME List(w) PROVE LedgerInv'
  <2>1. PICK call : call = [proc[w] EXCEPT !.at = "read", !.names = files \cup torn]
    OBVIOUS
  <2>2. call.at = "read" /\ (Return(w, "corrupt") \/ proc' = [proc EXCEPT ![w] = call])
    BY <1>1, <1>7, <2>1 DEF List, Call, LedgerInv, BudgetInv, BudgetTypes
  <2> QED BY <1>2, <1>3, <2>2
<1>8. ASSUME Read(w) PROVE LedgerInv'
  <2>1. PICK call : call = [proc[w] EXCEPT !.at = "lookAgain", !.view = ReadChain(proc[w].names),
                                           !.names = {}]
    OBVIOUS
  <2>2. call.at = "lookAgain" /\ (Return(w, "corrupt") \/ proc' = [proc EXCEPT ![w] = call])
    BY <1>1, <1>8, <2>1 DEF Read, Call, LedgerInv, BudgetInv, BudgetTypes
  <2> QED BY <1>2, <1>3, <2>2
<1>9. ASSUME LookAgain(w) PROVE LedgerInv'
  <2>1. PICK call : call = [proc[w] EXCEPT !.at = "done", !.result = "ok"]
    OBVIOUS
  <2>2. call.at = "done"
    BY <1>1, <2>1 DEF Call
  <2>3. \/ \E r : Return(w, r)
        \/ proc' = [proc EXCEPT ![w] = call]
        \/ Goto(w, "verify")
    BY <1>1, <1>9, <2>1 DEF LookAgain, LedgerInv, BudgetInv, BudgetTypes, Call
  <2>4. ASSUME Goto(w, "verify") PROVE LedgerInv'
    <3>1. "verify" \in Steps \ {"create", "fill"}
      BY DEF Steps
    <3>2. proc' = [proc EXCEPT ![w] = [proc[w] EXCEPT !.at = "verify"]]
      BY <1>1, <2>4 DEF Goto, LedgerInv, BudgetInv, BudgetTypes, Call
    <3> QED BY <1>1, <1>4, <3>1, <3>2
  <2> QED BY <1>2, <1>3, <2>2, <2>3, <2>4
<1>10. ASSUME Verify(w) PROVE LedgerInv'
  <2>1. PICK call : call = [proc[w] EXCEPT !.at = "lock", !.since = <<>>]
    OBVIOUS
  <2>2. call.at = "lock" /\ (Return(w, "denied") \/ proc' = [proc EXCEPT ![w] = call])
    BY <1>1, <1>10, <2>1 DEF Verify, Call, LedgerInv, BudgetInv, BudgetTypes
  <2> QED BY <1>2, <1>3, <2>2
<1>11. ASSUME NEW step \in Steps \ {"create", "fill"}, Goto(w, step) PROVE LedgerInv'
  <2>1. proc' = [proc EXCEPT ![w] = [proc[w] EXCEPT !.at = step]]
    BY <1>1, <1>11 DEF Goto, LedgerInv, BudgetInv, BudgetTypes, Call
  <2> QED BY <1>1, <1>4, <2>1
<1>12. ASSUME TakeLock(w) PROVE LedgerInv'
  <2>1. Entry(w) \in Steps \ {"create", "fill"}
    BY DEF Entry, Steps, Holding
  <2> QED BY <1>2, <1>11, <1>12, <2>1 DEF TakeLock
<1>13. ASSUME MakeDirectory(w) PROVE LedgerInv'
  <2>1. {"records", "decide"} \subseteq Steps \ {"create", "fill"}
    BY DEF Steps, Holding
  <2> QED BY <1>11, <1>13, <2>1 DEF MakeDirectory
<1>14. ASSUME Unlock(w) PROVE LedgerInv'
  <2>1. "done" \in Steps \ {"create", "fill"}
    BY DEF Steps
  <2>2. proc' = [proc EXCEPT ![w] = [proc[w] EXCEPT !.at = "done"]]
    BY <1>1, <1>14 DEF Unlock, LedgerInv, BudgetInv, BudgetTypes, Call
  <2> QED BY <1>1, <1>4, <2>1, <2>2
<1>15. ASSUME Leave(w) PROVE LedgerInv'
  <2>1. Rest.at \notin {"create", "fill"}
    BY RestFits
  <2> QED BY <1>3, <1>15, <2>1 DEF Leave
<1> QED BY <1>1, <1>5, <1>6, <1>7, <1>8, <1>9, <1>10, <1>12, <1>13, <1>14, <1>15

(* The step that makes the first record pending. *)
LEMMA MakeRecordsLedger ==
  ASSUME LedgerInv, BudgetInv', NEW w \in Writer, MakeRecords(w)
  PROVE  LedgerInv' /\ UNCHANGED <<files, granted>>
<1> DEFINE c == <<CapItem(proc[w].limit)>>
<1>1. PICK call : call = [proc[w] EXCEPT !.at = "create", !.next = c, !.view = <<>>]
  OBVIOUS
<1>2. /\ proc[w] \in Call /\ proc[w].limit \in Cap /\ files = {}
      /\ UNCHANGED <<files, granted>>
  BY DEF MakeRecords, LedgerInv, BudgetInv, BudgetTypes, Fits, RecordsFit, Holding
<1>3. call.next = c /\ call.limit = proc[w].limit
  BY <1>1, <1>2 DEF Call
<1>4. proc' = [proc EXCEPT ![w] = call]
  BY <1>1, <1>2 DEF MakeRecords, Publish, LedgerInv, BudgetInv, BudgetTypes, Call
<1>5. Pending(call)
  BY <1>2, <1>3 DEF Pending
<1>6. \A v \in Writer : proc'[v] = IF v = w THEN call ELSE proc[v]
  BY <1>4 DEF LedgerInv, BudgetInv, BudgetTypes
<1> QED BY <1>2, <1>5, <1>6, UndisturbedLedger

(* The step that makes a reservation or an extension pending. *)
LEMMA DecideLedger ==
  ASSUME LedgerInv, BudgetInv', NEW w \in Writer, Decide(w)
  PROVE  LedgerInv' /\ UNCHANGED <<files, granted>>
<1>1. /\ proc[w] \in Call /\ proc[w].at = "decide"
      /\ proc[w].cmd \in {"reserve", "extend"}
      /\ proc[w].cmd = "reserve" => proc[w].limit \in Cap /\ proc[w].ask \in Request
      /\ proc[w].cmd = "extend" => ~(proc[w].limit <= Limit(proc[w].view))
      /\ UNCHANGED <<files, granted>>
  BY DEF Decide, LedgerInv, BudgetInv, BudgetTypes, Fits, Holding, OnDisk
<1>2. ASSUME NEW r, GiveUp(w, r) PROVE LedgerInv'
  BY <1>1, <1>2, ReturnUnwrites, UnwritingStep
<1>3. ASSUME NEW c, Publish(w, c),
             \A call \in Call : /\ call.cmd = proc[w].cmd /\ call.limit = proc[w].limit
                                /\ call.ask = proc[w].ask /\ call.next = c
                                => Pending(call)
      PROVE  LedgerInv'
  <2>1. PICK call : call = [proc[w] EXCEPT !.at = "create", !.next = c, !.view = <<>>]
    OBVIOUS
  <2>2. /\ call.cmd = proc[w].cmd /\ call.limit = proc[w].limit
        /\ call.ask = proc[w].ask /\ call.next = c
    BY <1>1, <2>1 DEF Call
  <2>3. \A v \in Writer : proc'[v] = IF v = w THEN call ELSE proc[v]
    BY <1>1, <1>3, <2>1 DEF Publish, LedgerInv, BudgetInv, BudgetTypes, Call
  <2>4. call \in Call
    BY <2>3 DEF BudgetInv, BudgetTypes
  <2> QED BY <1>1, <1>3, <2>2, <2>3, <2>4, UndisturbedLedger
<1>4. CASE proc[w].cmd = "reserve"
  <2>1. \/ \E r : GiveUp(w, r)
        \/ /\ Found # <<>> /\ proc[w].ask \notin Requests(Found)
           /\ ~(Cost[proc[w].ask] > Limit(Found) - Total(Found))
           /\ Publish(w, Append(Found, Reservation(proc[w].ask)))
    BY <1>4 DEF Decide, DecideReserve
  <2>2. ASSUME Found # <<>>, proc[w].ask \notin Requests(Found),
               ~(Cost[proc[w].ask] > Limit(Found) - Total(Found)),
               Publish(w, Append(Found, Reservation(proc[w].ask)))
        PROVE  LedgerInv'
    <3>1. files # {} /\ Found = Tip
      BY <2>2, TipIs DEF LedgerInv
    <3>2. Follows(Tip, Reservation(proc[w].ask))
      BY <2>2, <3>1 DEF Follows, Reservation
    <3>3. ASSUME NEW call \in Call, call.cmd = proc[w].cmd, call.ask = proc[w].ask,
                 call.next = Append(Tip, Reservation(proc[w].ask))
          PROVE  Pending(call)
      BY <1>1, <1>4, <3>1, <3>2, <3>3 DEF Pending
    <3> QED BY <1>3, <2>2, <3>1, <3>3
  <2>3. CASE \E r : GiveUp(w, r)
    BY <1>1, <1>2, <2>3
  <2> QED BY <1>1, <2>1, <2>2, <2>3
<1>5. CASE proc[w].cmd = "extend"
  <2>1. \/ \E r : GiveUp(w, r)
        \/ /\ Found # <<>> /\ Found = proc[w].view /\ Scope(w) \in valid
           /\ Publish(w, Append(Found, Extension(proc[w].limit)))
    BY <1>5 DEF Decide, DecideExtend
  <2>2. ASSUME Found # <<>>, Found = proc[w].view, Scope(w) \in valid,
               Publish(w, Append(Found, Extension(proc[w].limit)))
        PROVE  LedgerInv'
    <3>1. files # {} /\ Found = Tip
      BY <2>2, TipIs DEF LedgerInv
    <3>2. Follows(Tip, Extension(proc[w].limit))
      BY <1>1, <1>5, <2>2, <3>1 DEF Follows, Extension
    <3>3. [on |-> Tip, to |-> proc[w].limit] \in granted
      BY <2>2, <3>1 DEF Scope, LedgerInv, BudgetInv, BudgetTypes
    <3>4. proc[w].limit \in Cap
      BY <3>3 DEF LedgerInv, BudgetInv, BudgetTypes
    <3>5. ASSUME NEW call \in Call, call.cmd = proc[w].cmd, call.limit = proc[w].limit,
                 call.next = Append(Tip, Extension(proc[w].limit))
          PROVE  Pending(call)
      BY <1>5, <3>1, <3>2, <3>3, <3>4, <3>5 DEF Pending
    <3> QED BY <1>3, <2>2, <3>1, <3>5
  <2>3. CASE \E r : GiveUp(w, r)
    BY <1>1, <1>2, <2>3
  <2> QED BY <1>1, <2>1, <2>2, <2>3
<1> QED BY <1>1, <1>4, <1>5

(* An empty file changes no account. *)
LEMMA CreateLedger ==
  ASSUME LedgerInv, BudgetInv', NEW w \in Writer, Create(w)
  PROVE  LedgerInv' /\ UNCHANGED <<files, granted>>
<1>1. PICK call : call = [proc[w] EXCEPT !.at = "fill"]
  OBVIOUS
<1>2. proc[w] \in Call /\ proc[w].at = "create" /\ UNCHANGED <<files, granted>>
  BY DEF Create, LedgerInv, BudgetInv, BudgetTypes
<1>3. /\ call.cmd = proc[w].cmd /\ call.limit = proc[w].limit
      /\ call.ask = proc[w].ask /\ call.next = proc[w].next
  BY <1>1, <1>2 DEF Call
<1>4. \A v \in Writer : proc'[v] = IF v = w THEN call ELSE proc[v]
  BY <1>1, <1>2 DEF Create, Goto, LedgerInv, BudgetInv, BudgetTypes, Call
<1> QED BY <1>2, <1>3, <1>4, UndisturbedLedger

(* Filling the file is what writes the record. *)
LEMMA FillLedger ==
  ASSUME LedgerInv, BudgetInv', NEW w \in Writer, Fill(w)
  PROVE  Writes(w)
<1>1. proc[w] \in Call /\ proc[w].at = "fill" /\ Written(w) /\ UNCHANGED granted
  BY DEF Fill, LedgerInv, BudgetInv, BudgetTypes
<1>2. ASSUME NEW r, GiveUp(w, r) PROVE Writes(w)
  BY <1>1, <1>2, ReturnUnwrites, FillWrites
<1>3. PICK call : call = [proc[w] EXCEPT !.at = "decide", !.next = <<>>]
  OBVIOUS
<1>4. call.at = "decide" /\ (GiveUp(w, "ok") \/ proc' = [proc EXCEPT ![w] = call])
  BY <1>1, <1>3 DEF Fill, Call, LedgerInv, BudgetInv, BudgetTypes
<1> QED BY <1>1, <1>2, <1>4, FillWrites

(* A failing operation may have written its record, and nothing else. *)
LEMMA IOFailsLedger ==
  ASSUME LedgerInv, BudgetInv', NEW w \in Writer, IOFails(w)
  PROVE  Writes(w) \/ (LedgerInv' /\ UNCHANGED <<files, granted>>)
<1>1. CASE proc[w].at \in Holding \ {"unlock"} /\ GiveUp(w, "corrupt") /\ UNCHANGED OnDisk
  BY <1>1, ReturnUnwrites, UnwritingStep DEF OnDisk
<1>2. CASE /\ proc[w].at = "fill" /\ Written(w) /\ GiveUp(w, "corrupt")
           /\ UNCHANGED <<locked, dir, valid, granted, orphaned>>
  <2>1. PICK call : call.at \notin {"create", "fill"} /\ proc' = [proc EXCEPT ![w] = call]
    BY <1>2, ReturnUnwrites
  <2>2. Writes(w)
    BY <1>2, <2>1, FillWrites
  <2> QED BY <2>2
<1>3. CASE Return(w, "corrupt") /\ UNCHANGED <<dir, files, torn, valid, granted>>
  BY <1>3, ReturnUnwrites, UnwritingStep
<1> QED BY <1>1, <1>2, <1>3 DEF IOFails

(* Calls that die leave the accounts as they are. *)
LEMMA DieLedger ==
  ASSUME LedgerInv, BudgetInv', NEW writers \in SUBSET Writer, Die(writers)
  PROVE  LedgerInv' /\ UNCHANGED <<files, granted>>
<1>1. \A v \in Writer : proc'[v] = Rest \/ proc'[v] = proc[v]
  BY DEF Die
<1>2. Rest.at \notin {"create", "fill"}
  BY RestFits
<1>3. UNCHANGED <<files, granted>>
  BY DEF Die
<1> QED BY <1>1, <1>2, <1>3, UndisturbedLedger

(* Every step keeps the accounts; it records the pending record, or nothing*)
LEMMA AccountsStep ==
  ASSUME LedgerInv, [BudgetNext]_budgetVars
  PROVE  /\ LedgerInv'
         /\ \/ UNCHANGED files /\ granted \subseteq granted'
            \/ \E w \in Writer : Writes(w)
<1>1. BudgetInv'
  BY BudgetStep DEF LedgerInv
<1>2. ASSUME NEW w \in Writer, Proceed(w)
      PROVE  Writes(w) \/ (LedgerInv' /\ UNCHANGED <<files, granted>>)
  <2>1. CASE Look(w) \/ List(w) \/ Read(w) \/ LookAgain(w) \/ Verify(w) \/ TakeLock(w)
             \/ MakeDirectory(w) \/ Unlock(w)
    BY <1>1, <2>1, QuietLedger
  <2>2. CASE MakeRecords(w) \/ Decide(w) \/ Create(w)
    BY <1>1, <2>2, MakeRecordsLedger, DecideLedger, CreateLedger
  <2>3. CASE Fill(w)
    <3>1. Writes(w)
      BY <1>1, <2>3, FillLedger
    <3> QED BY <3>1
  <2> QED BY <1>2, <2>1, <2>2, <2>3 DEF Proceed
<1>3. ASSUME NEW w \in Writer,
             \/ \E r \in Request, l \in Cap : Begin(w, "reserve", r, l)
             \/ \E l \in Cap : Begin(w, "extend", None, l)
             \/ Begin(w, "snapshot", None, 0)
             \/ Leave(w)
      PROVE  LedgerInv' /\ UNCHANGED <<files, granted>>
  BY <1>1, <1>3, QuietLedger
<1>4. CASE \/ \E c \in files, l \in Cap : Approve(c, l)
           \/ \E a \in valid : Expire(a)
  <2>1. UNCHANGED <<files, proc>> /\ granted \subseteq granted'
    BY <1>4 DEF Approve, Expire
  <2> QED BY <1>1, <2>1, UndisturbedLedger
<1>5. CASE UNCHANGED budgetVars
  <2>1. UNCHANGED <<files, proc, granted>>
    BY <1>5 DEF budgetVars
  <2> QED BY <1>1, <2>1, UndisturbedLedger
<1>6. ASSUME NEW w \in Writer, Writes(w) PROVE LedgerInv'
  BY <1>1, <1>6, WritingStep
<1> QED BY <1>1, <1>2, <1>3, <1>4, <1>5, <1>6, IOFailsLedger, DieLedger DEF BudgetNext

(* Without a ledger the accounts are empty. *)
LEMMA AccountsInitially == BudgetInit => LedgerInv
<1>1. Rest.at \notin {"create", "fill"}
  BY RestFits
<1> QED BY <1>1, BudgetInitially DEF BudgetInit, LedgerInv

-------------------------------------------------------------------------------
(* The step that SpendCap takes when a record is written.                  *)
LimitNow == IF files = {} THEN 0 ELSE Limit(Tip)

(* A written record is the first cap, a charge or an extension. *)
LEMMA WriteMaps ==
  ASSUME LedgerInv, NEW w \in Writer, Writes(w), BudgetInv'
  PROVE  \/ /\ files = {} /\ proc[w].limit \in Cap /\ LimitNow' = proc[w].limit
            /\ UNCHANGED Requests(Tip)
         \/ /\ files # {} /\ proc[w].cmd = "reserve" /\ proc[w].ask \in Request
            /\ proc[w].ask \notin Requests(Tip)
            /\ Accounts!Sum(Requests(Tip)) + Cost[proc[w].ask] <= LimitNow
            /\ Requests(Tip)' = Requests(Tip) \cup {proc[w].ask}
            /\ UNCHANGED LimitNow
         \/ /\ files # {} /\ proc[w].cmd = "extend" /\ proc[w].limit \in Cap
            /\ proc[w].limit > LimitNow
            /\ [on |-> Tip, to |-> proc[w].limit] \in granted
            /\ LimitNow' = proc[w].limit
            /\ UNCHANGED Requests(Tip)
<1>1. Tip' = proc[w].next /\ files' # {} /\ Pending(proc[w])
  BY WritingStep DEF Writes, LedgerInv
<1>2. LimitNow' = Limit(proc[w].next) /\ Requests(Tip)' = Requests(proc[w].next)
  BY <1>1 DEF LimitNow, Limit, Requests, Reservations
<1>3. files # {} => Tip \in Chain /\ Balanced(Tip) /\ LimitNow = Limit(Tip)
  BY TipIs DEF LedgerInv, LimitNow
<1>4. CASE /\ files = {} /\ proc[w].limit \in Cap
           /\ proc[w].next = <<CapItem(proc[w].limit)>>
  <2>1. Requests(Tip) = {}
    <3>1. Tip = <<>> /\ DOMAIN Tip = {}
      BY <1>4 DEF Tip
    <3> QED BY <3>1 DEF Requests, Reservations
  <2>2. Requests(proc[w].next) = {} /\ Limit(proc[w].next) = proc[w].limit
    BY <1>4, CapBalances
  <2> QED BY <1>2, <1>4, <2>1, <2>2
<1>5. CASE /\ files # {} /\ proc[w].cmd = "reserve" /\ proc[w].ask \in Request
           /\ Follows(Tip, Reservation(proc[w].ask))
           /\ proc[w].next = Append(Tip, Reservation(proc[w].ask))
  <2>1. /\ Requests(proc[w].next) = Requests(Tip) \cup {proc[w].ask}
        /\ Limit(proc[w].next) = Limit(Tip)
        /\ proc[w].ask \notin Requests(Tip)
        /\ Accounts!Sum(Requests(Tip)) + Cost[proc[w].ask] <= Limit(Tip)
    BY <1>3, <1>5, ReservationBalances
  <2> QED BY <1>2, <1>3, <1>5, <2>1
<1>6. CASE /\ files # {} /\ proc[w].cmd = "extend" /\ proc[w].limit \in Cap
           /\ Follows(Tip, Extension(proc[w].limit))
           /\ proc[w].next = Append(Tip, Extension(proc[w].limit))
           /\ [on |-> Tip, to |-> proc[w].limit] \in granted
  <2>1. /\ Requests(proc[w].next) = Requests(Tip) /\ Limit(proc[w].next) = proc[w].limit
        /\ proc[w].limit > Limit(Tip)
    BY <1>3, <1>6, ExtensionBalances
  <2> QED BY <1>2, <1>3, <1>6, <2>1
<1> QED BY <1>1, <1>4, <1>5, <1>6 DEF Pending

(* reserveProposalBudget and extendProposalBudget implement SpendCap: what *)
(* they charge is final, charged once and within the cap, and the cap is   *)
(* raised only over the very ledger, and to the value, that was approved.  *)
THEOREM LedgerImplementsSpendCap == BudgetSpec => LedgerSpec
<1>1. BudgetInit => Accounts!Init
  <2> SUFFICES ASSUME BudgetInit PROVE Accounts!Init
    OBVIOUS
  <2>1. Tip = <<>> /\ DOMAIN <<>> = {}
    BY DEF BudgetInit, Tip
  <2> QED BY <2>1 DEF BudgetInit, Accounts!Init, Requests, Reservations
<1>2. ASSUME LedgerInv, [BudgetNext]_budgetVars
      PROVE  [Accounts!Next]_(Accounts!vars)
  <2>1. LedgerInv' /\ (\/ UNCHANGED files /\ granted \subseteq granted'
                       \/ \E w \in Writer : Writes(w))
    BY <1>2, AccountsStep
  <2>2. CASE UNCHANGED files /\ granted \subseteq granted'
    <3>1. UNCHANGED <<LimitNow, Requests(Tip)>>
      BY <2>2 DEF LimitNow, Limit, Requests, Reservations, Tip, Longest
    <3>2. Accounts!Approve
      BY <2>2, <3>1 DEF Accounts!Approve, LimitNow
    <3> QED BY <3>2 DEF Accounts!Next
  <2>3. ASSUME NEW w \in Writer, Writes(w)
        PROVE  Accounts!Next
    <3> DEFINE approved == {[charged |-> Requests(a.on), from |-> Limit(a.on), to |-> a.to] : a \in granted}
    <3>1. UNCHANGED approved
      BY <2>3 DEF Writes, Requests, Reservations, Limit
    <3>2. CASE /\ files = {} /\ proc[w].limit \in Cap /\ LimitNow' = proc[w].limit
               /\ UNCHANGED Requests(Tip)
      <4>1. Accounts!Open(proc[w].limit)
        BY <3>1, <3>2 DEF Accounts!Open, LimitNow
      <4> QED BY <3>2, <4>1 DEF Accounts!Next
    <3>3. CASE /\ files # {} /\ proc[w].ask \in Request
               /\ proc[w].ask \notin Requests(Tip)
               /\ Accounts!Sum(Requests(Tip)) + Cost[proc[w].ask] <= LimitNow
               /\ Requests(Tip)' = Requests(Tip) \cup {proc[w].ask}
               /\ UNCHANGED LimitNow
      <4>1. Accounts!Charge(proc[w].ask)
        BY <3>1, <3>3 DEF Accounts!Charge, LimitNow
      <4> QED BY <3>3, <4>1 DEF Accounts!Next
    <3>4. CASE /\ files # {} /\ proc[w].limit \in Cap /\ proc[w].limit > LimitNow
               /\ [on |-> Tip, to |-> proc[w].limit] \in granted
               /\ LimitNow' = proc[w].limit
               /\ UNCHANGED Requests(Tip)
      <4>1. [charged |-> Requests(Tip), from |-> LimitNow, to |-> proc[w].limit] \in approved
        <5>1. LimitNow = Limit(Tip)
          BY <3>4 DEF LimitNow
        <5>2. PICK a \in granted : a = [on |-> Tip, to |-> proc[w].limit]
          BY <3>4
        <5>3. a.on = Tip /\ a.to = proc[w].limit
          BY <5>2
        <5> QED BY <5>1, <5>3
      <4>2. Accounts!Raise(proc[w].limit)
        BY <3>1, <3>4, <4>1 DEF Accounts!Raise, LimitNow
      <4> QED BY <3>4, <4>2 DEF Accounts!Next
    <3> QED BY <1>2, <2>1, <2>3, <3>2, <3>3, <3>4, WriteMaps DEF LedgerInv
  <2> QED BY <2>1, <2>2, <2>3
<1>3. LedgerInv /\ [BudgetNext]_budgetVars => LedgerInv'
  BY AccountsStep
<1> QED BY <1>1, <1>2, <1>3, AccountsInitially, PTL DEF BudgetSpec, LedgerSpec, Accounts!Spec

-------------------------------------------------------------------------------
(* The diagnostics.                                                        *)

(* What is queued beyond the slots leaves the marker behind. *)
DiagnosticsInv ==
  /\ queued \in Nat /\ dropped \in Nat /\ failures \in Nat /\ slots \in 0..Slots
  /\ lossy \in BOOLEAN /\ marker \in BOOLEAN
  /\ lossy = FALSE => /\ slots + queued + dropped = failures
                      /\ dropped > 0 => marker = TRUE \/ slots + queued > Slots

(* Every step keeps the slots and the marker in order. *)
LEMMA DiagnosticsStep ==
  ASSUME DiagnosticsInv, [Next]_vars
  PROVE  DiagnosticsInv'
<1> USE DEF DiagnosticsInv
<1>1. ASSUME UNCHANGED processVars, UNCHANGED <<slots, marker>>
      PROVE  DiagnosticsInv'
  BY <1>1 DEF processVars
<1>2. ASSUME NEW h, NEW post, Enqueue(h, post), UNCHANGED <<slots, marker, lossy>>
      PROVE  DiagnosticsInv'
  BY <1>2, GatewayAssumption DEF Enqueue, QueueLimit
<1>3. ASSUME NEW h, NEW reserved, Failing(h, reserved), UNCHANGED <<slots, marker>>
      PROVE  DiagnosticsInv'
  BY <1>2, <1>3 DEF Failing
<1>4. CASE Drain
  <2>1. Slots \in Nat /\ queued' = queued - 1 /\ queued' \in Nat /\ UNCHANGED failures
    BY <1>4, GatewayAssumption DEF Drain
  <2>2. CASE slots < Slots /\ slots' = slots + 1 /\ UNCHANGED <<marker, dropped, lossy>>
    BY <2>1, <2>2
  <2>3. CASE slots = Slots /\ marker' = TRUE /\ dropped' = dropped + 1 /\ UNCHANGED <<slots, lossy>>
    BY <2>1, <2>3
  <2>4. CASE /\ lossy' = TRUE
             /\ dropped' = IF slots = Slots THEN dropped + 1 ELSE dropped
             /\ slots' \in {slots, IF slots < Slots THEN slots + 1 ELSE slots}
             /\ marker' \in {marker, marker \/ slots = Slots}
    <3>1. marker' \in BOOLEAN
      BY <2>4
    <3>2. dropped' \in Nat /\ slots' \in 0..Slots /\ lossy' = TRUE
      BY <2>1, <2>4
    <3> QED BY <2>1, <3>1, <3>2
  <2> QED BY <1>4, <2>2, <2>3, <2>4 DEF Drain
<1>5. CASE Crash
  <2>1. /\ queued' = 0 /\ lossy' = FALSE /\ UNCHANGED <<slots, marker>>
        /\ dropped' = IF marker THEN 1 ELSE 0
        /\ failures' = slots + dropped'
    BY <1>5 DEF Crash, diskVars
  <2>2. lossy' \in BOOLEAN /\ marker' \in BOOLEAN
    BY <2>1
  <2>3. /\ slots' \in 0..Slots /\ queued' \in Nat /\ dropped' \in Nat /\ failures' \in Nat
        /\ slots' + queued' + dropped' = failures'
    BY <2>1
  <2>4. dropped' > 0 => marker' = TRUE
    BY <2>1
  <2> QED BY <2>2, <2>3, <2>4
<1>6. ASSUME NEW h \in Handler, NEW r \in Request, Arrive(h, r)
      PROVE  DiagnosticsInv'
  BY <1>1, <1>3, <1>6 DEF Arrive, diskVars
<1>7. ASSUME NEW h \in Handler, Persist(h)
      PROVE  DiagnosticsInv'
  BY <1>1, <1>2, <1>7 DEF Persist
<1>8. ASSUME NEW h \in Handler, Admit(h) \/ Refuse(h) \/ Break(h) \/ Cancel(h)
      PROVE  DiagnosticsInv'
  BY <1>1, <1>3, <1>8 DEF Admit, Refuse, Break, Cancel, diskVars
<1>9. ASSUME NEW h \in Handler, Abort(h) \/ Send(h) \/ Complete(h) \/ Diagnosed(h) \/ Concluded(h)
      PROVE  DiagnosticsInv'
  BY <1>1, <1>9 DEF Abort, Send, Complete, Diagnosed, Concluded, diskVars
<1>10. ASSUME NEW w \in Writer, LedgerStep(w) \/ LedgerFails(w)
       PROVE  DiagnosticsInv'
  BY <1>1, <1>10 DEF LedgerStep, LedgerFails, Elsewhere, diskVars
<1>11. CASE UNCHANGED vars
  BY <1>1, <1>11 DEF vars, diskVars
<1> QED BY <1>4, <1>5, <1>6, <1>7, <1>8, <1>9, <1>10, <1>11 DEF Next, Handle

(* recordFailure and its queue lose no failure, and a restart finds the    *)
(* marker of whatever an earlier process dropped.                          *)
THEOREM NoFailureVanishes == Spec => []FailuresAccounted
<1>1. Init => DiagnosticsInv
  <2> SUFFICES ASSUME Init PROVE DiagnosticsInv
    OBVIOUS
  <2>1. /\ queued = 0 /\ dropped = 0 /\ failures = 0 /\ slots = 0
        /\ lossy = FALSE /\ marker = FALSE /\ Slots \in Nat
    BY GatewayAssumption DEF Init
  <2>2. lossy \in BOOLEAN /\ marker \in BOOLEAN
    BY <2>1
  <2>3. /\ slots \in 0..Slots /\ queued \in Nat /\ dropped \in Nat /\ failures \in Nat
        /\ slots + queued + dropped = failures /\ ~(dropped > 0)
    BY <2>1
  <2> QED BY <2>2, <2>3 DEF DiagnosticsInv
<1>2. DiagnosticsInv /\ [Next]_vars => DiagnosticsInv'
  BY DiagnosticsStep
<1>3. DiagnosticsInv => FailuresAccounted
  <2> SUFFICES ASSUME DiagnosticsInv, ~lossy PROVE FailuresAccounted
    BY DEF FailuresAccounted
  <2>1. lossy = FALSE
    BY DEF DiagnosticsInv
  <2>2. /\ slots + queued + dropped = failures
        /\ queued = 0 /\ dropped > 0 => marker = TRUE
    BY <2>1, GatewayAssumption DEF DiagnosticsInv
  <2> QED BY <2>2 DEF FailuresAccounted
<1> QED BY <1>1, <1>2, <1>3, PTL DEF Spec

-------------------------------------------------------------------------------
(* The handlers.                                                           *)

Charged == Requests(Tip)
Asking == {"lock", "directory", "records", "decide", "create", "fill"}

Post == [at : {"idle", "body", "reserve", "upstream", "diagnose", "persist", "conclude"},
         request : Request \cup {None}, aborted : BOOLEAN, completed : BOOLEAN,
         reserved : BOOLEAN, behind : Nat]

GatewayTypes ==
  /\ handler \in [Handler -> Post]
  /\ outcome \in [Request -> {None, "completed", "failed_or_partial"}]
  /\ sent \in [Request -> Nat] /\ answered \in SUBSET Request

(* A handler has a request from its body on; its call of the ledger is the *)
(* reservation of that request, and of nothing else.                       *)
Serving(post, call) ==
  /\ post.at \in {"body", "reserve", "upstream", "persist"} => post.request \in Request
  /\ post.at = "diagnose" /\ post.reserved = TRUE => post.request \in Request
  /\ post.at = "reserve" => /\ call.cmd = "reserve" /\ call.at \in Asking \cup {"unlock", "done"}
                            /\ call.at \in Asking => call.ask = post.request
  /\ post.at # "reserve" => call.at = "idle"
  /\ call.result = "ok" => call.at \in {"unlock", "done"}
  /\ post.at \notin {"persist", "conclude"} => post.completed = FALSE

(* The handler whose reservation was granted, until it wrote the outcome.  *)
Owner(post, call) ==
  \/ post.at \in {"upstream", "persist"}
  \/ post.at = "diagnose" /\ post.reserved = TRUE
  \/ post.at = "reserve" /\ call.result = "ok"

(* The request of such a handler is charged, without an outcome, and       *)
(* answered exactly if the handler knows it.                               *)
Owned(post) ==
  /\ post.request \in Charged /\ outcome[post.request] = None
  /\ post.request \in answered <=> post.completed = TRUE
  /\ post.at = "reserve" => sent[post.request] = 0

OneOwner ==
  \A h, g \in Handler :
    Owner(handler[h], proc[h]) /\ Owner(handler[g], proc[g])
      /\ handler[h].request = handler[g].request => h = g

(* What is on record of a request that was never charged: nothing. *)
OnRecord ==
  /\ \A r \in answered : r \in Charged
  /\ \A r \in Request : /\ outcome[r] # None => r \in Charged
                        /\ outcome[r] = "completed" => r \in answered
                        /\ outcome[r] = "failed_or_partial" => r \notin answered
                        /\ sent[r] > 0 => r \in Charged
                        /\ sent[r] <= 1

GatewayInv ==
  /\ LedgerInv /\ DiagnosticsInv /\ GatewayTypes
  /\ \A h \in Handler : /\ Serving(handler[h], proc[h])
                        /\ Owner(handler[h], proc[h]) => Owned(handler[h])
  /\ OneOwner /\ OnRecord

(* A reservation on its way through the ledger. *)
LEMMA ReservationMoves ==
  ASSUME LedgerInv, NEW w \in Writer, proc[w].cmd = "reserve",
         proc[w].at \in Asking \cup {"unlock", "done"},
         proc[w].result = "ok" => proc[w].at \in {"unlock", "done"},
         Proceed(w) \/ IOFails(w)
  PROVE  \E call : /\ proc' = [proc EXCEPT ![w] = call]
                   /\ call.cmd = "reserve" /\ call.at \in Asking \cup {"unlock", "done"}
                   /\ call.at \in Asking => call.ask = proc[w].ask /\ proc[w].at \in Asking
                   /\ call.result = "ok" =>
                        /\ call.at \in {"unlock", "done"}
                        /\ proc[w].result = "ok" \/ (proc[w].at = "fill" /\ Len(proc[w].next) # 1)
<1> DEFINE Good(call) == /\ call.cmd = "reserve" /\ call.at \in Asking \cup {"unlock", "done"}
                         /\ call.at \in Asking => call.ask = proc[w].ask /\ proc[w].at \in Asking
                         /\ call.result = "ok" =>
                              /\ call.at \in {"unlock", "done"}
                              /\ proc[w].result = "ok" \/ (proc[w].at = "fill" /\ Len(proc[w].next) # 1)
<1>1. proc[w] \in Call /\ proc \in [Writer -> Call]
  BY DEF LedgerInv, BudgetInv, BudgetTypes
<1>2. SUFFICES \E call : proc' = [proc EXCEPT ![w] = call] /\ Good(call)
  OBVIOUS
<1>0. {"directory", "decide", "records", "create", "fill"} \subseteq Asking
  BY DEF Asking
<1>3. ASSUME NEW r, r # "ok" \/ (proc[w].at = "fill" /\ Len(proc[w].next) # 1), Return(w, r) \/ GiveUp(w, r)
      PROVE  \E call : proc' = [proc EXCEPT ![w] = call] /\ Good(call)
  <2>1. PICK step \in {"done", "unlock"} :
          proc' = [proc EXCEPT ![w] = [Rest EXCEPT !.cmd = proc[w].cmd, !.at = step, !.result = r]]
    BY <1>3 DEF Return, GiveUp
  <2>2. PICK call : call = [Rest EXCEPT !.cmd = proc[w].cmd, !.at = step, !.result = r]
    OBVIOUS
  <2>3. call.cmd = proc[w].cmd /\ call.at = step /\ call.result = r
    BY <2>2 DEF Rest
  <2>4. Good(call)
    BY <1>3, <2>3 DEF Asking
  <2> QED BY <2>1, <2>2, <2>4
<1>4. ASSUME NEW step \in Asking, NEW next, NEW view, proc[w].at \in Asking,
             proc' = [proc EXCEPT ![w] = [proc[w] EXCEPT !.at = step, !.next = next, !.view = view]]
      PROVE  \E call : proc' = [proc EXCEPT ![w] = call] /\ Good(call)
  <2>1. PICK call : call = [proc[w] EXCEPT !.at = step, !.next = next, !.view = view]
    OBVIOUS
  <2>2. /\ call.cmd = "reserve" /\ call.at = step /\ call.ask = proc[w].ask
        /\ call.result = proc[w].result
    BY <1>1, <2>1 DEF Call
  <2>3. Good(call)
    BY <1>4, <2>2 DEF Asking
  <2> QED BY <1>4, <2>1, <2>3
<1>5. ASSUME NEW step \in Asking, proc[w].at \in Asking, Goto(w, step)
      PROVE  \E call : proc' = [proc EXCEPT ![w] = call] /\ Good(call)
  <2>1. proc' = [proc EXCEPT ![w] = [proc[w] EXCEPT !.at = step, !.next = proc[w].next,
                                                    !.view = proc[w].view]]
    BY <1>1, <1>5 DEF Goto, Call
  <2> QED BY <1>4, <1>5, <2>1
<1>6. ASSUME NEW c, proc[w].at \in Asking, Publish(w, c)
      PROVE  \E call : proc' = [proc EXCEPT ![w] = call] /\ Good(call)
  <2>1. proc' = [proc EXCEPT ![w] = [proc[w] EXCEPT !.at = "create", !.next = c, !.view = <<>>]]
    BY <1>1, <1>6 DEF Publish, Call
  <2>2. "create" \in Asking
    BY <1>0
  <2> HIDE DEF Good
  <2> QED BY <1>4, <1>6, <2>1, <2>2
<1>7. CASE Proceed(w)
  <2>1. CASE TakeLock(w)
    BY <1>3, <1>5, <2>1 DEF TakeLock, Entry, Asking
  <2>2. CASE MakeDirectory(w)
    BY <1>5, <2>2 DEF MakeDirectory, Asking
  <2>3. CASE MakeRecords(w)
    BY <1>6, <2>3 DEF MakeRecords, Asking
  <2>4. CASE Decide(w)
    <3>1. proc[w].at \in Asking /\ DecideReserve(w)
      BY <2>4 DEF Decide, Asking
    <3>2. \/ \E r \in {"corrupt", "drift", "reserved", "exceeded"} : GiveUp(w, r)
          \/ \E c : Publish(w, c)
      BY <3>1 DEF DecideReserve
    <3> QED BY <1>3, <1>6, <3>1, <3>2
  <2>5. CASE Create(w)
    BY <1>5, <2>5 DEF Create, Asking
  <2>6. CASE Fill(w)
    <3>1. proc[w].at = "fill" /\ proc[w].at \in Asking
      BY <2>6 DEF Fill, Asking
    <3>2. CASE Len(proc[w].next) = 1
      <4>1. proc' = [proc EXCEPT ![w] = [proc[w] EXCEPT !.at = "decide", !.next = <<>>,
                                                        !.view = proc[w].view]]
        BY <1>1, <2>6, <3>2 DEF Fill, Call
      <4>2. "decide" \in Asking
        BY <1>0
      <4> HIDE DEF Good
      <4> QED BY <1>4, <3>1, <4>1, <4>2
    <3>3. CASE Len(proc[w].next) # 1
      <4>1. GiveUp(w, "ok")
        BY <2>6, <3>3 DEF Fill
      <4> QED BY <1>3, <3>1, <3>3, <4>1
    <3> QED BY <3>2, <3>3
  <2>7. CASE Unlock(w)
    <3>1. PICK call : call = [proc[w] EXCEPT !.at = "done"]
      OBVIOUS
    <3>2. call.cmd = "reserve" /\ call.at = "done" /\ call.result = proc[w].result
      BY <1>1, <3>1 DEF Call
    <3>3. Good(call)
      BY <3>2 DEF Asking
    <3>4. proc' = [proc EXCEPT ![w] = call]
      BY <1>1, <2>7, <3>1 DEF Unlock, Call
    <3> QED BY <3>3, <3>4
  <2>8. ~(Look(w) \/ List(w) \/ Read(w) \/ LookAgain(w) \/ Verify(w))
    BY DEF Look, List, Read, LookAgain, Verify, Asking
  <2> QED BY <1>7, <2>1, <2>2, <2>3, <2>4, <2>5, <2>6, <2>7, <2>8 DEF Proceed
<1>8. CASE IOFails(w)
  <2>1. Return(w, "corrupt") \/ GiveUp(w, "corrupt")
    BY <1>8 DEF IOFails
  <2> QED BY <1>3, <2>1
<1> QED BY <1>7, <1>8

(* What was charged stays so. *)
LEMMA ChargesStay ==
  ASSUME LedgerInv, [BudgetNext]_budgetVars
  PROVE  /\ LedgerInv' /\ Charged \subseteq Charged'
         /\ UNCHANGED files => UNCHANGED Charged
<1>1. LedgerInv' /\ (\/ UNCHANGED files /\ granted \subseteq granted'
                     \/ \E w \in Writer : Writes(w))
  BY AccountsStep
<1>2. ASSUME UNCHANGED files
      PROVE  UNCHANGED Charged
  BY <1>2 DEF Charged, Requests, Reservations, Tip, Longest
<1>3. ASSUME NEW w \in Writer, Writes(w)
      PROVE  Charged \subseteq Charged'
  BY <1>1, <1>3, WriteMaps DEF Charged, LedgerInv
<1> QED BY <1>1, <1>2, <1>3

(* A reservation that is granted charges a request that was not charged.   *)
LEMMA GrantedIsNew ==
  ASSUME LedgerInv, BudgetInv', NEW w \in Writer, proc[w].cmd = "reserve", Fill(w), Len(proc[w].next) # 1
  PROVE  proc[w].ask \in Charged' \ Charged
<1>1. Writes(w)
  BY FillLedger
<1>2. files # {}
  <2>1. Pending(proc[w])
    BY DEF Fill, LedgerInv
  <2>2. \A l \in Cap : Len(<<CapItem(l)>>) = 1
    BY CapIsVerified
  <2> QED BY <2>1, <2>2 DEF Pending
<1> QED BY <1>1, <1>2, WriteMaps DEF Charged

(* A step of one handler, which settles nothing but its own request. *)
LEMMA HandlerMoves ==
  ASSUME GatewayInv, LedgerInv', DiagnosticsInv', UNCHANGED Charged,
         NEW h \in Handler, NEW post \in Post, NEW call,
         handler' = [handler EXCEPT ![h] = post], proc' = [proc EXCEPT ![h] = call],
         Serving(post, call),
         Owner(post, call) => /\ Owner(handler[h], proc[h])
                              /\ post.request = handler[h].request
                              /\ Owned(post)',
         outcome' \in [Request -> {None, "completed", "failed_or_partial"}],
         sent' \in [Request -> Nat], answered' \in SUBSET Request,
         \A r \in Request :
           \/ /\ outcome'[r] = outcome[r] /\ sent'[r] = sent[r]
              /\ r \in answered' <=> r \in answered
           \/ /\ Owner(handler[h], proc[h]) /\ r = handler[h].request
              /\ outcome'[r] = "completed" => r \in answered'
              /\ outcome'[r] = "failed_or_partial" => r \notin answered'
              /\ sent'[r] <= 1
  PROVE  GatewayInv'
<1>1. /\ \A g \in Handler : handler'[g] = IF g = h THEN post ELSE handler[g]
      /\ \A g \in Handler : proc'[g] = IF g = h THEN call ELSE proc[g]
  BY GatewayAssumption DEF GatewayInv, GatewayTypes, LedgerInv, BudgetInv, BudgetTypes
<1>2. GatewayTypes'
  BY DEF GatewayInv, GatewayTypes
<1>3. \A g \in Handler : Owner(handler'[g], proc'[g]) =>
        Owner(handler[g], proc[g]) /\ handler'[g].request = handler[g].request
  BY <1>1
<1>4. OneOwner'
  <2>1. \A g, k \in Handler :
          Owner(handler'[g], proc'[g]) /\ Owner(handler'[k], proc'[k])
            /\ handler'[g].request = handler'[k].request => g = k
    BY <1>3 DEF GatewayInv, OneOwner
  <2> QED BY <2>1 DEF OneOwner, Owner
<1>5. ASSUME NEW g \in Handler PROVE Serving(handler[g], proc[g])'
  <2>1. CASE g = h
    BY <1>1, <2>1 DEF Serving
  <2>2. CASE g # h
    BY <1>1, <2>2 DEF Serving, GatewayInv
  <2> QED BY <2>1, <2>2
<1>6. ASSUME NEW g \in Handler, Owner(handler[g], proc[g])' PROVE Owned(handler[g])'
  <2>1. CASE g = h
    BY <1>1, <1>6, <2>1 DEF Owned, Owner
  <2>2. CASE g # h
    <3>1. Owner(handler[g], proc[g]) /\ Owned(handler[g]) /\ Serving(handler[g], proc[g])
      BY <1>1, <1>6, <2>2 DEF GatewayInv, Owner
    <3>2. handler[g].request \in Request
      BY <3>1 DEF Owner, Serving
    <3>3. ~(Owner(handler[h], proc[h]) /\ handler[g].request = handler[h].request)
      BY <2>2, <3>1 DEF GatewayInv, OneOwner
    <3>4. /\ outcome'[handler[g].request] = outcome[handler[g].request]
          /\ sent'[handler[g].request] = sent[handler[g].request]
          /\ handler[g].request \in answered' <=> handler[g].request \in answered
      BY <3>2, <3>3
    <3> QED BY <1>1, <2>2, <3>1, <3>4 DEF Owned
  <2> QED BY <2>1, <2>2
<1>7. OnRecord'
  <2>1. ASSUME NEW r \in Request
        PROVE  /\ outcome'[r] # None => r \in Charged'
               /\ outcome'[r] = "completed" => r \in answered'
               /\ outcome'[r] = "failed_or_partial" => r \notin answered'
               /\ sent'[r] > 0 => r \in Charged'
               /\ sent'[r] <= 1
               /\ r \in answered' => r \in Charged'
    <3>1. CASE /\ outcome'[r] = outcome[r] /\ sent'[r] = sent[r]
               /\ r \in answered' <=> r \in answered
      BY <3>1 DEF GatewayInv, OnRecord
    <3>2. CASE /\ Owner(handler[h], proc[h]) /\ r = handler[h].request
               /\ outcome'[r] = "completed" => r \in answered'
               /\ outcome'[r] = "failed_or_partial" => r \notin answered'
               /\ sent'[r] <= 1
      BY <3>2 DEF GatewayInv, Owned
    <3> QED BY <3>1, <3>2
  <2> QED BY <2>1 DEF OnRecord
<1> QED BY <1>2, <1>4, <1>5, <1>6, <1>7 DEF GatewayInv

(* The same, of a step that leaves the records and the ledger alone. *)
LEMMA HandlerTurns ==
  ASSUME GatewayInv, LedgerInv', DiagnosticsInv',
         NEW h \in Handler, NEW post \in Post, NEW call, UNCHANGED <<files, outcome, sent, answered>>,
         handler' = [handler EXCEPT ![h] = post], proc' = [proc EXCEPT ![h] = call],
         Serving(post, call),
         Owner(post, call) => /\ Owner(handler[h], proc[h])
                              /\ post.request = handler[h].request
                              /\ post.completed = handler[h].completed
                              /\ post.at = "reserve" => handler[h].at = "reserve"
  PROVE  GatewayInv'
<1>1. UNCHANGED Charged
  BY DEF Charged, Requests, Reservations, Tip, Longest
<1>2. Owner(post, call) => Owned(post)'
  <2> SUFFICES ASSUME Owner(post, call) PROVE Owned(post)'
    OBVIOUS
  <2>1. Owned(handler[h])
    BY DEF GatewayInv
  <2> QED BY <1>1, <2>1 DEF Owned
<1> QED BY <1>1, <1>2, HandlerMoves DEF GatewayInv, GatewayTypes

(* An idle handler has no request. *)
LEMMA NoPostFits ==
  ASSUME NEW call, call.at = "idle", call.result # "ok"
  PROVE  NoPost \in Post /\ Serving(NoPost, call) /\ ~Owner(NoPost, call)
<1>1. NoPost \in Post /\ NoPost.at = "idle" /\ NoPost.completed = FALSE
  BY DEF NoPost, Post
<1> QED BY <1>1 DEF Serving, Owner

(* A handler that does not reserve has its call of the ledger at rest. *)
LEMMA IdleCalls ==
  ASSUME GatewayInv, NEW h \in Handler
  PROVE  /\ proc = [proc EXCEPT ![h] = proc[h]] /\ proc[h] \in Call /\ handler[h] \in Post
         /\ handler[h].at # "reserve" => proc[h].at = "idle" /\ proc[h].result # "ok"
         /\ Serving(handler[h], proc[h])
         /\ Rest.at = "idle" /\ Rest.result # "ok"
         /\ Writer = Handler /\ queued \in Nat
<1>1. proc \in [Handler -> Call] /\ Writer = Handler /\ handler \in [Handler -> Post]
  BY GatewayAssumption DEF GatewayInv, GatewayTypes, LedgerInv, BudgetInv, BudgetTypes
<1>2. Serving(handler[h], proc[h])
  BY DEF GatewayInv
<1>3. Rest.at = "idle" /\ Rest.result # "ok"
  BY DEF Rest
<1>4. queued \in Nat
  BY DEF GatewayInv, DiagnosticsInv
<1> QED BY <1>1, <1>2, <1>3, <1>4 DEF Serving

(* A failure is queued, and the handler waits; a granted reservation stays *)
(* the handler's own.                                                      *)
LEMMA FailingKeeps ==
  ASSUME GatewayInv, LedgerInv', DiagnosticsInv', NEW h \in Handler, NEW call,
         NEW reserved \in BOOLEAN, Failing(h, reserved),
         UNCHANGED <<files, outcome, sent, answered>>, proc' = [proc EXCEPT ![h] = call],
         call.at = "idle", call.result # "ok",
         handler[h].completed = FALSE,
         reserved = TRUE => Owner(handler[h], proc[h])
  PROVE  GatewayInv'
<1>1. PICK post : post = [[handler[h] EXCEPT !.at = "diagnose", !.reserved = reserved]
                          EXCEPT !.behind = queued']
  OBVIOUS
<1>2. handler[h] \in Post /\ queued' \in Nat
  BY IdleCalls DEF DiagnosticsInv
<1>3. /\ post \in Post /\ post.at = "diagnose" /\ post.reserved = reserved
      /\ post.request = handler[h].request /\ post.completed = FALSE
  BY <1>1, <1>2 DEF Post
<1>4. handler' = [handler EXCEPT ![h] = post]
  BY <1>1 DEF Failing, Enqueue
<1>5. reserved = TRUE => handler[h].request \in Request
  BY DEF GatewayInv, Serving, Owner
<1>6. Serving(post, call)
  BY <1>3, <1>5 DEF Serving
<1>7. Owner(post, call) => reserved = TRUE
  BY <1>3 DEF Owner
<1> QED BY <1>3, <1>4, <1>6, <1>7, HandlerTurns

(* A request that arrives is not charged yet. *)
LEMMA ArriveKeeps ==
  ASSUME GatewayInv, LedgerInv', DiagnosticsInv', NEW h \in Handler, NEW r \in Request, Arrive(h, r)
  PROVE  GatewayInv'
<1>1. /\ handler[h].at = "idle" /\ handler[h].completed = FALSE
      /\ proc[h].at = "idle" /\ proc[h].result # "ok" /\ proc' = [proc EXCEPT ![h] = proc[h]]
      /\ UNCHANGED <<files, outcome, sent, answered>>
  BY IdleCalls DEF Arrive, budgetVars, diskVars, Serving
<1>2. CASE Failing(h, FALSE)
  BY <1>1, <1>2, FailingKeeps
<1>3. CASE handler' = [handler EXCEPT ![h] = [NoPost EXCEPT !.at = "body", !.request = r]]
  <2>1. PICK post : post = [NoPost EXCEPT !.at = "body", !.request = r]
    OBVIOUS
  <2>2. post \in Post /\ post.at = "body" /\ post.request = r /\ post.completed = FALSE
    BY <2>1 DEF NoPost, Post
  <2>3. Serving(post, proc[h]) /\ ~Owner(post, proc[h])
    BY <1>1, <2>2 DEF Serving, Owner
  <2> QED BY <1>1, <1>3, <2>1, <2>2, <2>3, HandlerTurns
<1> QED BY <1>2, <1>3 DEF Arrive

(* A client may leave at any time. *)
LEMMA AbortKeeps ==
  ASSUME GatewayInv, LedgerInv', DiagnosticsInv', NEW h \in Handler, Abort(h)
  PROVE  GatewayInv'
<1>1. PICK post : post = [handler[h] EXCEPT !.aborted = TRUE]
  OBVIOUS
<1>2. /\ handler[h] \in Post /\ Serving(handler[h], proc[h])
      /\ proc' = [proc EXCEPT ![h] = proc[h]]
      /\ UNCHANGED <<files, outcome, sent, answered>>
  BY IdleCalls DEF Abort, budgetVars, diskVars, pastVars
<1>3. /\ post \in Post /\ post.at = handler[h].at /\ post.request = handler[h].request
      /\ post.completed = handler[h].completed /\ post.reserved = handler[h].reserved
  BY <1>1, <1>2 DEF Post
<1>4. handler' = [handler EXCEPT ![h] = post]
  BY <1>1, <1>2 DEF Abort, Post, GatewayInv, GatewayTypes
<1>5. Serving(post, proc[h]) /\ (Owner(post, proc[h]) => Owner(handler[h], proc[h]))
  BY <1>2, <1>3 DEF Serving, Owner
<1> QED BY <1>2, <1>3, <1>4, <1>5, HandlerTurns

(* A request that is admitted goes to the ledger. *)
LEMMA AdmitKeeps ==
  ASSUME GatewayInv, LedgerInv', DiagnosticsInv', NEW h \in Handler, Admit(h)
  PROVE  GatewayInv'
<1>1. /\ handler[h].at = "body" /\ handler[h].completed = FALSE /\ handler[h] \in Post
      /\ handler[h].request \in Request
      /\ proc[h].at = "idle" /\ proc[h].result # "ok" /\ proc = [proc EXCEPT ![h] = proc[h]]
      /\ UNCHANGED <<outcome, sent, answered>>
  BY IdleCalls DEF Admit, diskVars, pastVars, Serving
<1>2. CASE Failing(h, FALSE) /\ UNCHANGED budgetVars
  BY <1>1, <1>2, FailingKeeps DEF budgetVars
<1>3. CASE Begin(h, "reserve", handler[h].request, PolicyCap) /\ Step(h, "reserve")
  <2>1. PICK call : call = [Rest EXCEPT !.cmd = "reserve", !.ask = handler[h].request,
                                        !.limit = PolicyCap, !.at = "lock"]
    OBVIOUS
  <2>2. PICK post : post = [handler[h] EXCEPT !.at = "reserve"]
    OBVIOUS
  <2>3. /\ call.cmd = "reserve" /\ call.ask = handler[h].request /\ call.at = "lock"
        /\ call.result = "none"
    BY <2>1 DEF Rest
  <2>4. /\ post \in Post /\ post.at = "reserve" /\ post.request = handler[h].request
        /\ post.completed = FALSE
    BY <1>1, <2>2 DEF Post
  <2>5. /\ handler' = [handler EXCEPT ![h] = post] /\ proc' = [proc EXCEPT ![h] = call]
        /\ UNCHANGED files
    BY <1>1, <1>3, <2>1, <2>2 DEF Step, Begin, OnDisk, Post, GatewayInv, GatewayTypes
  <2>6. Serving(post, call) /\ ~Owner(post, call)
    BY <1>1, <2>3, <2>4 DEF Serving, Owner, Asking
  <2> QED BY <1>1, <2>4, <2>5, <2>6, HandlerTurns
<1> QED BY <1>2, <1>3 DEF Admit

(* A request the ledger refuses is not sent. *)
LEMMA RefuseKeeps ==
  ASSUME GatewayInv, LedgerInv', DiagnosticsInv', NEW h \in Handler, Refuse(h)
  PROVE  GatewayInv'
<1>1. /\ handler[h].at = "reserve" /\ handler[h].completed = FALSE
      /\ Failing(h, proc[h].result = "ok") /\ proc' = [proc EXCEPT ![h] = Rest]
      /\ UNCHANGED <<files, outcome, sent, answered>>
      /\ Rest.at = "idle" /\ Rest.result # "ok"
  BY IdleCalls DEF Refuse, Leave, OnDisk, diskVars, pastVars, Serving
<1>2. PICK reserved \in BOOLEAN : reserved = (proc[h].result = "ok")
  OBVIOUS
<1>3. Failing(h, reserved)
  BY <1>1, <1>2
<1>4. reserved = TRUE => Owner(handler[h], proc[h])
  BY <1>1, <1>2 DEF Owner
<1> QED BY <1>1, <1>3, <1>4, FailingKeeps

(* A request is sent after it was charged, by the handler that charged it. *)
LEMMA SendKeeps ==
  ASSUME GatewayInv, LedgerInv', DiagnosticsInv', NEW h \in Handler, Send(h)
  PROVE  GatewayInv'
<1> DEFINE r == handler[h].request
<1>1. /\ handler[h].at = "reserve" /\ proc[h].result = "ok" /\ handler[h] \in Post
      /\ Serving(handler[h], proc[h]) /\ Owner(handler[h], proc[h]) /\ Owned(handler[h])
      /\ proc' = [proc EXCEPT ![h] = Rest] /\ Rest.at = "idle" /\ Rest.result # "ok"
      /\ UNCHANGED <<files, outcome, answered>> /\ sent' = [sent EXCEPT ![r] = @ + 1]
      /\ outcome \in [Request -> {None, "completed", "failed_or_partial"}]
      /\ sent \in [Request -> Nat] /\ answered \in SUBSET Request
  BY IdleCalls DEF Send, Leave, OnDisk, diskVars, GatewayInv, GatewayTypes, Owner
<1>2. PICK post : post = [handler[h] EXCEPT !.at = "upstream", !.reserved = TRUE]
  OBVIOUS
<1>3. /\ post \in Post /\ post.at = "upstream" /\ post.request = r
      /\ post.completed = FALSE /\ handler[h].completed = FALSE /\ r \in Request
  BY <1>1, <1>2 DEF Post, Serving
<1>4. handler' = [handler EXCEPT ![h] = post]
  BY <1>1, <1>2 DEF Send, Post, GatewayInv, GatewayTypes
<1>5. UNCHANGED Charged
  BY <1>1 DEF Charged, Requests, Reservations, Tip, Longest
<1>6. sent' \in [Request -> Nat] /\ sent'[r] = 1 /\ \A q \in Request : q # r => sent'[q] = sent[q]
  <2>1. sent[r] = 0
    BY <1>1 DEF Owned
  <2> QED BY <1>1, <1>3, <2>1
<1>7. Owned(post)'
  BY <1>1, <1>3, <1>5 DEF Owned
<1>8. Serving(post, Rest)
  BY <1>1, <1>3 DEF Serving
<1>9. outcome[r] = None
  BY <1>1 DEF Owned
<1>10. ASSUME NEW q \in Request
       PROVE  \/ /\ outcome'[q] = outcome[q] /\ sent'[q] = sent[q]
                 /\ q \in answered' <=> q \in answered
              \/ /\ Owner(handler[h], proc[h]) /\ q = handler[h].request
                 /\ outcome'[q] = "completed" => q \in answered'
                 /\ outcome'[q] = "failed_or_partial" => q \notin answered'
                 /\ sent'[q] <= 1
  <2>1. CASE q = r
    <3>1. outcome'[q] # "completed" /\ outcome'[q] # "failed_or_partial" /\ sent'[q] <= 1
      BY <1>1, <1>6, <1>9, <2>1, OutcomeAssumption
    <3> QED BY <1>1, <2>1, <3>1
  <2>2. CASE q # r
    BY <1>1, <1>6, <2>2
  <2> QED BY <2>1, <2>2
<1>11. Owner(post, Rest) => Owned(post)' /\ post.request = handler[h].request
  BY <1>3, <1>7
<1>12. outcome' \in [Request -> {None, "completed", "failed_or_partial"}] /\ answered' \in SUBSET Request
  BY <1>1
<1> QED BY <1>1, <1>3, <1>4, <1>5, <1>6, <1>8, <1>10, <1>11, <1>12, HandlerMoves

(* An answer that is written out ends its request as completed. *)
LEMMA CompleteKeeps ==
  ASSUME GatewayInv, LedgerInv', DiagnosticsInv', NEW h \in Handler, Complete(h)
  PROVE  GatewayInv'
<1> DEFINE r == handler[h].request
<1>1. /\ handler[h].at = "upstream" /\ handler[h] \in Post
      /\ Serving(handler[h], proc[h]) /\ Owner(handler[h], proc[h]) /\ Owned(handler[h])
      /\ proc' = [proc EXCEPT ![h] = proc[h]] /\ proc[h].at = "idle" /\ proc[h].result # "ok"
      /\ UNCHANGED <<files, outcome, sent>> /\ answered' = answered \cup {r}
      /\ outcome \in [Request -> {None, "completed", "failed_or_partial"}]
      /\ sent \in [Request -> Nat] /\ answered \in SUBSET Request
  BY IdleCalls DEF Complete, budgetVars, diskVars, GatewayInv, GatewayTypes, Owner
<1>2. PICK post : post = [handler[h] EXCEPT !.at = "persist", !.completed = TRUE]
  OBVIOUS
<1>3. /\ post \in Post /\ post.at = "persist" /\ post.request = r
      /\ post.completed = TRUE /\ r \in Request
  BY <1>1, <1>2 DEF Post, Serving
<1>4. handler' = [handler EXCEPT ![h] = post]
  BY <1>1, <1>2 DEF Complete, Post, GatewayInv, GatewayTypes
<1>5. UNCHANGED Charged
  BY <1>1 DEF Charged, Requests, Reservations, Tip, Longest
<1>6. Owned(post)'
  BY <1>1, <1>3, <1>5 DEF Owned
<1>7. Serving(post, proc[h])
  BY <1>1, <1>3 DEF Serving
<1>8. outcome[r] = None /\ sent[r] <= 1
  BY <1>1, <1>3 DEF Owned, GatewayInv, OnRecord
<1> QED BY <1>1, <1>3, <1>4, <1>5, <1>6, <1>7, <1>8, OutcomeAssumption, HandlerMoves

(* An answer that breaks off ends its request as failed. *)
LEMMA BreakKeeps ==
  ASSUME GatewayInv, LedgerInv', DiagnosticsInv', NEW h \in Handler, Break(h) \/ Cancel(h)
  PROVE  GatewayInv'
<1>1. /\ handler[h].at = "upstream" /\ handler[h].completed = FALSE /\ Failing(h, TRUE)
      /\ proc[h].at = "idle" /\ proc[h].result # "ok" /\ proc' = [proc EXCEPT ![h] = proc[h]]
      /\ UNCHANGED <<files, outcome, sent, answered>>
  BY IdleCalls DEF Break, Cancel, budgetVars, diskVars, pastVars, Serving
<1>2. Owner(handler[h], proc[h])
  BY <1>1 DEF Owner
<1> QED BY <1>1, <1>2, FailingKeeps

(* A handler ends after its outcome was recorded or given up. *)
LEMMA EndsKeep ==
  ASSUME GatewayInv, LedgerInv', DiagnosticsInv', NEW h \in Handler, Diagnosed(h) \/ Concluded(h)
  PROVE  GatewayInv'
<1>1. /\ handler[h].at \in {"diagnose", "conclude"} /\ handler[h] \in Post
      /\ Serving(handler[h], proc[h])
      /\ proc[h].at = "idle" /\ proc[h].result # "ok" /\ proc' = [proc EXCEPT ![h] = proc[h]]
      /\ UNCHANGED <<files, outcome, sent, answered>>
  BY IdleCalls DEF Diagnosed, Concluded, budgetVars, diskVars, pastVars
<1>2. CASE handler' = [handler EXCEPT ![h] = NoPost]
  BY <1>1, <1>2, NoPostFits, HandlerTurns
<1>3. CASE Diagnosed(h) /\ handler[h].reserved /\ Step(h, "persist")
  <2>1. PICK post : post = [handler[h] EXCEPT !.at = "persist"]
    OBVIOUS
  <2>2. handler[h].at = "diagnose" /\ handler[h].reserved = TRUE /\ Owner(handler[h], proc[h])
    BY <1>1, <1>3 DEF Diagnosed, Owner, Post
  <2>3. /\ post \in Post /\ post.at = "persist" /\ post.request = handler[h].request
        /\ post.completed = handler[h].completed /\ post.request \in Request
    BY <1>1, <2>1, <2>2 DEF Post, Serving
  <2>4. handler' = [handler EXCEPT ![h] = post]
    BY <1>1, <1>3, <2>1 DEF Step, Post, GatewayInv, GatewayTypes
  <2>5. Serving(post, proc[h])
    BY <1>1, <2>3 DEF Serving
  <2> QED BY <1>1, <2>2, <2>3, <2>4, <2>5, HandlerTurns
<1> QED BY <1>2, <1>3 DEF Diagnosed, Concluded

(* An outcome file is written once, with what became of the request. *)
LEMMA PersistKeeps ==
  ASSUME GatewayInv, LedgerInv', DiagnosticsInv', NEW h \in Handler, Persist(h)
  PROVE  GatewayInv'
<1> DEFINE r == handler[h].request
           said == IF handler[h].completed = TRUE THEN "completed" ELSE "failed_or_partial"
<1>1. /\ handler[h].at = "persist" /\ handler[h] \in Post
      /\ Serving(handler[h], proc[h]) /\ Owner(handler[h], proc[h]) /\ Owned(handler[h])
      /\ proc' = [proc EXCEPT ![h] = proc[h]] /\ proc[h].at = "idle" /\ proc[h].result # "ok"
      /\ UNCHANGED <<files, sent, answered>>
      /\ outcome \in [Request -> {None, "completed", "failed_or_partial"}]
      /\ sent \in [Request -> Nat] /\ answered \in SUBSET Request
      /\ r \in Request
  BY IdleCalls DEF Persist, budgetVars, pastVars, GatewayInv, GatewayTypes, Owner, Serving
<1>2. outcome' \in {outcome, [outcome EXCEPT ![r] = said]}
  <2>1. Recorded(h) = [outcome EXCEPT ![r] = said]
    <3>1. outcome[r] = None /\ handler[h].completed \in BOOLEAN
      BY <1>1 DEF Owned, Post
    <3> QED BY <1>1, <3>1 DEF Recorded
  <2> QED BY <2>1 DEF Persist
<1>3. outcome' \in [Request -> {None, "completed", "failed_or_partial"}]
  BY <1>1, <1>2
<1>4. ASSUME NEW q \in Request
      PROVE  \/ /\ outcome'[q] = outcome[q] /\ sent'[q] = sent[q]
                /\ q \in answered' <=> q \in answered
             \/ /\ Owner(handler[h], proc[h]) /\ q = handler[h].request
                /\ outcome'[q] = "completed" => q \in answered'
                /\ outcome'[q] = "failed_or_partial" => q \notin answered'
                /\ sent'[q] <= 1
  <2>1. CASE outcome' = outcome \/ q # r
    BY <1>1, <1>2, <2>1
  <2>2. CASE outcome' = [outcome EXCEPT ![r] = said] /\ q = r
    <3>1. outcome'[q] = said /\ sent[q] <= 1
      BY <1>1, <2>2 DEF GatewayInv, OnRecord
    <3>2. q \in answered <=> handler[h].completed = TRUE
      BY <1>1, <2>2 DEF Owned
    <3> QED BY <1>1, <2>2, <3>1, <3>2
  <2> QED BY <1>2, <2>1, <2>2
<1>5. UNCHANGED Charged
  BY <1>1 DEF Charged, Requests, Reservations, Tip, Longest
<1>6. \E post \in Post : /\ handler' = [handler EXCEPT ![h] = post]
                         /\ Serving(post, proc[h]) /\ ~Owner(post, proc[h])
  <2>1. CASE handler' = [handler EXCEPT ![h] = NoPost]
    BY <1>1, <2>1, NoPostFits
  <2>2. CASE Enqueue(h, [handler[h] EXCEPT !.at = "conclude"])
    <3>1. PICK post : post = [[handler[h] EXCEPT !.at = "conclude"] EXCEPT !.behind = queued']
      OBVIOUS
    <3>2. post \in Post /\ post.at = "conclude"
      BY <1>1, <3>1 DEF Post, DiagnosticsInv
    <3>3. Serving(post, proc[h]) /\ ~Owner(post, proc[h])
      BY <1>1, <3>2 DEF Serving, Owner
    <3> QED BY <2>2, <3>1, <3>2, <3>3 DEF Enqueue
  <2> QED BY <2>1, <2>2 DEF Persist
<1>7. PICK post \in Post : /\ handler' = [handler EXCEPT ![h] = post]
                           /\ Serving(post, proc[h]) /\ ~Owner(post, proc[h])
  BY <1>6
<1> QED BY <1>1, <1>3, <1>4, <1>5, <1>7, HandlerMoves

(* A step under which every handler keeps its place. *)
LEMMA PlacesKept ==
  ASSUME GatewayInv, LedgerInv', DiagnosticsInv', UNCHANGED <<files, proc, outcome, sent, answered>>,
         handler' \in [Handler -> Post],
         \A h \in Handler : /\ handler'[h].at = handler[h].at
                            /\ handler'[h].request = handler[h].request
                            /\ handler'[h].completed = handler[h].completed
                            /\ handler'[h].reserved = handler[h].reserved
  PROVE  GatewayInv'
<1>1. UNCHANGED Charged
  BY DEF Charged, Requests, Reservations, Tip, Longest
<1>2. GatewayTypes'
  BY DEF GatewayInv, GatewayTypes
<1>3. ASSUME NEW h \in Handler
      PROVE  /\ Serving(handler[h], proc[h])'
             /\ Owner(handler[h], proc[h])' = Owner(handler[h], proc[h])
             /\ Owned(handler[h])' = Owned(handler[h])
  <2>1. Serving(handler[h], proc[h])
    BY DEF GatewayInv
  <2> QED BY <1>1, <2>1 DEF Serving, Owner, Owned
<1>4. OneOwner'
  BY <1>3 DEF GatewayInv, OneOwner
<1>5. OnRecord'
  BY <1>1 DEF GatewayInv, OnRecord
<1> QED BY <1>2, <1>3, <1>4, <1>5 DEF GatewayInv

(* Waiting diagnostics take a slot that came free. *)
LEMMA DrainKeeps ==
  ASSUME GatewayInv, LedgerInv', DiagnosticsInv', Drain
  PROVE  GatewayInv'
<1>1. /\ handler \in [Handler -> Post]
      /\ handler' = [h \in Handler |-> [handler[h] EXCEPT !.behind = IF @ > 0 THEN @ - 1 ELSE 0]]
      /\ UNCHANGED <<files, proc, outcome, sent, answered>>
  BY DEF Drain, budgetVars, pastVars, GatewayInv, GatewayTypes
<1>2. ASSUME NEW h \in Handler
      PROVE  /\ handler'[h] \in Post
             /\ handler'[h].at = handler[h].at
             /\ handler'[h].request = handler[h].request
             /\ handler'[h].completed = handler[h].completed
             /\ handler'[h].reserved = handler[h].reserved
  <2>1. PICK n : n = IF handler[h].behind > 0 THEN handler[h].behind - 1 ELSE 0
    OBVIOUS
  <2>2. handler'[h] = [handler[h] EXCEPT !.behind = n]
    BY <1>1, <2>1
  <2>3. n \in Nat
    BY <1>1, <2>1 DEF Post
  <2> QED BY <1>1, <2>2, <2>3 DEF Post
<1>3. handler' \in [Handler -> Post]
  BY <1>1, <1>2
<1> QED BY <1>1, <1>2, <1>3, PlacesKept

(* A restart forgets the handlers and nothing that is on the disk. *)
LEMMA GatewayCrashKeeps ==
  ASSUME GatewayInv, LedgerInv', DiagnosticsInv', Crash
  PROVE  GatewayInv'
<1>1. /\ handler' = [h \in Handler |-> NoPost] /\ UNCHANGED <<files, outcome, sent, answered>>
      /\ proc' = [w \in Writer |-> Rest] /\ Writer = Handler
      /\ Rest.at = "idle" /\ Rest.result # "ok"
  BY GatewayAssumption DEF Crash, Die, diskVars, Rest
<1>2. UNCHANGED Charged
  BY <1>1 DEF Charged, Requests, Reservations, Tip, Longest
<1>3. NoPost \in Post /\ Serving(NoPost, Rest) /\ ~Owner(NoPost, Rest)
  BY <1>1, NoPostFits
<1>4. GatewayTypes'
  BY <1>1, <1>3 DEF GatewayInv, GatewayTypes
<1>5. ASSUME NEW h \in Handler PROVE handler'[h] = NoPost /\ proc'[h] = Rest
  BY <1>1
<1>6. ASSUME NEW h \in Handler PROVE Serving(handler[h], proc[h])' /\ ~Owner(handler[h], proc[h])'
  BY <1>3, <1>5 DEF Serving, Owner
<1>7. OneOwner'
  BY <1>6 DEF OneOwner
<1>8. OnRecord'
  BY <1>1, <1>2 DEF GatewayInv, OnRecord
<1> QED BY <1>4, <1>6, <1>7, <1>8 DEF GatewayInv

(* The ledger moves a reservation on, and may grant it. *)
LEMMA GatewayLedgerKeeps ==
  ASSUME GatewayInv, LedgerInv', DiagnosticsInv', NEW w \in Writer, LedgerStep(w) \/ LedgerFails(w)
  PROVE  GatewayInv'
<1>1. /\ Writer = Handler /\ UNCHANGED <<handler, outcome, sent, answered>>
      /\ Proceed(w) \/ IOFails(w)
      /\ handler \in [Handler -> Post] /\ Serving(handler[w], proc[w])
  BY GatewayAssumption
  DEF LedgerStep, LedgerFails, Elsewhere, diskVars, pastVars, GatewayInv, GatewayTypes
<1>2. Charged \subseteq Charged'
  BY <1>1, ChargesStay DEF GatewayInv, BudgetNext
<1>3. handler[w].at = "reserve"
  <2>1. proc[w].at # "idle"
    BY <1>1
    DEF Proceed, IOFails, Look, List, Read, LookAgain, Verify, TakeLock, MakeDirectory,
        MakeRecords, Decide, Create, Fill, Unlock, Entry, Holding
  <2> QED BY <1>1, <2>1 DEF Serving
<1>4. /\ proc[w].cmd = "reserve" /\ proc[w].at \in Asking \cup {"unlock", "done"}
      /\ proc[w].result = "ok" => proc[w].at \in {"unlock", "done"}
      /\ proc[w].at \in Asking => proc[w].ask = handler[w].request
      /\ handler[w].request \in Request /\ handler[w].completed = FALSE
  BY <1>1, <1>3 DEF Serving
<1>5. PICK call : /\ proc' = [proc EXCEPT ![w] = call]
                  /\ call.cmd = "reserve" /\ call.at \in Asking \cup {"unlock", "done"}
                  /\ call.at \in Asking => call.ask = proc[w].ask /\ proc[w].at \in Asking
                  /\ call.result = "ok" =>
                       /\ call.at \in {"unlock", "done"}
                       /\ proc[w].result = "ok" \/ (proc[w].at = "fill" /\ Len(proc[w].next) # 1)
  BY <1>1, <1>4, ReservationMoves DEF GatewayInv
<1>6. \A v \in Handler : proc'[v] = IF v = w THEN call ELSE proc[v]
  BY <1>1, <1>5 DEF GatewayInv, LedgerInv, BudgetInv, BudgetTypes
<1>7. Serving(handler[w], call)
  BY <1>1, <1>3, <1>4, <1>5 DEF Serving
<1>8. ASSUME call.result = "ok", proc[w].result # "ok"
      PROVE  handler[w].request \in Charged' \ Charged
  <2>1. proc[w].at = "fill" /\ Len(proc[w].next) # 1
    BY <1>5, <1>8
  <2>2. Fill(w)
    <3>1. CASE Proceed(w)
      BY <2>1, <3>1
      DEF Proceed, Look, List, Read, LookAgain, Verify, TakeLock, MakeDirectory, MakeRecords,
          Decide, Create, Unlock
    <3>2. CASE IOFails(w)
      <4>1. Return(w, "corrupt") \/ GiveUp(w, "corrupt")
        BY <3>2 DEF IOFails
      <4>2. \E step : proc' = [proc EXCEPT ![w] = [Rest EXCEPT !.cmd = proc[w].cmd, !.at = step,
                                                               !.result = "corrupt"]]
        BY <4>1 DEF Return, GiveUp
      <4>3. PICK step : proc' = [proc EXCEPT ![w] = [Rest EXCEPT !.cmd = proc[w].cmd, !.at = step,
                                                                 !.result = "corrupt"]]
        BY <4>2
      <4>4. proc'[w] = [Rest EXCEPT !.cmd = proc[w].cmd, !.at = step, !.result = "corrupt"]
        BY <1>1, <4>3 DEF GatewayInv, LedgerInv, BudgetInv, BudgetTypes
      <4>5. proc'[w].result = "corrupt"
        BY <4>4 DEF Rest
      <4> QED BY <1>1, <1>6, <1>8, <4>5
    <3> QED BY <1>1, <3>1, <3>2
  <2>3. proc[w].ask = handler[w].request
    BY <1>4, <2>1 DEF Asking
  <2> QED BY <1>4, <2>1, <2>2, <2>3, GrantedIsNew DEF GatewayInv, LedgerInv
<1>9. ASSUME NEW h \in Handler
      PROVE  /\ Serving(handler[h], proc[h])'
             /\ Owner(handler[h], proc[h])' =>
                  \/ Owner(handler[h], proc[h])
                  \/ h = w /\ handler[w].request \in Charged' \ Charged
             /\ Owner(handler[h], proc[h])' => Owned(handler[h])'
  <2>1. CASE h # w
    <3>1. proc'[h] = proc[h] /\ handler'[h] = handler[h]
      BY <1>1, <1>6, <2>1
    <3>2. Serving(handler[h], proc[h]) /\ (Owner(handler[h], proc[h]) => Owned(handler[h]))
      BY DEF GatewayInv
    <3> QED BY <1>1, <1>2, <3>1, <3>2 DEF Serving, Owner, Owned
  <2>2. CASE h = w
    <3>1. proc'[h] = call /\ handler'[h] = handler[h]
      BY <1>1, <1>6, <2>2
    <3>2. Serving(handler[h], proc[h])'
      BY <1>7, <2>2, <3>1 DEF Serving
    <3>3. Owner(handler[h], proc[h])' <=> call.result = "ok"
      BY <1>3, <2>2, <3>1 DEF Owner
    <3>4. CASE proc[w].result = "ok"
      <4>1. Owner(handler[h], proc[h]) /\ Owned(handler[h])
        BY <1>3, <2>2, <3>4 DEF Owner, GatewayInv
      <4> QED BY <1>1, <1>2, <3>1, <3>2, <4>1 DEF Owned
    <3>5. CASE proc[w].result # "ok" /\ call.result = "ok"
      <4>1. handler[w].request \in Charged' \ Charged
        BY <1>8, <3>5
      <4>2. /\ outcome[handler[w].request] = None /\ handler[w].request \notin answered
            /\ ~(sent[handler[w].request] > 0) /\ sent[handler[w].request] \in Nat
        BY <1>4, <4>1 DEF GatewayInv, OnRecord, GatewayTypes
      <4>3. Owned(handler[h])'
        BY <1>1, <1>4, <2>2, <3>1, <4>1, <4>2 DEF Owned
      <4> QED BY <2>2, <3>2, <4>1, <4>3
    <3> QED BY <3>2, <3>3, <3>4, <3>5
  <2> QED BY <2>1, <2>2
<1>10. GatewayTypes'
  BY <1>1 DEF GatewayInv, GatewayTypes
<1>11. OneOwner'
  <2>1. ASSUME NEW h \in Handler, NEW g \in Handler,
               Owner(handler[h], proc[h])', Owner(handler[g], proc[g])',
               handler[h].request = handler[g].request
        PROVE  h = g
    <3>1. \A k \in Handler : Owner(handler[k], proc[k]) => handler[k].request \in Charged
      BY DEF GatewayInv, Owned
    <3> QED BY <1>9, <2>1, <3>1 DEF GatewayInv, OneOwner
  <2> QED BY <1>1, <2>1 DEF OneOwner
<1>12. OnRecord'
  BY <1>1, <1>2 DEF GatewayInv, OnRecord
<1> QED BY <1>9, <1>10, <1>11, <1>12 DEF GatewayInv

(* A step of the gateway is a step of the ledger, or none. *)
LEMMA GatewayUsesLedger ==
  ASSUME GatewayInv, [Next]_vars
  PROVE  [BudgetNext]_budgetVars
<1>1. Writer = Handler /\ PolicyCap \in Cap
  BY GatewayAssumption
<1>2. ASSUME NEW h \in Handler, Admit(h)
      PROVE  [BudgetNext]_budgetVars
  <2>1. CASE Begin(h, "reserve", handler[h].request, PolicyCap)
    <3>1. handler[h].request \in Request
      BY <1>2 DEF Admit, GatewayInv, Serving
    <3> QED BY <1>1, <2>1, <3>1 DEF BudgetNext
  <2> QED BY <1>2, <2>1 DEF Admit
<1>3. ASSUME NEW h \in Handler, Send(h) \/ Refuse(h)
      PROVE  [BudgetNext]_budgetVars
  BY <1>1, <1>3 DEF Send, Refuse, BudgetNext
<1>4. ASSUME NEW w \in Writer, LedgerStep(w) \/ LedgerFails(w)
      PROVE  [BudgetNext]_budgetVars
  BY <1>4 DEF LedgerStep, LedgerFails, BudgetNext
<1>5. CASE Crash
  <2>1. Handler \in SUBSET Writer /\ Die(Handler)
    BY <1>1, <1>5 DEF Crash
  <2> QED BY <2>1 DEF BudgetNext
<1> QED BY <1>2, <1>3, <1>4, <1>5
  DEF Next, Handle, Arrive, Abort, Complete, Break, Cancel, Diagnosed, Persist, Concluded, Drain, vars

(* Nothing was sent at first. *)
LEMMA GatewayInitially == Init => GatewayInv
<1> SUFFICES ASSUME Init PROVE GatewayInv
  OBVIOUS
<1>1. LedgerInv
  BY AccountsInitially DEF Init
<1>2. DiagnosticsInv
  <2>1. /\ queued = 0 /\ dropped = 0 /\ failures = 0 /\ slots = 0
        /\ lossy = FALSE /\ marker = FALSE /\ Slots \in Nat
    BY GatewayAssumption DEF Init
  <2>2. lossy \in BOOLEAN /\ marker \in BOOLEAN
    BY <2>1
  <2>3. /\ slots \in 0..Slots /\ queued \in Nat /\ dropped \in Nat /\ failures \in Nat
        /\ slots + queued + dropped = failures /\ ~(dropped > 0)
    BY <2>1
  <2> QED BY <2>2, <2>3 DEF DiagnosticsInv
<1>3. Rest.at = "idle" /\ Rest.result # "ok"
  BY DEF Rest
<1>4. /\ handler = [h \in Handler |-> NoPost] /\ proc = [h \in Handler |-> Rest]
      /\ outcome = [r \in Request |-> None] /\ sent = [r \in Request |-> 0] /\ answered = {}
  BY GatewayAssumption DEF Init, BudgetInit
<1>5. ASSUME NEW h \in Handler
      PROVE  handler[h] \in Post /\ Serving(handler[h], proc[h]) /\ ~Owner(handler[h], proc[h])
  BY <1>3, <1>4, NoPostFits
<1>6. GatewayTypes
  <2>1. handler \in [Handler -> Post]
    BY <1>4, <1>5
  <2> QED BY <1>4, <2>1 DEF GatewayTypes
<1>7. OnRecord
  BY <1>4, OutcomeAssumption DEF OnRecord
<1>8. OneOwner
  BY <1>5 DEF OneOwner
<1> QED BY <1>1, <1>2, <1>5, <1>6, <1>7, <1>8 DEF GatewayInv

(* Every step keeps the invariant of the gateway. *)
LEMMA GatewayStep ==
  ASSUME GatewayInv, [Next]_vars
  PROVE  GatewayInv'
<1>1. LedgerInv'
  BY GatewayUsesLedger, AccountsStep DEF GatewayInv
<1>2. DiagnosticsInv'
  BY DiagnosticsStep DEF GatewayInv
<1>3. CASE UNCHANGED vars
  <2>1. /\ UNCHANGED <<files, proc, outcome, sent, answered, handler>>
    BY <1>3 DEF vars, budgetVars, diskVars, pastVars
  <2>2. handler' \in [Handler -> Post]
    BY <2>1 DEF GatewayInv, GatewayTypes
  <2> QED BY <1>1, <1>2, <2>1, <2>2, PlacesKept
<1>4. ASSUME NEW h \in Handler, Handle(h)
      PROVE  GatewayInv'
  BY <1>1, <1>2, <1>4, AdmitKeeps, SendKeeps, RefuseKeeps, CompleteKeeps, BreakKeeps,
     EndsKeep, PersistKeeps DEF Handle
<1> QED BY <1>1, <1>2, <1>3, <1>4, ArriveKeeps, AbortKeeps, DrainKeeps, GatewayCrashKeeps,
           GatewayLedgerKeeps DEF Next

(* An outcome file never contradicts what the client got, nor speaks of a  *)
(* request the ledger has not charged, whatever aborts and fails.          *)
THEOREM OutcomesAreTrue == Spec => []OutcomeIsTrue
<1>1. GatewayInv => OutcomeIsTrue
  BY DEF GatewayInv, OnRecord, OutcomeIsTrue, Charged
<1> QED BY <1>1, GatewayInitially, GatewayStep, PTL DEF Spec

-------------------------------------------------------------------------------
(* The gateway as a SpendCap.                                              *)

(* Only reservations write: the cap is never raised from here. *)
LEMMA GatewayReserves ==
  ASSUME GatewayInv, NEW w \in Writer, Writes(w)
  PROVE  proc[w].cmd = "reserve"
<1>1. w \in Handler /\ Serving(handler[w], proc[w])
  BY GatewayAssumption DEF GatewayInv
<1> QED BY <1>1 DEF Serving, Writes

(* Who sends writes nothing, and sends what was charged and not yet sent.  *)
LEMMA SendIsNew ==
  ASSUME GatewayInv, NEW h \in Handler, Send(h)
  PROVE  /\ handler[h].request \in Charged \cap Request
         /\ handler[h].request \notin {r \in Request : sent[r] > 0}
         /\ {r \in Request : sent[r] > 0}' = {r \in Request : sent[r] > 0} \cup {handler[h].request}
         /\ UNCHANGED files
<1>1. /\ handler[h].at = "reserve" /\ proc[h].result = "ok"
      /\ Owned(handler[h]) /\ handler[h].request \in Request
      /\ sent' = [sent EXCEPT ![handler[h].request] = @ + 1] /\ sent \in [Request -> Nat]
      /\ UNCHANGED files
  BY DEF Send, Leave, OnDisk, GatewayInv, GatewayTypes, Owner, Serving
<1>2. sent[handler[h].request] = 0 /\ handler[h].request \in Charged
  BY <1>1 DEF Owned
<1>3. /\ sent'[handler[h].request] = 1
      /\ \A r \in Request : r # handler[h].request => sent'[r] = sent[r]
  BY <1>1, <1>2
<1>4. ASSUME NEW r \in Request
      PROVE  sent'[r] > 0 <=> sent[r] > 0 \/ r = handler[h].request
  BY <1>2, <1>3
<1>5. {r \in Request : sent[r] > 0}' = {r \in Request : sent[r] > 0} \cup {handler[h].request}
  BY <1>1, <1>4
<1> QED BY <1>1, <1>2, <1>5

(* Both instances of SpendCap add alike. *)
LEMMA PromiseSum == \A R : Promise!Sum(R) = Accounts!Sum(R)
BY DEF Promise!Sum, Accounts!Sum, Promise!MapThenSumSet, Accounts!MapThenSumSet,
       Promise!MapThenFoldSet, Accounts!MapThenFoldSet

(* A request leaves for the provider once, charged before and within the   *)
(* cap: the gateway implements SpendCap.                                   *)
THEOREM GatewayImplementsSpendCap == Spec => SpendCapSpec
<1> DEFINE out == {r \in Request : sent[r] > 0}
<1>1. Init => Promise!Init
  <2> SUFFICES ASSUME Init PROVE Promise!Init
    OBVIOUS
  <2>1. Tip = <<>> /\ DOMAIN <<>> = {} /\ files = {} /\ sent = [r \in Request |-> 0]
    BY DEF Init, BudgetInit, Tip
  <2>2. out = {}
    BY <2>1
  <2>3. Requests(Tip) = {}
    BY <2>1 DEF Requests, Reservations
  <2> QED BY <2>1, <2>2, <2>3 DEF Promise!Init
<1>2. ASSUME GatewayInv, [Next]_vars
      PROVE  [Promise!Next]_(Promise!vars)
  <2>1. LedgerInv /\ LedgerInv' /\ (\/ UNCHANGED files
                                    \/ \E w \in Writer : Writes(w))
    BY <1>2, GatewayUsesLedger, AccountsStep DEF GatewayInv
  <2>2. UNCHANGED sent \/ \E h \in Handler : Send(h)
    BY <1>2 DEF Next, Handle, Arrive, Abort, Admit, Refuse, Complete, Break, Cancel, Diagnosed,
                Persist, Concluded, Drain, Crash, LedgerStep, LedgerFails, Elsewhere, vars, pastVars
  <2>3. ASSUME UNCHANGED files
        PROVE  UNCHANGED <<LimitNow, Requests(Tip)>>
    BY <2>3 DEF LimitNow, Limit, Requests, Reservations, Tip, Longest
  <2>4. ASSUME NEW h \in Handler, Send(h)
        PROVE  Promise!Next
    <3>1. PICK r \in Request : r = handler[h].request
      BY <1>2, <2>4, SendIsNew
    <3>2. r \in Charged /\ r \notin out /\ out' = out \cup {r} /\ UNCHANGED files
      BY <1>2, <2>4, <3>1, SendIsNew
    <3>3. UNCHANGED <<LimitNow, Requests(Tip)>>
      BY <2>3, <3>2
    <3>4. Promise!Send(r)
      BY <3>2, <3>3 DEF Promise!Send, LimitNow, Charged
    <3> QED BY <3>4 DEF Promise!Next
  <2>5. CASE UNCHANGED <<sent, files>>
    <3>1. UNCHANGED <<LimitNow, Requests(Tip)>> /\ UNCHANGED out
      BY <2>3, <2>5
    <3> QED BY <3>1 DEF Promise!vars, LimitNow
  <2>6. ASSUME NEW w \in Writer, Writes(w), UNCHANGED sent
        PROVE  Promise!Next
    <3>1. UNCHANGED out /\ proc[w].cmd = "reserve" /\ BudgetInv'
      BY <1>2, <2>1, <2>6, GatewayReserves DEF LedgerInv
    <3>2. CASE /\ files = {} /\ proc[w].limit \in Cap /\ LimitNow' = proc[w].limit
               /\ UNCHANGED Requests(Tip)
      <4>1. Promise!Open(proc[w].limit)
        BY <3>1, <3>2 DEF Promise!Open, LimitNow
      <4> QED BY <3>2, <4>1 DEF Promise!Next
    <3>3. CASE /\ files # {} /\ proc[w].ask \in Request
               /\ proc[w].ask \notin Requests(Tip)
               /\ Accounts!Sum(Requests(Tip)) + Cost[proc[w].ask] <= LimitNow
               /\ Requests(Tip)' = Requests(Tip) \cup {proc[w].ask}
               /\ UNCHANGED LimitNow
      <4>1. Promise!Charge(proc[w].ask)
        BY <3>1, <3>3, PromiseSum DEF Promise!Charge, LimitNow
      <4> QED BY <3>3, <4>1 DEF Promise!Next
    <3> QED BY <2>1, <2>6, <3>1, <3>2, <3>3, WriteMaps
  <2> QED BY <2>1, <2>2, <2>4, <2>5, <2>6
<1>3. GatewayInv /\ [Next]_vars => GatewayInv'
  BY GatewayStep
<1>4. GatewayInv /\ GatewayInv' /\ [Next]_vars => [\A r \in Request : sent'[r] <= 1]_vars
  BY DEF GatewayInv, OnRecord
<1> QED BY <1>1, <1>2, <1>3, <1>4, GatewayInitially, PTL DEF Spec, SpendCapSpec, Promise!Spec
===============================================================================
