---------------------------- MODULE LiveLease_proofs ----------------------------
(***************************************************************************)
(* What the campaign lease gives, for any set of processes and of          *)
(* recoverers, crashes at any step, reused pids and recoveries at any      *)
(* time, the overtaken ones that unlink somebody else's lease included.    *)
(***************************************************************************)
EXTENDS LiveLease, FiniteSetTheorems, TLAPS

(* A lease belongs to the process it records. *)
LeaseIsOwned == /\ lease.by = None => lease.pid = None
                /\ lease.pid # None => lease.pid = lease.by

(* What a recoverer has read is the lease still, unless it is late, and    *)
(* once it has probed, a process that reuses the pid can have got no       *)
(* further than its open.                                                  *)
RecoversDeadLease ==
  \A r \in Recovering :
    /\ rec[r].pid \in Pid
    /\ r \notin late => lease.pid = rec[r].pid
    /\ r \notin late /\ rec[r].at = "unlink" => proc[rec[r].pid] \in {"off", "open"}

(* The holders whose lease was removed under them. *)
Displaced == {p \in Holders : lease.by # p}

DisplacedAreCounted == overtakes < MaxOvertakes => Cardinality(Displaced) <= overtakes

LeaseInv == LeaseTypeOK /\ LeaseIsOwned /\ RecoversDeadLease /\ DisplacedAreCounted

-------------------------------------------------------------------------------
(* A set that gains one member at most. *)
LEMMA OneMore == ASSUME NEW S, NEW T, NEW x, IsFiniteSet(S), T \subseteq S \cup {x}
                 PROVE  Cardinality(T) <= Cardinality(S) + 1
<1>1. IsFiniteSet(S \cup {x}) /\ Cardinality(S \cup {x}) <= Cardinality(S) + 1
      /\ Cardinality(S) \in Nat /\ Cardinality(S \cup {x}) \in Nat
  BY FS_AddElement, FS_CardinalityType
<1>2. Cardinality(T) <= Cardinality(S \cup {x}) /\ Cardinality(T) \in Nat
  BY <1>1, FS_Subset, FS_CardinalityType
<1> QED BY <1>1, <1>2

(* A set that loses a member and gains one at most. *)
LEMMA OneForOne == ASSUME NEW S, NEW T, NEW x, NEW y, IsFiniteSet(S), y \in S,
                          T \subseteq (S \ {y}) \cup {x}
                   PROVE  Cardinality(T) <= Cardinality(S)
<1>1. IsFiniteSet(S \ {y}) /\ Cardinality(S \ {y}) = Cardinality(S) - 1
      /\ Cardinality(S) \in Nat
  BY FS_RemoveElement, FS_CardinalityType
<1>2. Cardinality(T) <= Cardinality(S \ {y}) + 1
  BY <1>1, OneMore
<1>3. IsFiniteSet((S \ {y}) \cup {x})
  BY <1>1, FS_AddElement
<1>4. Cardinality(T) \in Nat
  BY <1>3, FS_Subset, FS_CardinalityType
<1> QED BY <1>1, <1>2, <1>4

(* The processes of a machine are finitely many. *)
LEMMA FewHolders == /\ IsFiniteSet(Holders) /\ IsFiniteSet(Displaced)
                    /\ Cardinality(Displaced) \in Nat
<1>1. Holders \subseteq Pid /\ Displaced \subseteq Pid
  BY DEF Holders, Displaced
<1> QED BY <1>1, PidAssumption, FS_Subset, FS_CardinalityType

(* A step that displaces nobody new keeps the count. *)
LEMMA CountKept == ASSUME LeaseTypeOK, DisplacedAreCounted, Displaced' \subseteq Displaced,
                          overtakes' = overtakes
                   PROVE  DisplacedAreCounted'
<1>1. Cardinality(Displaced') <= Cardinality(Displaced) /\ Cardinality(Displaced') \in Nat
  BY FewHolders, FS_Subset, FS_CardinalityType
<1> QED
  BY <1>1, FewHolders, OvertakesAssumption DEF DisplacedAreCounted, LeaseTypeOK

-------------------------------------------------------------------------------
(* Nobody holds a lease at first. *)
LEMMA LeaseInitially == Init => LeaseInv
<1> SUFFICES ASSUME Init PROVE LeaseInv
  OBVIOUS
<1>1. LeaseTypeOK /\ LeaseIsOwned /\ RecoversDeadLease
  BY PidAssumption, OvertakesAssumption
  DEF Init, LeaseTypeOK, LeaseIsOwned, RecoversDeadLease, Recovering, NoLease, AtRest
<1>2. Displaced = {}
  BY DEF Init, Displaced, Holders
<1>3. DisplacedAreCounted
  BY <1>2, FS_EmptySet DEF Init, DisplacedAreCounted
<1> QED BY <1>1, <1>3 DEF LeaseInv

(* Everything but the count of the displaced holders. *)
Placed == LeaseTypeOK /\ LeaseIsOwned /\ RecoversDeadLease

(* A command creates its lease where there is none. *)
LEMMA OpenKeeps == ASSUME LeaseInv, NEW p \in Pid, OpenLease(p) PROVE LeaseInv'
<1>0. Placed /\ DisplacedAreCounted /\ LeaseTypeOK /\ proc[p] = "open"
      /\ UNCHANGED <<rec, late, overtakes>>
  BY DEF LeaseInv, Placed, OpenLease, history
<1>1. CASE lease = NoLease
  <2>1. lease' = [by |-> p, pid |-> None] /\ proc' = [proc EXCEPT ![p] = "write"]
    BY <1>1 DEF OpenLease, Advance
  <2>2. \A r \in Recovering : r \in late
    BY <1>0, <1>1, PidAssumption DEF Placed, RecoversDeadLease, NoLease
  <2>3. Recovering' = Recovering
    BY <1>0 DEF Recovering
  <2>4. Placed'
    BY <1>0, <2>1, <2>2, <2>3
    DEF Placed, LeaseTypeOK, LeaseIsOwned, RecoversDeadLease
  <2>5. Displaced' \subseteq Displaced
    BY <1>0, <1>1, <2>1, PidAssumption DEF Displaced, Holders, NoLease, LeaseTypeOK
  <2> QED BY <1>0, <2>4, <2>5, CountKept DEF Placed, LeaseInv
<1>2. CASE lease # NoLease
  <2>1. lease' = lease /\ proc' = [proc EXCEPT ![p] = "off"]
    BY <1>2 DEF OpenLease, Advance
  <2>2. Placed'
    BY <1>0, <2>1 DEF Placed, LeaseTypeOK, LeaseIsOwned, RecoversDeadLease, Recovering
  <2>3. Displaced' \subseteq Displaced
    BY <1>0, <2>1 DEF Displaced, Holders, LeaseTypeOK
  <2> QED BY <1>0, <2>2, <2>3, CountKept DEF Placed, LeaseInv
<1> QED BY <1>1, <1>2

(* The pid reaches the lease of its process only. *)
LEMMA WritePidKeeps == ASSUME LeaseInv, NEW p \in Pid, WritePid(p) PROVE LeaseInv'
<1>0. /\ Placed /\ DisplacedAreCounted /\ LeaseTypeOK /\ proc[p] = "write"
      /\ lease' = IF lease.by = p THEN [lease EXCEPT !.pid = p] ELSE lease
      /\ proc' = [proc EXCEPT ![p] = "work"] /\ UNCHANGED <<rec, late, overtakes>>
  BY DEF LeaseInv, Placed, WritePid, Advance, history
<1>1. lease'.by = lease.by /\ (lease.pid # None => lease' = lease)
  BY <1>0 DEF Placed, LeaseTypeOK, LeaseIsOwned
<1>2. LeaseTypeOK' /\ LeaseIsOwned'
  BY <1>0, PidAssumption DEF Placed, LeaseTypeOK, LeaseIsOwned
<1>3. RecoversDeadLease'
  <2> SUFFICES ASSUME NEW r \in Recovering
               PROVE  /\ rec[r].pid \in Pid
                      /\ r \notin late => lease'.pid = rec[r].pid
                      /\ r \notin late /\ rec[r].at = "unlink"
                           => proc'[rec[r].pid] \in {"off", "open"}
    BY <1>0 DEF RecoversDeadLease, Recovering
  <2>1. rec[r].pid \in Pid /\ rec[r].pid # None
    BY <1>0, PidAssumption DEF Placed, RecoversDeadLease
  <2>2. ASSUME r \notin late PROVE lease'.pid = rec[r].pid
    BY <1>0, <1>1, <2>1, <2>2 DEF Placed, RecoversDeadLease
  <2>3. ASSUME r \notin late, rec[r].at = "unlink" PROVE proc'[rec[r].pid] \in {"off", "open"}
    BY <1>0, <2>1, <2>3 DEF Placed, RecoversDeadLease, LeaseTypeOK
  <2> QED BY <2>1, <2>2, <2>3
<1>4. Displaced' \subseteq Displaced
  BY <1>0, <1>1 DEF Displaced, Holders, LeaseTypeOK
<1> QED BY <1>0, <1>2, <1>3, <1>4, CountKept DEF LeaseInv

(* A command that ends removes its own lease, or that of one other command *)
(* for its own loss.                                                       *)
LEMMA CloseKeeps == ASSUME LeaseInv, NEW p \in Pid, CloseLease(p) PROVE LeaseInv'
<1>0. /\ Placed /\ DisplacedAreCounted /\ LeaseTypeOK /\ proc[p] = "close" /\ lease' = NoLease
      /\ proc' = [proc EXCEPT ![p] = "off"] /\ late' = Recovering /\ UNCHANGED <<rec, overtakes>>
  BY DEF LeaseInv, Placed, CloseLease, Advance
<1>1. Placed'
  <2>1. LeaseTypeOK' /\ LeaseIsOwned'
    BY <1>0 DEF Placed, LeaseTypeOK, LeaseIsOwned, NoLease, Recovering
  <2>2. Recovering' = Recovering
    BY <1>0 DEF Recovering
  <2>3. RecoversDeadLease'
    BY <1>0, <2>2 DEF Placed, RecoversDeadLease
  <2> QED BY <2>1, <2>3 DEF Placed
<1>2. CASE lease.by = p
  <2>1. Displaced' \subseteq Displaced
    BY <1>0, <1>2 DEF Displaced, Holders, LeaseTypeOK
  <2> QED BY <1>0, <1>1, <2>1, CountKept DEF Placed, LeaseInv
<1>3. CASE lease.by # p
  <2>1. p \in Displaced
    BY <1>0, <1>3 DEF Displaced, Holders
  <2>2. Displaced' \subseteq (Displaced \ {p}) \cup {lease.by}
    BY <1>0 DEF Displaced, Holders, LeaseTypeOK
  <2>3. Cardinality(Displaced') <= Cardinality(Displaced)
    BY <2>1, <2>2, FewHolders, OneForOne
  <2>4. IsFiniteSet(Displaced') /\ Cardinality(Displaced') \in Nat
    <3>1. IsFiniteSet(Displaced \cup {lease.by})
      BY FewHolders, FS_AddElement
    <3>2. Displaced' \subseteq Displaced \cup {lease.by}
      BY <2>2
    <3> QED BY <3>1, <3>2, FS_Subset, FS_CardinalityType
  <2>5. DisplacedAreCounted'
    BY <1>0, <2>3, <2>4, FewHolders, OvertakesAssumption DEF DisplacedAreCounted, LeaseTypeOK
  <2> QED BY <1>1, <2>5 DEF Placed, LeaseInv
<1> QED BY <1>2, <1>3

(* The other steps of a command touch no lease. *)
LEMMA CommandsKeepLease == ASSUME LeaseInv, NEW p \in Pid, Begin(p) \/ Work(p) \/ Crash(p)
                           PROVE  LeaseInv'
<1>0. Placed /\ DisplacedAreCounted /\ LeaseTypeOK
  BY DEF LeaseInv, Placed
<1>1. CASE Begin(p) \/ WriteFails(p) \/ Finish(p) \/ Crash(p)
  <2>1. /\ UNCHANGED <<lease, rec, late, overtakes>>
        /\ \/ proc[p] = "off" /\ proc' = [proc EXCEPT ![p] = "open"]
           \/ proc[p] \in {"write", "work"} /\ proc' = [proc EXCEPT ![p] = "close"]
           \/ proc' = [proc EXCEPT ![p] = "off"]
    BY <1>1 DEF Begin, WriteFails, Finish, Crash, Advance, history
  <2>2. LeaseTypeOK' /\ LeaseIsOwned' /\ Recovering' = Recovering
    BY <1>0, <2>1 DEF Placed, LeaseTypeOK, LeaseIsOwned, Recovering
  <2>3. RecoversDeadLease'
    BY <1>0, <2>1, <2>2 DEF Placed, LeaseTypeOK, RecoversDeadLease
  <2>4. Displaced' \subseteq Displaced
    BY <1>0, <2>1 DEF Displaced, Holders, LeaseTypeOK
  <2> QED BY <1>0, <2>1, <2>2, <2>3, <2>4, CountKept DEF LeaseInv
<1> QED BY <1>1, OpenKeeps, WritePidKeeps, CloseKeeps DEF Work

-------------------------------------------------------------------------------
(* A recoverer notes the lease it finds, and that its owner is gone. *)
LEMMA ReadingKeepsLease == ASSUME LeaseInv, NEW r \in Recoverer, ReadLease(r) \/ Probe(r)
                           PROVE  LeaseInv'
<1>0. Placed /\ DisplacedAreCounted /\ LeaseTypeOK
  BY DEF LeaseInv, Placed
<1>1. UNCHANGED <<lease, proc, overtakes>>
  BY DEF ReadLease, Probe, history
<1>2. Displaced' \subseteq Displaced
  BY <1>1 DEF Displaced, Holders
<1>3. LeaseIsOwned'
  BY <1>0, <1>1 DEF Placed, LeaseIsOwned
<1>4. CASE ReadLease(r)
  <2>1. /\ rec' = [rec EXCEPT ![r] = [at |-> "probe", pid |-> lease.pid]]
        /\ late' = late \ {r} /\ lease.pid \in Pid
    BY <1>0, <1>4 DEF ReadLease, LeaseTypeOK
  <2>2. LeaseTypeOK' /\ RecoversDeadLease'
    BY <1>0, <1>1, <2>1 DEF Placed, LeaseTypeOK, RecoversDeadLease, Recovering
  <2> QED BY <1>0, <1>1, <1>2, <1>3, <2>2, CountKept DEF LeaseInv
<1>5. CASE Probe(r)
  <2>1. /\ rec[r].at = "probe" /\ late' = late
        /\ rec' = [rec EXCEPT ![r] = IF proc[rec[r].pid] = "off"
                                     THEN [@ EXCEPT !.at = "unlink"] ELSE AtRest]
    BY <1>5 DEF Probe, history
  <2>2. \/ rec' = [rec EXCEPT ![r] = AtRest]
        \/ /\ proc[rec[r].pid] = "off"
           /\ rec' = [rec EXCEPT ![r] = [at |-> "unlink", pid |-> rec[r].pid]]
    <3>1. rec[r] \in [at : {"idle", "probe", "unlink"}, pid : Pid \cup {None}]
      BY <1>0 DEF LeaseTypeOK
    <3>2. [rec[r] EXCEPT !.at = "unlink"] = [at |-> "unlink", pid |-> rec[r].pid]
      BY <3>1
    <3>3. CASE proc[rec[r].pid] = "off"
      BY <2>1, <3>2, <3>3
    <3>4. CASE proc[rec[r].pid] # "off"
      BY <2>1, <3>4
    <3> QED BY <3>3, <3>4
  <2>3. r \in Recovering
    BY <2>1 DEF Recovering
  <2>4. LeaseTypeOK'
    BY <1>0, <1>1, <2>1, <2>2 DEF LeaseTypeOK, AtRest
  <2>5. RecoversDeadLease'
    BY <1>0, <1>1, <2>1, <2>2, <2>3
    DEF Placed, LeaseTypeOK, RecoversDeadLease, Recovering, AtRest
  <2> QED BY <1>0, <1>1, <1>2, <1>3, <2>4, <2>5, CountKept DEF LeaseInv
<1> QED BY <1>4, <1>5

(* A recovery removes the lease of a process that is gone, or is counted. *)
LEMMA UnlinkKeepsLease == ASSUME LeaseInv, NEW r \in Recoverer, UnlinkLease(r) PROVE LeaseInv'
<1>0. /\ Placed /\ DisplacedAreCounted /\ LeaseTypeOK /\ rec[r].at = "unlink" /\ lease' = NoLease
      /\ rec' = [rec EXCEPT ![r] = AtRest] /\ late' = Recovering /\ proc' = proc
      /\ overtakes' = IF r \in late /\ lease # NoLease /\ overtakes < MaxOvertakes
                      THEN overtakes + 1 ELSE overtakes
  BY DEF LeaseInv, Placed, UnlinkLease
<1>1. Placed'
  <2>1. LeaseTypeOK' /\ LeaseIsOwned'
    BY <1>0, OvertakesAssumption
    DEF Placed, LeaseTypeOK, LeaseIsOwned, NoLease, AtRest, Recovering
  <2>2. \A s \in Recovering' : s # r /\ s \in Recovering /\ rec'[s] = rec[s] /\ s \in late'
    BY <1>0 DEF Recovering, AtRest, LeaseTypeOK
  <2>3. RecoversDeadLease'
    BY <1>0, <2>2 DEF Placed, RecoversDeadLease
  <2> QED BY <2>1, <2>3 DEF Placed
<1>2. Displaced' \subseteq Holders /\ Holders \subseteq Displaced \cup {lease.by}
  BY <1>0 DEF Displaced, Holders
<1>3. CASE r \in late /\ lease # NoLease
  <2>1. Cardinality(Displaced') <= Cardinality(Displaced) + 1
    BY <1>2, FewHolders, OneMore
  <2>2. Cardinality(Displaced') \in Nat
    BY <1>2, FewHolders, FS_Subset, FS_CardinalityType
  <2>3. DisplacedAreCounted'
    BY <1>0, <1>3, <2>1, <2>2, FewHolders, OvertakesAssumption
    DEF DisplacedAreCounted, LeaseTypeOK
  <2> QED BY <1>1, <2>3 DEF Placed, LeaseInv
<1>4. CASE ~(r \in late /\ lease # NoLease)
  <2>1. lease.by \notin Holders
    <3>1. CASE r \notin late
      <4>1. lease.pid = rec[r].pid /\ rec[r].pid \in Pid
            /\ proc[rec[r].pid] \in {"off", "open"}
        BY <1>0, <3>1 DEF Placed, RecoversDeadLease, Recovering
      <4>2. lease.by = rec[r].pid
        BY <1>0, <4>1, PidAssumption DEF Placed, LeaseIsOwned
      <4> QED BY <4>1, <4>2 DEF Holders
    <3>2. CASE lease = NoLease
      BY <3>2, PidAssumption DEF NoLease, Holders
    <3> QED BY <1>4, <3>1, <3>2
  <2>2. Displaced' \subseteq Displaced
    BY <1>2, <2>1
  <2>3. overtakes' = overtakes
    BY <1>0, <1>4
  <2> QED BY <1>0, <1>1, <2>2, <2>3, CountKept DEF Placed, LeaseInv
<1> QED BY <1>3, <1>4

(* The invariant of the lease. *)
LEMMA LeaseInductive == Spec => []LeaseInv
<1>1. LeaseInv /\ [Next]_vars => LeaseInv'
  <2> SUFFICES ASSUME LeaseInv, [Next]_vars PROVE LeaseInv'
    OBVIOUS
  <2>1. CASE \E p \in Pid : Begin(p) \/ Work(p) \/ Crash(p)
    BY <2>1, CommandsKeepLease
  <2>2. CASE \E r \in Recoverer : Recovery(r)
    BY <2>2, ReadingKeepsLease, UnlinkKeepsLease DEF Recovery
  <2>3. CASE UNCHANGED vars
    BY <2>3 DEF vars, LeaseInv, LeaseTypeOK, LeaseIsOwned, RecoversDeadLease, Recovering,
                DisplacedAreCounted, Displaced, Holders
  <2> QED BY <2>1, <2>2, <2>3 DEF Next
<1> QED BY <1>1, LeaseInitially, PTL DEF Spec

(* The lease variables stay in their types. *)
THEOREM LeaseTypes == Spec => []LeaseTypeOK
BY LeaseInductive, PTL DEF LeaseInv

(* No holder is displaced before a recovery is overtaken, and never more   *)
(* of them than there were overtaken recoveries.                           *)
LEMMA CountBounds == LeaseInv => ExclusionBounded
<1> SUFFICES ASSUME LeaseInv PROVE ExclusionBounded
  OBVIOUS
<1>1. ASSUME overtakes = 0 PROVE HolderKeepsLease
  <2>1. Cardinality(Displaced) = 0
    BY <1>1, FewHolders, OvertakesAssumption DEF LeaseInv, DisplacedAreCounted
  <2>2. Displaced = {}
    BY <2>1, FewHolders, FS_EmptySet
  <2> QED BY <2>2 DEF Displaced, HolderKeepsLease
<1>2. ASSUME overtakes < MaxOvertakes PROVE Cardinality(Holders) <= 1 + overtakes
  <2>1. Holders \subseteq Displaced \cup {lease.by}
    BY DEF Displaced, Holders
  <2>2. Cardinality(Holders) <= Cardinality(Displaced) + 1
    BY <2>1, FewHolders, OneMore
  <2>3. Cardinality(Displaced) <= overtakes /\ overtakes \in Nat
    BY <1>2, OvertakesAssumption DEF LeaseInv, DisplacedAreCounted, LeaseTypeOK
  <2>4. Cardinality(Holders) \in Nat
    BY FewHolders, FS_CardinalityType
  <2> QED BY <2>2, <2>3, <2>4, FewHolders
<1> QED BY <1>1, <1>2 DEF ExclusionBounded

(* With any number of recoverers at any time, every command that works     *)
(* beside another one has been let in by an overtaken recovery of its own. *)
THEOREM LeaseExcludes == Spec => []ExclusionBounded
BY LeaseInductive, CountBounds, PTL

(* Until a recovery is overtaken, two commands never work on one campaign  *)
(* at once, whoever crashes and whichever pids are used again.             *)
THEOREM LeaseIsKept == Spec => [](overtakes = 0 => MutualExclusion)
<1>1. ExclusionBounded => (overtakes = 0 => MutualExclusion)
  BY DEF ExclusionBounded, HolderKeepsLease, MutualExclusion, Holders
<1> QED BY <1>1, LeaseExcludes, PTL
===============================================================================
