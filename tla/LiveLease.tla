------------------------------- MODULE LiveLease -------------------------------
(***************************************************************************)
(* The campaign lease of src/src/live/loop.ts: withLease, which every      *)
(* command that changes a campaign runs under, and recoverLive, which      *)
(* removes the lease of a dead owner.  A lease is a file that is created   *)
(* exclusively and filled with its owner's pid afterwards; it is removed   *)
(* by name, whatever file bears that name by then.                         *)
(***************************************************************************)
EXTENDS Naturals, FiniteSets

CONSTANTS Pid,           \* process ids of the machine; the system may reuse them
          Recoverer,     \* processes running dal live recover, at any time
          MaxOvertakes,  \* bound of the count of overtaken recoveries, which stops there
          None           \* no pid is written yet, or none was read

ASSUME PidAssumption == None \notin Pid /\ IsFiniteSet(Pid)
ASSUME OvertakesAssumption == MaxOvertakes \in Nat \ {0}

VARIABLES
  lease,  \* lease.json: [by, pid], the process that created it and its content
  proc,   \* proc[p]: the step of the command with pid p; "off" without a process
  rec,    \* rec[r]: the step of recoverer r, and the pid it has read
  \* History: they are read by the properties and by no step of the program.
  late,       \* the recoverers whose lease was removed after they had read it
  overtakes   \* how often such a recoverer removed the next lease in its place

vars == <<lease, proc, rec, late, overtakes>>
history == <<late, overtakes>>

NoLease == [by |-> None, pid |-> None]
AtRest == [at |-> "idle", pid |-> None]

LeaseTypeOK ==
  /\ lease \in [by : Pid \cup {None}, pid : Pid \cup {None}]
  /\ proc \in [Pid -> {"off", "open", "write", "work", "close"}]
  /\ rec \in [Recoverer -> [at : {"idle", "probe", "unlink"}, pid : Pid \cup {None}]]
  /\ late \subseteq Recoverer
  /\ overtakes \in 0..MaxOvertakes

Init ==
  /\ lease = NoLease
  /\ proc = [p \in Pid |-> "off"]
  /\ rec = [r \in Recoverer |-> AtRest]
  /\ late = {}
  /\ overtakes = 0

Advance(p, step) == proc' = [proc EXCEPT ![p] = step]

Recovering == {r \in Recoverer : rec[r].at # "idle"}

(* A command is started: a new process gets a pid that no process has. *)
Begin(p) ==
  /\ proc[p] = "off"
  /\ Advance(p, "open")
  /\ UNCHANGED <<lease, rec, history>>

(* Mutant: the file is opened without the exclusive flag. *)
OpenLeaseShared(p) ==
  /\ proc[p] = "open"
  /\ lease' = [by |-> p, pid |-> None]
  /\ Advance(p, "write")
  /\ UNCHANGED <<rec, history>>

(* open(path, "wx"): created, or LIVE_BUSY ends the command. *)
OpenLease(p) ==
  /\ proc[p] = "open"
  /\ \/ /\ lease = NoLease
        /\ lease' = [by |-> p, pid |-> None]
        /\ Advance(p, "write")
     \/ /\ lease # NoLease
        /\ Advance(p, "off")
        /\ UNCHANGED lease
  /\ UNCHANGED <<rec, history>>

(* The pid goes to the opened file, which may have lost its name since.    *)
WritePid(p) ==
  /\ proc[p] = "write"
  /\ lease' = IF lease.by = p THEN [lease EXCEPT !.pid = p] ELSE lease
  /\ Advance(p, "work")
  /\ UNCHANGED <<rec, history>>

(* The write or the sync fails: the finally block runs, the command does not. *)
WriteFails(p) ==
  /\ proc[p] = "write"
  /\ Advance(p, "close")
  /\ UNCHANGED <<lease, rec, history>>

Finish(p) ==
  /\ proc[p] = "work"
  /\ Advance(p, "close")
  /\ UNCHANGED <<lease, rec, history>>

(* finally: unlink(path), by name; the process ends, also if it finds none. *)
CloseLease(p) ==
  /\ proc[p] = "close"
  /\ lease' = NoLease
  /\ Advance(p, "off")
  /\ late' = Recovering
  /\ UNCHANGED <<rec, overtakes>>

Crash(p) ==
  /\ proc[p] # "off"
  /\ Advance(p, "off")
  /\ UNCHANGED <<lease, rec, history>>

-------------------------------------------------------------------------------
(* recoverLive: a lease without a pid does not parse, and is refused. *)
ReadLease(r) ==
  /\ rec[r].at = "idle" /\ lease.pid # None
  /\ rec' = [rec EXCEPT ![r] = [at |-> "probe", pid |-> lease.pid]]
  /\ late' = late \ {r}
  /\ UNCHANGED <<lease, proc, overtakes>>

(* Mutant: ESRCH is taken for a live owner. *)
ProbeTimid(r) ==
  /\ rec[r].at = "probe"
  /\ rec' = [rec EXCEPT ![r] = AtRest]
  /\ UNCHANGED <<lease, proc, history>>

(* process.kill(pid, 0): LIVE_OWNER_ALIVE, or ESRCH. *)
Probe(r) ==
  /\ rec[r].at = "probe"
  /\ rec' = [rec EXCEPT ![r] = IF proc[rec[r].pid] = "off"
                               THEN [@ EXCEPT !.at = "unlink"] ELSE AtRest]
  /\ UNCHANGED <<lease, proc, history>>

(* unlink(path): the lease that was read, or the one that has its name now. *)
UnlinkLease(r) ==
  /\ rec[r].at = "unlink"
  /\ lease' = NoLease
  /\ rec' = [rec EXCEPT ![r] = AtRest]
  /\ late' = Recovering
  /\ overtakes' = IF r \in late /\ lease # NoLease /\ overtakes < MaxOvertakes
                  THEN overtakes + 1 ELSE overtakes
  /\ UNCHANGED proc

Work(p) == \/ OpenLease(p) \/ WritePid(p) \/ WriteFails(p) \/ Finish(p) \/ CloseLease(p)

Recovery(r) == \/ ReadLease(r) \/ Probe(r) \/ UnlinkLease(r)

Next == \/ \E p \in Pid : Begin(p) \/ Work(p) \/ Crash(p)
        \/ \E r \in Recoverer : Recovery(r)

Spec == Init /\ [][Next]_vars

(* A live process runs on, and an operator does recover what LIVE_BUSY reports. *)
FairSpec == /\ Spec
            /\ \A p \in Pid : WF_vars(Work(p))
            /\ \A r \in Recoverer : WF_vars(Recovery(r))

-------------------------------------------------------------------------------
(* The commands between the creation of their lease and its removal. *)
Holders == {p \in Pid : proc[p] \in {"write", "work", "close"}}

(* No one removes the lease of a live owner but that owner itself, so the  *)
(* name is never free while somebody works under it.                       *)
HolderKeepsLease == \A p \in Holders : lease.by = p

(* "Concurrent supervisors cannot hold the same campaign lease": at most   *)
(* one process is inside the body of a command.  The code does not give    *)
(* this: a recoverer that was overtaken unlinks a lease it never read.     *)
MutualExclusion == \A p, q \in Pid : proc[p] = "work" /\ proc[q] = "work" => p = q

(* What the code gives, with any number of recoverers at any time: until   *)
(* a recovery is overtaken a lease stays with its owner, and every         *)
(* overtaken recovery lets in one more command at most, although each      *)
(* command that lost its lease removes, by name, that of another one.      *)
ExclusionBounded ==
  /\ overtakes = 0 => HolderKeepsLease
  /\ overtakes < MaxOvertakes => Cardinality(Holders) <= 1 + overtakes

(* A lease is given up once the pid it records belongs to no process any   *)
(* more: recovery gets through, whatever else is started meanwhile.        *)
LeaseComesFree == \A p \in Pid : <>[](proc[p] = "off") => []<>(lease.pid # p)
===============================================================================
