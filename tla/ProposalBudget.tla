---------------------------- MODULE ProposalBudget ----------------------------
(***************************************************************************)
(* The spend ledger of src/src/proposal-budget.ts: one directory per       *)
(* budget and provider, holding cap.json and a hash chain of reservations  *)
(* and cap extensions.  A writer holds the lock directory while it reads   *)
(* and appends; a reader tests for the lock before and after.  Nobody      *)
(* removes a lock but its owner, and no record is ever rewritten.          *)
(*                                                                         *)
(* A record names the digest of its predecessor, and that one of its own:  *)
(* here a record is the sequence of everything its digest commits to, with *)
(* cap.json as the sequence of length one.                                 *)
(***************************************************************************)
EXTENDS Naturals, Sequences, FiniteSetsExt

CONSTANTS
  Writer,   \* concurrent calls, of one or of several processes
  Request,  \* digests of canonical requests
  Cost,     \* Cost[r]: reservation_microusd of request r
  Cap,      \* provider_limit_microusd a policy, or an extension, may state
  MaxApprovals,  \* bound of the model: extensions that are ever approved
  None

ASSUME CapAssumption == Cap \subseteq Nat \ {0}
ASSUME CostAssumption == Cost \in [Request -> Nat \ {0}]
ASSUME NoneAssumption == None \notin Request

VARIABLES
  locked,   \* <provider>.lock exists
  dir,      \* "none", "bare": the directory, "ready": and its reservations/
  files,    \* the completely written records
  torn,     \* the records that exist under their name, not yet with their content
  proc,     \* proc[w]: the call of writer w
  valid,    \* extension approvals that verify now
  granted,  \* history: extension approvals that ever verified
  orphaned  \* history: the owner of the lock died, or could not remove it

budgetVars == <<locked, dir, files, torn, proc, valid, granted, orphaned>>

CapItem(l) == [kind |-> "cap", value |-> l, request |-> None]
Reservation(r) == [kind |-> "reservation", value |-> Cost[r], request |-> r]
Extension(l) == [kind |-> "cap_extension", value |-> l, request |-> None]

Reservations(c) == {i \in DOMAIN c : c[i].kind = "reservation"}
Requests(c) == {c[i].request : i \in Reservations(c)}
Total(c) == MapThenSumSet(LAMBDA i : c[i].value, Reservations(c))
Limit(c) == c[Max(DOMAIN c \ Reservations(c))].value

(* readChain: what it demands of every record, given those before it. *)
Follows(c, item) ==
  \/ /\ item.kind = "reservation"
     /\ ~(item.value > Limit(c) - Total(c))
     /\ item.request \notin Requests(c)
  \/ item.kind = "cap_extension" /\ ~(item.value <= Limit(c))
Verified(c) == \A i \in 2..Len(c) : Follows(SubSeq(c, 1, i - 1), c[i])

(* ... and of the names it finds: one record per sequence number, each     *)
(* naming the one before it, all of them complete.                         *)
Linked(names) ==
  \A f \in names : /\ Len(f) > 1 => SubSeq(f, 1, Len(f) - 1) \in names
                   /\ \A g \in names : Len(f) = Len(g) => f = g
Longest(names) == CHOOSE f \in names : \A g \in names : Len(g) <= Len(f)

(* Mutant: the name of a record, which has its digest, is taken for it. *)
ReadChainByName(names) ==
  IF names # {} /\ Linked(names) /\ Verified(Longest(names)) THEN Longest(names) ELSE <<>>

(* readChain: the chain, or nothing where it reports corruption. *)
ReadChain(names) ==
  IF names # {} /\ names \subseteq files /\ Linked(names) /\ Verified(Longest(names))
  THEN Longest(names) ELSE <<>>

Tip == IF files = {} THEN <<>> ELSE Longest(files)

-------------------------------------------------------------------------------
Rest == [cmd |-> "none", at |-> "idle", ask |-> None, limit |-> 0, names |-> {},
         view |-> <<>>, since |-> <<>>, next |-> <<>>, result |-> "none"]

BudgetInit ==
  /\ locked = FALSE /\ dir = "none" /\ files = {} /\ torn = {}
  /\ proc = [w \in Writer |-> Rest]
  /\ valid = {} /\ granted = {} /\ orphaned = FALSE

Goto(w, step) == proc' = [proc EXCEPT ![w].at = step]
Return(w, result) ==
  proc' = [proc EXCEPT ![w] = [Rest EXCEPT !.cmd = proc[w].cmd, !.at = "done", !.result = result]]
GiveUp(w, result) ==
  proc' = [proc EXCEPT ![w] = [Rest EXCEPT !.cmd = proc[w].cmd, !.at = "unlock", !.result = result]]
Publish(w, c) == proc' = [proc EXCEPT ![w].at = "create", ![w].next = c, ![w].view = <<>>]
OnDisk == <<locked, dir, files, torn, valid, granted, orphaned>>

(* A call begins: reserveProposalBudget goes for the lock, the others for  *)
(* a snapshot.                                                             *)
Begin(w, cmd, r, l) ==
  /\ proc[w].at = "idle"
  /\ cmd = "reserve" => Cost[r] <= l
  /\ proc' = [proc EXCEPT ![w] = [Rest EXCEPT !.cmd = cmd, !.ask = r, !.limit = l,
                                  !.at = IF cmd = "reserve" THEN "lock" ELSE "look"]]
  /\ UNCHANGED OnDisk

(* readProposalBudgetSnapshot *)
Look(w) ==
  /\ proc[w].at = "look"
  /\ IF locked THEN Return(w, "busy")
               ELSE proc' = [proc EXCEPT ![w].at = "list", ![w].since = Tip]
  /\ UNCHANGED OnDisk

List(w) ==
  /\ proc[w].at = "list"
  /\ IF dir = "ready" /\ \E f \in files : Len(f) = 1
     THEN proc' = [proc EXCEPT ![w].at = "read", ![w].names = files \cup torn]
     ELSE Return(w, "corrupt")
  /\ UNCHANGED OnDisk

Read(w) ==
  /\ proc[w].at = "read"
  /\ LET c == ReadChain(proc[w].names)
     IN  IF c = <<>> THEN Return(w, "corrupt")
         ELSE proc' = [proc EXCEPT ![w].at = "lookAgain", ![w].view = c, ![w].names = {}]
  /\ UNCHANGED OnDisk

LookAgain(w) ==
  /\ proc[w].at = "lookAgain"
  /\ IF locked THEN Return(w, "busy")
     ELSE IF proc[w].cmd = "snapshot"
          THEN proc' = [proc EXCEPT ![w].at = "done", ![w].result = "ok"]
     ELSE IF proc[w].limit <= Limit(proc[w].view) THEN Return(w, "invalid")
     ELSE Goto(w, "verify")
  /\ UNCHANGED OnDisk

Scope(w) == [on |-> proc[w].view, to |-> proc[w].limit]

(* extendProposalBudget: the approval is for this chain and this cap. *)
Verify(w) ==
  /\ proc[w].at = "verify"
  /\ IF Scope(w) \in valid
     THEN proc' = [proc EXCEPT ![w].at = "lock", ![w].since = <<>>]
     ELSE Return(w, "denied")
  /\ UNCHANGED OnDisk

(* What the owner of a new lock does first. *)
Entry(w) == IF proc[w].cmd = "reserve" THEN "directory" ELSE "decide"

(* mkdir of the lock directory, or PROPOSE_BUDGET_BUSY. *)
TakeLock(w) ==
  /\ proc[w].at = "lock"
  /\ IF locked THEN Return(w, "busy") /\ UNCHANGED locked
     ELSE /\ locked' = TRUE
          /\ Goto(w, Entry(w))
  /\ UNCHANGED <<dir, files, torn, valid, granted, orphaned>>

(* The first reservation creates the ledger, in three steps. *)
MakeDirectory(w) ==
  /\ proc[w].at = "directory"
  /\ IF dir = "none" THEN dir' = "bare" /\ Goto(w, "records")
                     ELSE UNCHANGED dir /\ Goto(w, "decide")
  /\ UNCHANGED <<locked, files, torn, valid, granted, orphaned>>

MakeRecords(w) ==
  /\ proc[w].at = "records"
  /\ dir' = "ready"
  /\ Publish(w, <<CapItem(proc[w].limit)>>)
  /\ UNCHANGED <<locked, files, torn, valid, granted, orphaned>>

(* The chain as the writer finds it under the lock. *)
Found == IF dir = "ready" THEN ReadChain(files \cup torn) ELSE <<>>

(* Mutant: the ledger is not searched for the request. *)
DecideReserveTwice(w) ==
  LET c == Found
      r == proc[w].ask
  IN  IF c = <<>> THEN GiveUp(w, "corrupt")
      ELSE IF Limit(c) # proc[w].limit THEN GiveUp(w, "drift")
      ELSE IF Cost[r] > Limit(c) - Total(c) THEN GiveUp(w, "exceeded")
      ELSE Publish(w, Append(c, Reservation(r)))

DecideReserve(w) ==
  LET c == Found
      r == proc[w].ask
  IN  IF c = <<>> THEN GiveUp(w, "corrupt")
      ELSE IF Limit(c) # proc[w].limit THEN GiveUp(w, "drift")
      ELSE IF r \in Requests(c) THEN GiveUp(w, "reserved")
      ELSE IF Cost[r] > Limit(c) - Total(c) THEN GiveUp(w, "exceeded")
      ELSE Publish(w, Append(c, Reservation(r)))

(* Mutant: the head is not compared with the approved one. *)
DecideExtendStale(w) ==
  LET c == Found
  IN  IF c = <<>> THEN GiveUp(w, "corrupt")
      ELSE IF Scope(w) \notin valid THEN GiveUp(w, "denied")
      ELSE Publish(w, Append(c, Extension(proc[w].limit)))

DecideExtend(w) ==
  LET c == Found
  IN  IF c = <<>> THEN GiveUp(w, "corrupt")
      ELSE IF c # proc[w].view THEN GiveUp(w, "stale")
      ELSE IF Scope(w) \notin valid THEN GiveUp(w, "denied")
      ELSE Publish(w, Append(c, Extension(proc[w].limit)))

Decide(w) ==
  /\ proc[w].at = "decide"
  /\ IF proc[w].cmd = "reserve" THEN DecideReserve(w) ELSE DecideExtend(w)
  /\ UNCHANGED OnDisk

(* writeExclusive: the name first, the content next. *)
Create(w) ==
  /\ proc[w].at = "create"
  /\ torn' = torn \cup {proc[w].next}
  /\ Goto(w, "fill")
  /\ UNCHANGED <<locked, dir, files, valid, granted, orphaned>>

Written(w) == /\ files' = files \cup {proc[w].next}
              /\ torn' = torn \ {proc[w].next}

Fill(w) ==
  /\ proc[w].at = "fill"
  /\ Written(w)
  /\ IF Len(proc[w].next) = 1
     THEN proc' = [proc EXCEPT ![w].at = "decide", ![w].next = <<>>]
     ELSE GiveUp(w, "ok")
  /\ UNCHANGED <<locked, dir, valid, granted, orphaned>>

Unlock(w) ==
  /\ proc[w].at = "unlock"
  /\ locked' = FALSE
  /\ proc' = [proc EXCEPT ![w].at = "done"]
  /\ UNCHANGED <<dir, files, torn, valid, granted, orphaned>>

Holding == {"directory", "records", "decide", "create", "fill", "unlock"}

(* An I/O error is reported as corruption and the lock is given back; the  *)
(* record may be complete all the same (the sync failed).  The lock stays  *)
(* when its identity could not be read on entry, or its removal failed.    *)
IOFails(w) ==
  \/ /\ proc[w].at \in Holding \ {"unlock"}
     /\ GiveUp(w, "corrupt")
     /\ UNCHANGED OnDisk
  \/ /\ proc[w].at = "fill"
     /\ Written(w)
     /\ GiveUp(w, "corrupt")
     /\ UNCHANGED <<locked, dir, valid, granted, orphaned>>
  \/ /\ proc[w].at \in {Entry(w), "unlock"}
     /\ locked' \in IF proc[w].at = "unlock" THEN {locked, FALSE} ELSE {locked}
     /\ orphaned' = locked'
     /\ Return(w, "corrupt")
     /\ UNCHANGED <<dir, files, torn, valid, granted>>

(* The processes of these writers die; an owner's lock stays. *)
Die(writers) ==
  /\ proc' = [w \in Writer |-> IF w \in writers THEN Rest ELSE proc[w]]
  /\ orphaned' = (orphaned \/ \E w \in writers : proc[w].at \in Holding)
  /\ UNCHANGED <<locked, dir, files, torn, valid, granted>>

(* The caller takes the result. *)
Leave(w) ==
  /\ proc[w].at = "done"
  /\ proc' = [proc EXCEPT ![w] = Rest]
  /\ UNCHANGED OnDisk

(* A reviewer approves an extension of a chain that was shown; it expires. *)
Approve(c, l) ==
  /\ l > Limit(c) /\ [on |-> c, to |-> l] \notin granted
  /\ Cardinality(granted) < MaxApprovals
  /\ valid' = valid \cup {[on |-> c, to |-> l]}
  /\ granted' = granted \cup {[on |-> c, to |-> l]}
  /\ UNCHANGED <<locked, dir, files, torn, proc, orphaned>>

Expire(a) ==
  /\ a \in valid
  /\ valid' = valid \ {a}
  /\ UNCHANGED <<locked, dir, files, torn, proc, granted, orphaned>>

Proceed(w) ==
  \/ Look(w) \/ List(w) \/ Read(w) \/ LookAgain(w) \/ Verify(w)
  \/ TakeLock(w) \/ MakeDirectory(w) \/ MakeRecords(w) \/ Decide(w)
  \/ Create(w) \/ Fill(w) \/ Unlock(w)

BudgetNext ==
  \/ \E w \in Writer :
       \/ \E r \in Request, l \in Cap : Begin(w, "reserve", r, l)
       \/ \E l \in Cap : Begin(w, "extend", None, l)
       \/ Begin(w, "snapshot", None, 0)
       \/ Proceed(w) \/ IOFails(w) \/ Leave(w)
  \/ \E writers \in SUBSET Writer : Die(writers)
  \/ \E c \in files, l \in Cap : Approve(c, l)
  \/ \E a \in valid : Expire(a)

BudgetSpec == BudgetInit /\ [][BudgetNext]_budgetVars

-------------------------------------------------------------------------------
BudgetTypeOK ==
  /\ locked \in BOOLEAN /\ dir \in {"none", "bare", "ready"}
  /\ valid \subseteq granted /\ orphaned \in BOOLEAN
  /\ \A w \in Writer : /\ proc[w].cmd \in {"none", "reserve", "extend", "snapshot"}
                       /\ proc[w].limit \in Cap \cup {0}
                       /\ proc[w].ask \in Request \cup {None}
                       /\ proc[w].at \in Holding => locked

(* Whatever the calls and the approvals do, the ledger is a SpendCap that  *)
(* sends nothing itself: charges are final and within the cap, and the cap *)
(* is raised only over the very chain that was approved.                   *)
Accounts ==
  INSTANCE SpendCap WITH
    limit    <- IF files = {} THEN 0 ELSE Limit(Tip),
    charged  <- Requests(Tip),
    approved <- {[charged |-> Requests(a.on), from |-> Limit(a.on), to |-> a.to] : a \in granted},
    sent     <- {}
LedgerSpec == Accounts!Spec

(* One writer at a time appends, however the calls interleave with crashes *)
(* and errors: complete and half written records form one chain in which   *)
(* every record fits what the records before it left of the cap.           *)
OneChain ==
  /\ Linked(files \cup torn)
  /\ \A f \in files : Verified(f)

(* A snapshot is a ledger that really was, and not one from before the     *)
(* reading began, although the reader holds no lock.                       *)
SnapshotIsReal ==
  \A w \in Writer :
    proc[w].at = "done" /\ proc[w].cmd = "snapshot" /\ proc[w].result = "ok" =>
      /\ proc[w].view \in files
      /\ Len(proc[w].since) <= Len(proc[w].view)

(* A record that stays half written stops the ledger for good: nothing is  *)
(* charged after it, by nobody.                                            *)
Damaged == \E f \in torn : \A w \in Writer : proc[w].next # f \/ proc[w].at # "fill"
DamageStops == [][Damaged => files' = files /\ torn' = torn]_budgetVars
===============================================================================
