------------------------------- MODULE SpendCap -------------------------------
(***************************************************************************)
(* What the spend ledger promises, whoever writes to it and whatever       *)
(* fails: a request is charged before it is sent, once, for ever, and      *)
(* within the cap; the cap only grows, and only by an extension that was   *)
(* approved for exactly the charges and the cap it is applied to.          *)
(***************************************************************************)
EXTENDS Naturals, FiniteSetsExt

CONSTANTS Request,  \* requests that may be charged
          Cost,     \* Cost[r]: what r is charged
          Cap       \* caps a policy or an approval may name

VARIABLES limit,     \* the cap in force, 0 before the first reservation
          charged,   \* the requests on the ledger
          approved,  \* extensions ever approved: [charged, from, to]
          sent       \* the requests handed to the provider

vars == <<limit, charged, approved, sent>>

Sum(requests) == MapThenSumSet(LAMBDA r : Cost[r], requests)

Init == limit = 0 /\ charged = {} /\ approved = {} /\ sent = {}

Open(l) == /\ limit = 0
           /\ limit' = l
           /\ UNCHANGED <<charged, approved, sent>>

Charge(r) == /\ r \notin charged
             /\ Sum(charged) + Cost[r] <= limit
             /\ charged' = charged \cup {r}
             /\ UNCHANGED <<limit, approved, sent>>

(* A reviewer may approve what he was shown a while ago. *)
Approve == /\ approved \subseteq approved'
           /\ UNCHANGED <<limit, charged, sent>>

Raise(to) == /\ to > limit
             /\ [charged |-> charged, from |-> limit, to |-> to] \in approved
             /\ limit' = to
             /\ UNCHANGED <<charged, approved, sent>>

Send(r) == /\ r \in charged \ sent
           /\ sent' = sent \cup {r}
           /\ UNCHANGED <<limit, charged, approved>>

Next == \/ Approve
        \/ \E r \in Request : Charge(r) \/ Send(r)
        \/ \E l \in Cap : Open(l) \/ Raise(l)

Spec == Init /\ [][Next]_vars
===============================================================================
