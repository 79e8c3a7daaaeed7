----------------------------- MODULE EffectLedger -----------------------------
(***************************************************************************)
(* What the live controller promises about provider requests, whatever the *)
(* interleaving of its callers, its crashes and its restarts: a request is *)
(* claimed durably before it leaves, it leaves at most once, and what it   *)
(* came to is decided at most once and never revised.                      *)
(***************************************************************************)
EXTENDS Naturals

CONSTANTS Effect,   \* the operation names a campaign can issue
          Outcome,  \* what a terminal receipt can record
          Open      \* no outcome is recorded yet

VARIABLES claimed,  \* the effects whose claim is durable
          sent,     \* how often each effect was handed to the provider
          outcome   \* the recorded outcome of each effect, or Open

vars == <<claimed, sent, outcome>>

TypeOK == /\ claimed \subseteq Effect
          /\ sent \in [Effect -> 0..1]
          /\ outcome \in [Effect -> Outcome \cup {Open}]

Init == /\ claimed = {}
        /\ sent = [e \in Effect |-> 0]
        /\ outcome = [e \in Effect |-> Open]

Claim(e) == /\ e \notin claimed
            /\ claimed' = claimed \cup {e}
            /\ UNCHANGED <<sent, outcome>>

Dispatch(e) == /\ e \in claimed
               /\ sent[e] = 0
               /\ outcome[e] = Open
               /\ sent' = [sent EXCEPT ![e] = 1]
               /\ UNCHANGED <<claimed, outcome>>

Settle(e, o) == /\ sent[e] = 1
                /\ outcome[e] = Open
                /\ outcome' = [outcome EXCEPT ![e] = o]
                /\ UNCHANGED <<claimed, sent>>

Next == \E e \in Effect : \/ Claim(e)
                          \/ Dispatch(e)
                          \/ \E o \in Outcome : Settle(e, o)

Spec == Init /\ [][Next]_vars
===============================================================================
