---------------------------- MODULE PromptPromotion ----------------------------
(***************************************************************************)
(* What a live campaign promises about the prompt it serves: it changes    *)
(* only to a candidate a human approved and that never served before, or   *)
(* back to one that was retained.  A prompt that lost its place stays out  *)
(* unless it had been retained.                                            *)
(***************************************************************************)
CONSTANTS Prompt, Base

VARIABLES serving,   \* the prompt in use
          approved,  \* candidates with an approved human decision
          kept,      \* prompts that were retained at some time
          served     \* prompts that were in use at some time

vars == <<serving, approved, kept, served>>

Init == serving = Base /\ approved = {} /\ kept = {Base} /\ served \subseteq {Base}

Approve(p) == /\ approved' = approved \cup {p}
              /\ UNCHANGED <<serving, kept, served>>

Deploy == /\ serving' = Base /\ served' = served \cup {Base}
          /\ served \subseteq {Base}
          /\ UNCHANGED <<approved, kept>>

Activate(p) == /\ p \in approved \ served
               /\ serving' = p
               /\ served' = served \cup {p}
               /\ UNCHANGED <<approved, kept>>

Keep == /\ serving \in approved
        /\ kept' = kept \cup {serving}
        /\ UNCHANGED <<serving, approved, served>>

Restore(p) == /\ p \in kept
              /\ serving' = p
              /\ served' = served \cup {p}
              /\ UNCHANGED <<approved, kept>>

Next == \/ Deploy \/ Keep
        \/ \E p \in Prompt : Approve(p) \/ Activate(p) \/ Restore(p)

Spec == Init /\ [][Next]_vars
===============================================================================
