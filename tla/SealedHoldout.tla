---------------------------- MODULE SealedHoldout ----------------------------
(***************************************************************************)
(* The sealed holdout (seal.ts).  A seal is four files that are written    *)
(* one after the other, each renamed into place: the commitment, the       *)
(* sealed manifest with the cases held out, the manifest of the others,    *)
(* and the lock.  A reveal reads the first two and links a fifth.          *)
(*                                                                         *)
(* The cases a seal holds out follow from its seed: they are named by the  *)
(* seal.  A commitment also says how many they are.  outside.raced is      *)
(* history: an init found no seal while another one was under way.         *)
(***************************************************************************)
EXTENDS EvidenceStore

CONSTANT Holdouts    \* how many cases may be held out

SealFile(part) == <<"seal", "seal", part>>
Parts == <<"commitment", "manifest", "observed", "lock">>
Following(part) == LET n == CHOOSE n \in 1..4 : Parts[n] = part
                   IN  IF n = 4 THEN "done" ELSE Parts[n + 1]

(* Mutant: only the lock, which is written last, is looked for. *)
SealedLock == Has(SealFile("lock"))

Sealed == \E part \in {"lock", "commitment", "reveal"} : Has(SealFile(part))

Initialising == \E c \in Caller : call[c].op = "init" /\ call[c].at # "done"
SealInit(c, holdout) ==
    /\ \/ Sealed /\ Start(c, Refused("init")) /\ UNCHANGED outside
       \/ /\ ~Sealed
          /\ Start(c, Command("init", "commitment", SealFile("commitment"),
                              [seal |-> made, holdout |-> holdout], None))
          /\ outside' = [outside EXCEPT !.raced = @ \/ Initialising]
    /\ UNCHANGED files

PublishSealed(c) ==
    /\ call[c].op = "init" /\ call[c].at \in {Parts[n] : n \in 1..4}
    /\ files' = With(SealFile(call[c].at), call[c].want)
    /\ IF call[c].at = "lock" THEN Finish(c, "stored") ELSE Goto(c, Following(call[c].at))
    /\ UNCHANGED outside

SealReveal(c, candidate) ==
    /\ Start(c, IF ~Has(SealFile("commitment")) \/ Has(SealFile("reveal"))
                THEN Refused("reveal")
                ELSE Command("reveal", "read", SealFile("reveal"),
                             [candidate |-> candidate, seal |-> None, cases |-> None],
                             files[SealFile("commitment")]))
    /\ UNCHANGED <<files, outside>>

(* The manifest has the cases; only their number is compared.              *)
ReadManifest(c) ==
    /\ call[c].op = "reveal" /\ call[c].at = "read"
    /\ IF Has(SealFile("manifest")) /\ files[SealFile("manifest")].holdout = call[c].read.holdout
       THEN Update(c, [call[c] EXCEPT !.at = "publish",
              !.want.seal = call[c].read, !.want.cases = files[SealFile("manifest")]])
       ELSE Finish(c, "refused")
    /\ UNCHANGED <<files, outside>>

SealNext ==
    \/ \E c \in Caller, holdout \in Holdouts : SealInit(c, holdout)
    \/ \E c \in Caller, candidate \in {"first", "second"} : SealReveal(c, candidate)
    \/ \E c \in Caller :
         \/ PublishSealed(c) \/ ReadManifest(c)
         \/ call[c].op = "reveal" /\ Compare(c, FALSE)

(* What is revealed are as many cases as were committed to, and the cases  *)
(* of that very seal, unless two inits ran into each other.                *)
RevealIsSealed ==
    Has(SealFile("reveal")) =>
      LET reveal == files[SealFile("reveal")]
      IN  reveal.cases.holdout = reveal.seal.holdout /\ (outside.raced \/ reveal.cases = reveal.seal)

(* What seal.ts says of itself: "a seal is one-shot and cannot be          *)
(* re-initialized".                                                        *)
SealIsOneShot ==
    [][Has(SealFile("commitment")) => files'[SealFile("commitment")] = files[SealFile("commitment")]]_files
=============================================================================
