------------------------------ MODULE PluginHost ------------------------------
(* The two plugins of a host that keep state: the recorder of runs and the *)
(* coordinator of candidates.  The recorder does not consult the           *)
(* coordinator (apply() in dal-run-record), so a behaviour runs one of     *)
(* them.                                                                   *)
EXTENDS SessionRecorder, CandidateCoordinator

VARIABLE plugin

hostedVars == <<recorderVars, candidateVars, plugin>>

PluginInit == plugin \in {"recorder", "coordinator"} /\ RecorderInit /\ CandidateInit

PluginNext ==
    \/ plugin = "recorder" /\ RecorderNext /\ UNCHANGED <<candidateVars, plugin>>
    \/ plugin = "coordinator" /\ CandidateNext /\ UNCHANGED <<recorderVars, plugin>>

PluginSpec == PluginInit /\ [][PluginNext]_hostedVars
=============================================================================
