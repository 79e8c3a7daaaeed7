----------------------------- MODULE MCPluginHost -----------------------------
(* One session with two writes under way, one script for what a controller *)
(* is told of a session and one for its tool calls; one candidate of two   *)
(* files with two clients.                                                 *)
EXTENDS PluginHost, TLC

CONSTANTS w1, w2, p1, p2

MCSymmetry == Permutations(Writers) \cup Permutations(Clients)

Event(type, fits) == [type |-> type, fits |-> fits]
Tool(type, id, fits) == [type |-> type, id |-> id, fits |-> fits]
Start == [type |-> "turn/start"]
End(reason) == [type |-> "turn/end", reason |-> reason]

Script(life, installed, faults, moves, length, events) ==
    [life |-> life, installed |-> installed, faults |-> faults, transitions |-> moves, length |-> length, events |-> events]

MCScripts == {
    Script("away", FALSE, TRUE, 0, 4, {Start, End("completed"), End("unheard-of"),
                              Event("request/header", TRUE), Event("request/context", FALSE)}),
    Script("here", TRUE, FALSE, 0, 4, {Start, End("error"), Event("request/header", TRUE),
                             Event("system/message", TRUE), [type |-> "replace"]}),
    Script("away", TRUE, TRUE, 1, 2, {Start, End("completed")}),
    Script("away", FALSE, FALSE, 0, 4, {Start, End("completed"), Tool("tool/call", "k", TRUE),
                              Tool("tool/result", "k", TRUE), Tool("tool/result", "k", FALSE)}),
    Script("away", FALSE, FALSE, 0, 4, {Start, End("completed"), Tool("tool/call", "k", FALSE),
                              Tool("tool/call", "l", TRUE), Event("request/header", TRUE)})}
===============================================================================
