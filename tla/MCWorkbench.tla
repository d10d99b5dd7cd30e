----------------------------- MODULE MCWorkbench -----------------------------
(* A bench alone: the requests of one conversation, one after the other, each *)
(* under one of two policies, and an agent that may try anything.             *)
EXTENDS Workbench, TLC

CONSTANTS page, photo1, photo2, key, lib, odd, log,
          MaxRequests   \* bound: requests begun

VARIABLE served         \* how many have been begun

MCPaths == {page, photo1, photo2, key, lib, odd, log}
MCClassesOf ==
    [p \in MCPaths |->
        CASE p = odd -> {"malformed"}
          [] p = key -> {"protected"}
          [] p = lib -> {"vendored"}
          [] p = page -> {"markup"}
          [] p = log -> {"ignored"}
          [] OTHER -> {}]
MCUploadNames == <<photo1, photo2>>
MCMoves ==
    {[path |-> page, content |-> c] : c \in {"edit", "frame", "none"}}
        \cup {[path |-> p, content |-> "edit"] : p \in {photo1, key, lib, odd, log}}
        \cup {[path |-> photo1, content |-> "link"]}

MCRefusals ==
    {[status |-> s, credit |-> c] : s \in {400, 401, 402, 429, 500}, c \in BOOLEAN}

\* Anything the defaults allow, in two files; then the page alone, whose code may
\* be anyone's, in no more than thirty lines.
MCPolicies ==
    {ParsePolicy([maxFilesChanged |-> 2]),
     ParsePolicy([allow |-> {page}, maxDiffLines |-> 30, forbidExternalCode |-> FALSE])}

Orders ==
    [request : {"r"}, conversation : {1}, branch : {1}, policy : MCPolicies,
     uploads : 0 .. 1, history : {0}, refused : {{}}, buildFailed : {FALSE}]

Init ==
    /\ InitBench
    /\ branch = [n \in Branches |-> [p \in Paths |->
                    IF p \in Markup THEN "page" ELSE "none"]]
    /\ kept = [c \in Conversations |-> None]
    /\ served = 0

Start ==
    /\ served < MaxRequests
    /\ \E request \in Orders : Begin(request)
    /\ served' = served + 1

Next ==
    \/ Start
    \/ (Work \/ Finish \/ CleanUp) /\ UNCHANGED served

Spec == Init /\ [][Next]_<<benchVars, served>>
===============================================================================
