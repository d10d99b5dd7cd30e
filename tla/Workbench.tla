------------------------------ MODULE Workbench ------------------------------
(* What happens to the files of a change request between taking the site's   *)
(* lock and letting go of it: lib/jobs/run.ts (prepare, runAgent, judge,     *)
(* publishBranch), jobs/attachments.ts, jobs/prompt.ts, jobs/wip.ts and the  *)
(* agent's container, lib/runner.  One request at a time has the lock, hence *)
(* one bench: a working tree, a control directory and a container that edits *)
(* the tree on its own while the host waits, and after that if it outlives   *)
(* both its kill and its removal.                                            *)
(*                                                                           *)
(* Who is granted the lock and the agent slot, and in what order the endings *)
(* reach the conversation, is SiteLock's, Slotd's and RequestRun's subject.  *)
EXTENDS Gate, Sequences

CONSTANTS
    Conversations,  \* numbers of pull requests
    Branches,       \* names of conversation branches
    UploadNames,    \* the names freePath tries for an attachment, in order
    AgentMoves,     \* what an agent may leave at a path
    None,           \* no order, no kept work
    Refusals,       \* what a model provider may answer the agent with
    Faults,         \* whether a call to docker or git may fail
    MaxEdits        \* bound: edits of one agent

ASSUME BenchConstants ==
    /\ UploadNames \in Seq(Paths)
    /\ AgentMoves \subseteq [path : Paths, content : Content]
    /\ Refusals \subseteq [status : 400 .. 599, credit : BOOLEAN]
    /\ Faults \in BOOLEAN /\ MaxEdits \in Nat

VARIABLES
    step,       \* where execute is
    order,      \* the request at work: what beginRequest was handed
    head,       \* the commit the tree was checked out at
    tree,       \* the working tree, mounted at /work
    placed,     \* where the client's files were put, with the digests they had
    resumed,    \* paths restored from kept work
    prompt,     \* /control/prompt.json
    box,        \* the agent's container
    edits,      \* how often this agent has edited
    judged,     \* the paths the gate let through
    ending,     \* how the request ended
    branch,     \* the branches on the repository host
    kept        \* the commits under refs/webagent/wip/c-<number>

onDisk == <<head, tree, placed, resumed>>
agent == <<box, edits>>
bench == <<step, order, head, tree, placed, resumed, prompt, box, edits, judged, ending>>
remote == <<branch, kept>>
benchVars == <<bench, remote>>

NoTree == [p \in Paths |-> "none"]
Here   == order.conversation

ErrorCodes ==
    {"none", "internal_error", "too_busy", "model_credit", "model_quota",
     "model_unavailable", "agent_timeout", "cost_ceiling", "nothing_to_change",
     "blocked_by_policy", "build_failed", "hosting_limit", "site_unreachable",
     "request_in_flight"}
NoEnding == [outcome |-> "none", errorCode |-> "none", violation |-> "none",
             blockedPath |-> "none", wipSaved |-> FALSE]
Endings == [outcome : {"none", "failed", "blocked", "succeeded"}, errorCode : ErrorCodes,
            violation : Violations, blockedPath : Paths \cup {"none"}, wipSaved : BOOLEAN]
Failed(code) == [NoEnding EXCEPT !.outcome = "failed", !.errorCode = code]
Blocked(violation, path) ==
    [NoEnding EXCEPT !.outcome = "blocked", !.errorCode = "blocked_by_policy",
                     !.violation = violation, !.blockedPath = path]
Succeeded == [NoEnding EXCEPT !.outcome = "succeeded"]

EndWith(result) == ending' = result /\ step' = "finish"

------------------------------------------------------------------------------
\* Preparing

\* A three-way apply of the kept commit: a path the branch left alone takes the
\* kept edit, one that already has it stays, any other is a conflict.
Applies(work, onto) ==
    \A p \in ChangeSet(work.base, work.tree) :
        onto[p] \in {work.base[p], work.tree[p]}
Applied(work, onto) ==
    IF Applies(work, onto)
    THEN [p \in Paths |-> IF p \in ChangeSet(work.base, work.tree)
                          THEN work.tree[p] ELSE onto[p]]
    ELSE onto

\* Clearing kept work is a courtesy: its failure is logged and survived.
Cleared(work) == {[work EXCEPT ![Here] = None]} \cup (IF Faults THEN {work} ELSE {})

\* The mirror is synced and a tree made of the branch as the host has it now.
WorkingTreeOf(name) == branch[name]

\* The branch is checked out and kept work laid over it, as
\* uncommitted edits.  What no longer applies, or adds nothing, is spent.
Prepare ==
    /\ step = "prepare"
    /\ LET onto == WorkingTreeOf(order.branch)
           found == kept[Here]
           laid == IF found = None THEN onto ELSE Applied(found, onto)
       IN  /\ head' = onto /\ tree' = laid
           /\ resumed' = ChangeSet(onto, laid)
           /\ IF found # None /\ laid = onto THEN kept' \in Cleared(kept)
              ELSE UNCHANGED kept
    /\ step' = "equip"
    /\ UNCHANGED <<order, placed, prompt, agent, judged, ending, branch>>

\* Where nothing is yet, of the names that are tried; the first so many of them.
FreeNames == {i \in DOMAIN UploadNames : tree[UploadNames[i]] = "none"}
FirstFree(n) == {i \in FreeNames : Cardinality({j \in FreeNames : j <= i}) <= n}

\* Only rules that bite are printed; the sections that have nothing to say are
\* left out of the prompt, as empty sets are here.
PolicyRules(policy) ==
    {"unreachable", "size"}
        \cup (IF policy.allow = Paths THEN {} ELSE {"allow"})
        \cup (IF policy.deny = {} THEN {} ELSE {"deny"})
        \cup (IF policy.forbidExternalCode THEN {"externalCode"} ELSE {})
        \cup (IF policy.forbidNewDependencies THEN {"dependencies"} ELSE {})

Sections(attached, restored) ==
    [attached |-> attached, resumed |-> restored,
     refused |-> order.refused, buildFailed |-> order.buildFailed]

AssemblePrompt(attached, restored) ==
    [history |-> order.history, rules |-> PolicyRules(order.policy),
     told |-> Sections(attached, restored)]

\* To a directory of its own, never inside the tree the agent's changes are read
\* from.
WriteControlDir(text) == prompt' = text

\* The client's files go to names nothing has yet, the prompt is written beside
\* the tree, and only then both are made writable for the agent's user.
Equip ==
    /\ step = "equip"
    /\ Cardinality(FreeNames) >= order.uploads
    /\ placed' = {UploadNames[i] : i \in FirstFree(order.uploads)}
    /\ tree' = [p \in Paths |-> IF p \in placed' THEN "photo" ELSE tree[p]]
    /\ WriteControlDir(AssemblePrompt(placed', resumed))
    /\ step' = "slot"
    /\ UNCHANGED <<order, head, resumed, agent, judged, ending, remote>>

\* A fault while preparing, or no name left for a file.
PrepareFails ==
    /\ \/ step \in {"prepare", "equip"} /\ Faults
       \/ step = "equip" /\ Cardinality(FreeNames) < order.uploads
    /\ EndWith(Failed("internal_error"))
    /\ UNCHANGED <<order, onDisk, prompt, agent, judged, remote>>

------------------------------------------------------------------------------
\* The agent

TooBusy ==
    /\ step = "slot"
    /\ EndWith(Failed("too_busy"))
    /\ UNCHANGED <<order, onDisk, prompt, agent, judged, remote>>

\* Created, attached to and started, with the tree at /work and the control
\* directory, outside it, at /control.
Launch ==
    /\ step = "slot"
    /\ box' = "running"
    /\ step' = "agent"
    /\ UNCHANGED <<order, onDisk, prompt, edits, judged, ending, remote>>

LaunchFails ==
    /\ step = "slot" /\ Faults
    /\ EndWith(Failed("internal_error"))
    /\ UNCHANGED <<order, onDisk, prompt, agent, judged, remote>>

AgentEdits ==
    /\ box = "running" /\ edits < MaxEdits
    /\ \E move \in AgentMoves :
        /\ tree[move.path] # move.content
        /\ tree' = [tree EXCEPT ![move.path] = move.content]
    /\ edits' = edits + 1
    /\ UNCHANGED <<step, order, head, placed, resumed, prompt, box, judged, ending, remote>>

\* What a model provider's refusal means; `credit` stands for a message that
\* speaks of credit.
ClassifyModelFailure(refusal) ==
    IF refusal.status = 402 THEN "model_credit"
    ELSE IF refusal.status = 429 THEN "model_quota"
    ELSE IF refusal.credit THEN "model_credit"
    ELSE IF refusal.status \in {401, 403, 404} \/ refusal.status >= 500
         THEN "model_unavailable" ELSE "internal_error"

Resumable == {"model_credit", "model_quota", "model_unavailable", "agent_timeout"}

\* The run is over with nothing to judge: its edits are kept when the
\* interruption was of the kind worth resuming from.
Interrupted(code) ==
    /\ ending' = Failed(code)
    /\ step' = IF code \in Resumable THEN "keep" ELSE "finish"

\* Exit status 0: the tree is judged.  The cost is the one in result.json, and
\* nothing when there is no result.json or it does not read back.
AgentSucceeds ==
    /\ step = "agent" /\ box = "running"
    /\ box' = "gone"
    /\ step' \in {"judge", "ceiling"}
    /\ UNCHANGED <<order, onDisk, prompt, edits, judged, ending, remote>>

\* Any other status ends the request before the tree is looked at.
AgentFails ==
    /\ step = "agent" /\ box = "running"
    /\ box' = "gone"
    /\ \/ Interrupted("internal_error")
       \/ \E refusal \in Refusals : Interrupted(ClassifyModelFailure(refusal))
    /\ UNCHANGED <<order, onDisk, prompt, edits, judged, remote>>

\* The clock runs out: the container is killed, and then removed by force.  Both
\* may fail, and are then logged; the container works on.
Killed == IF Faults THEN {"gone", "running"} ELSE {"gone"}
TimesOut ==
    /\ step = "agent" /\ box = "running"
    /\ box' \in Killed
    /\ Interrupted("agent_timeout")
    /\ UNCHANGED <<order, onDisk, prompt, edits, judged, remote>>

\* The wait for the container is refused by the docker daemon.
WaitFails ==
    /\ step = "agent" /\ box = "running" /\ Faults
    /\ box' \in Killed
    /\ Interrupted("internal_error")
    /\ UNCHANGED <<order, onDisk, prompt, edits, judged, remote>>

------------------------------------------------------------------------------
\* The verdict

\* A bug VerifyPlaced could have: it trusts that the agent left them alone.
VerifyPlaced_Trusting == placed

\* The client's files that are still exactly what the client sent.
VerifyPlaced == {p \in placed : tree[p] = "photo"}

Committed == [p \in Paths |-> IF p \in judged THEN tree[p] ELSE head[p]]

\* Kept work passes the gate before it is kept.
KeepJudged ==
    /\ step = "keep"
    /\ LET changed == ChangeSet(head, tree)
           verdict == Verdict(head, tree, order.policy, VerifyPlaced)
       IN  IF changed = {} \/ verdict.broken
           THEN step' = "finish" /\ UNCHANGED judged
           ELSE step' = "keepCommit" /\ judged' = changed
    /\ UNCHANGED <<order, onDisk, prompt, agent, ending, remote>>

\* The judged paths are committed as they are now and pushed over whatever the
\* conversation's wip ref held; a failure costs the work and nothing else.
Keep ==
    /\ step = "keepCommit"
    /\ \/ /\ kept' = [kept EXCEPT ![Here] = [base |-> head, tree |-> Committed]]
          /\ EndWith([ending EXCEPT !.wipSaved = TRUE])
       \/ Faults /\ EndWith(ending) /\ UNCHANGED kept
    /\ UNCHANGED <<order, onDisk, prompt, agent, judged, branch>>

\* Kept work is spent once a tree that contained it has been judged.
Spend == IF resumed = {} THEN UNCHANGED kept ELSE kept' \in Cleared(kept)

\* Before the gate: a run that cost too much, and one that changed nothing.
Dismiss ==
    /\ \/ step = "ceiling" /\ EndWith(Failed("cost_ceiling"))
       \/ /\ step = "judge" /\ ChangeSet(head, tree) = {}
          /\ EndWith(Failed("nothing_to_change"))
    /\ Spend
    /\ UNCHANGED <<order, onDisk, prompt, agent, judged, branch>>

\* Refused: the record names the rule, and a path that broke it if it has one.
Block ==
    /\ step = "judge" /\ ChangeSet(head, tree) # {}
    /\ LET verdict == Verdict(head, tree, order.policy, VerifyPlaced)
       IN  /\ verdict.broken
           /\ \E path \in IF verdict.paths = {} THEN {"none"} ELSE verdict.paths :
                EndWith(Blocked(verdict.violation, path))
    /\ Spend
    /\ UNCHANGED <<order, onDisk, prompt, agent, judged, branch>>

Pass ==
    /\ step = "judge" /\ ChangeSet(head, tree) # {}
    /\ ~Verdict(head, tree, order.policy, VerifyPlaced).broken
    /\ judged' = ChangeSet(head, tree)
    /\ step' = "push"
    /\ UNCHANGED <<order, onDisk, prompt, agent, ending, remote>>

\* Exactly the judged paths are committed and pushed; kept work is spent after
\* the push, never before.
Publish ==
    /\ step = "push"
    /\ branch' = [branch EXCEPT ![order.branch] = Committed]
    /\ Spend
    /\ step' = "preview"
    /\ UNCHANGED <<order, onDisk, prompt, agent, judged, ending>>

PublishFails ==
    /\ step = "push" /\ Faults
    /\ EndWith(Failed("internal_error"))
    /\ UNCHANGED <<order, onDisk, prompt, agent, judged, remote>>

Preview ==
    /\ step = "preview"
    /\ \/ EndWith(Succeeded)
       \/ \E code \in {"build_failed", "hosting_limit", "site_unreachable"} :
            EndWith(Failed(code))
    /\ UNCHANGED <<order, onDisk, prompt, agent, judged, remote>>

------------------------------------------------------------------------------
InitBench ==
    /\ step = "free" /\ order = None
    /\ head = NoTree /\ tree = NoTree /\ placed = {} /\ resumed = {}
    /\ prompt = None /\ box = "none" /\ edits = 0 /\ judged = {} /\ ending = NoEnding

\* The lock is taken for a request.
Begin(request) ==
    /\ step = "free"
    /\ order' = request
    /\ step' = "prepare"
    /\ UNCHANGED <<onDisk, prompt, agent, judged, ending, remote>>

\* The ending is announced and its record built; posting it and cleaning up go on
\* side by side from here.
Finish ==
    /\ step = "finish"
    /\ step' = "discard" /\ ending' = NoEnding
    /\ UNCHANGED <<order, onDisk, prompt, agent, judged, remote>>

\* The tree and the control directory are removed, and the lock released.
CleanUp ==
    /\ step = "discard"
    /\ step' = "free" /\ order' = None
    /\ head' = NoTree /\ tree' = NoTree /\ placed' = {} /\ resumed' = {}
    /\ prompt' = None /\ box' = "none" /\ edits' = 0 /\ judged' = {}
    /\ UNCHANGED <<ending, remote>>

Work ==
    \/ Prepare \/ Equip \/ PrepareFails \/ TooBusy \/ Launch \/ LaunchFails
    \/ AgentEdits \/ AgentSucceeds \/ AgentFails \/ TimesOut \/ WaitFails
    \/ KeepJudged \/ Keep \/ Dismiss \/ Block \/ Pass \/ Publish \/ PublishFails
    \/ Preview

------------------------------------------------------------------------------
Steps == {"free", "prepare", "equip", "slot", "agent", "keep", "keepCommit",
          "ceiling", "judge", "push", "preview", "finish", "discard"}

\* The bench is always in a shape the code can be in (execute's local variables
\* and the container's life).
BenchTypeOK ==
    /\ step \in Steps
    /\ order = None <=> step = "free"
    /\ head \in Trees /\ tree \in Trees
    /\ placed \subseteq Paths /\ resumed \subseteq Paths /\ judged \subseteq Paths
    /\ box \in {"none", "running", "gone"} /\ edits \in 0 .. MaxEdits
    /\ branch \in [Branches -> Trees]
    /\ kept \in [Conversations -> {None} \cup [base : Trees, tree : Trees]]
    /\ ending \in Endings

\* What of a tree may have changed under a policy, said without the rules' order:
\* `attached` are files of the client's own that nobody has touched.
Permitted(before, after, policy, attached) ==
    LET changed == {p \in Paths : before[p] # after[p]}
    IN  /\ changed \cap (Malformed \cup Protected \cup policy.deny) = {}
        /\ changed \subseteq policy.allow \cup attached
        /\ Cardinality(changed) <= policy.maxFilesChanged
        /\ TotalDiffLines(before, after) <= policy.maxDiffLines
        /\ policy.forbidNewDependencies => changed \cap Vendored = {}
        /\ \A p \in changed :
            /\ after[p] # "link"
            /\ p \in Markup /\ policy.forbidExternalCode => after[p] # "frame"

Untouched(after) == {p \in placed : after[p] = "photo"}

\* What reaches a branch, or is kept, was judged as it is.
JudgedLeaves ==
    /\ \A n \in Branches : branch'[n] # branch[n] =>
        /\ order # None /\ n = order.branch
        /\ Permitted(branch[n], branch'[n], order.policy, Untouched(branch'[n]))
    /\ \A c \in Conversations : kept'[c] \notin {None, kept[c]} =>
        /\ order # None /\ c = order.conversation
        /\ box = "gone" => Permitted(kept'[c].base, kept'[c].tree, order.policy,
                                     Untouched(kept'[c].tree))

\* Whatever the agent did to the tree, when it was interrupted, and however often
\* its work was kept and taken up again: a push changes on the request's own branch
\* what the policy permits and nothing else, and the same holds of work kept for
\* later, save when the container outlived its own removal.  (run.ts judge,
\* publishBranch, keepInterruptedWork; changeset.ts; gate.ts; wip.ts.)
OnlyTheJudgedLeaves == [][JudgedLeaves]_benchVars
===============================================================================
