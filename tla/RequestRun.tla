------------------------------ MODULE RequestRun ------------------------------
(***************************************************************************)
(* src/lib/jobs/run.ts: the change requests of a site, from the lock to    *)
(* the durable record, with the stage machine of jobs/state.ts, the kept   *)
(* work of jobs/wip.ts and the announcements of jobs/bus.ts.               *)
(*                                                                         *)
(* `execute` returns finish(...) without awaiting it, so from there on two *)
(* strands of one request run side by side: the finally block (discard,    *)
(* slot, lock) and finish itself (record comment, `done` event).           *)
(*                                                                         *)
(* Edits are named by the request whose agent made them.  The lock is the  *)
(* one SiteLock describes, here taken and broken in one step.              *)
(***************************************************************************)
EXTENDS Integers, FiniteSets

CONSTANTS
    Requests,       \* the change requests of the site, each made once
    Conversations,
    Of,             \* the conversation of each request
    None,           \* no lock, no announcement
    Site,           \* the site's own edits, merged into a branch behind it
    Faults,         \* whether calls to the repository host and to git may fail
    Crashes,        \* whether the process may restart
    Overrun         \* whether a live request may outlast its lock's time limit

ASSUME SentinelsAreNoRequests == None \notin Requests /\ Site \notin Requests
ASSUME OfIsTotal == Of \in [Requests -> Conversations]
ASSUME SwitchesAreBoolean == {Faults, Crashes, Overrun} \subseteq BOOLEAN

VARIABLES
    lock,       \* whom refs/webagent/lock names
    pc,         \* where execute is in each request
    stage,      \* the stage machine of each request
    ending,     \* how the request ended, as handed to finish
    filing,     \* where finish is: none, filing, filed or lost
    records,    \* the record comments of the site
    slots,      \* requests holding a lease of the host
    trees,      \* requests whose working tree is on disk
    known,      \* requests whose execute holds the tree prepare returned
    tree,       \* edits in each request's working tree
    base,       \* what the branch held when the tree was checked out
    resumed,    \* whether the tree started from kept work
    branch,     \* edits on each conversation's branch
    wip,        \* edits under its refs/webagent/wip, {} when there is no ref
    wipBase,    \* what the branch held under those edits
    accepted,   \* history: the edits the gate has let through for each request
    active,     \* per conversation, the announced request not yet `done`
    overran     \* history: whether the lock of a live request was broken

kept    == <<wip, wipBase>>
remote  == <<branch, wip, wipBase>>
strands == <<pc, stage, ending, filing>>
work    == <<tree, base, resumed>>
host    == <<slots, trees, known>>
vars    == <<lock, pc, stage, ending, filing, records, slots, trees, known, tree,
             base, resumed, branch, wip, wipBase, accepted, active, overran>>

Terminal == {"succeeded", "blocked", "failed"}
Stages   == {"starting", "queued", "running", "gating", "pushing", "building"}
                \cup Terminal
Working  == {"prepare", "restore", "slot", "queued", "agent", "keep", "judge",
             "dismiss", "push", "spend", "preview"}
Cleaning == {"discard", "freeSlot", "unlock"}
Gone     == {"over", "dead"}
PC       == {"idle", "turnedAway"} \cup Working \cup Cleaning \cup Gone
Endings  == {"none", "succeeded", "too_busy", "interrupted", "cost_ceiling",
             "nothing_to_change", "blocked", "hosting", "internal_error"}
Outcomes == Terminal \cup {"abandoned"}
Edits    == Requests \cup {Site}

Init ==
    /\ lock = None
    /\ pc = [r \in Requests |-> "idle"]
    /\ stage = [r \in Requests |-> "starting"]
    /\ ending = [r \in Requests |-> "none"]
    /\ filing = [r \in Requests |-> "none"]
    /\ records = {}
    /\ slots = {}
    /\ trees = {}
    /\ known = {}
    /\ tree = [r \in Requests |-> {}]
    /\ base = [r \in Requests |-> {}]
    /\ resumed = [r \in Requests |-> FALSE]
    /\ branch = [c \in Conversations |-> {}]
    /\ wip = [c \in Conversations |-> {}]
    /\ wipBase = [c \in Conversations |-> {}]
    /\ accepted = [r \in Requests |-> {}]
    /\ active = [c \in Conversations |-> None]
    /\ overran = FALSE

Branch(r)  == branch[Of[r]]
Wip(r)     == wip[Of[r]]
WipBase(r) == wipBase[Of[r]]

Goto(r, label) == pc' = [pc EXCEPT ![r] = label]
Advance(r, to) == stage' = [stage EXCEPT ![r] = to]
Record(r, c, outcome) ==
    records' = records \cup {[request |-> r, conversation |-> c, outcome |-> outcome]}

\* A bug OutcomeOf could have: an error code is passed on as the outcome.
OutcomeOf_Raw(e) == e

OutcomeOf(e) == IF e \in {"succeeded", "blocked"} THEN e ELSE "failed"

\* isLegalTransition: a failure interrupts any stage that is not terminal.
IsLegal(from, to) ==
    /\ from \notin Terminal
    /\ \/ to = "failed"
       \/ <<from, to>> \in {<<"starting", "queued">>, <<"starting", "running">>,
                            <<"queued", "running">>, <<"running", "gating">>,
                            <<"gating", "pushing">>, <<"gating", "blocked">>,
                            <<"pushing", "building">>, <<"building", "succeeded">>}

\* `return finish(...)`: up to its first await finish runs at once, then the
\* finally block starts.  The catch block ends a request the same way.
Finish(r, e) ==
    /\ Advance(r, OutcomeOf(e))
    /\ ending' = [ending EXCEPT ![r] = e]
    /\ filing' = [filing EXCEPT ![r] = "filing"]
    /\ Goto(r, "discard")

\* The next step of execute, in the same stage, or in a later one.
Proceed(r, label) ==
    /\ Goto(r, label)
    /\ UNCHANGED <<stage, ending, filing>>
ProceedAs(r, to, label) ==
    /\ Goto(r, label)
    /\ Advance(r, to)
    /\ UNCHANGED <<ending, filing>>

\* Something awaited inside the try block threw.
Throw(r) == Faults /\ Finish(r, "internal_error")

-------------------------------------------------------------------------------
(* beginRequest *)

\* A lock is broken once it is older than the time limit of a request: its
\* request is gone, or alive and longer at it than the limit foresees.
MayBreak(r) == lock # None /\ (Overrun \/ pc[lock] \in Gone)

\* The broken request is given the ending its own process never wrote, unless
\* writing it fails; it goes where the breaking request is.
Begin(r) ==
    /\ pc[r] = "idle"
    /\ \/ lock = None /\ UNCHANGED records
       \/ MayBreak(r) /\ Record(lock, Of[r], "abandoned")
       \/ MayBreak(r) /\ Faults /\ UNCHANGED records
    /\ lock' = r
    /\ active' = [active EXCEPT ![Of[r]] = r]
    /\ overran' = (overran \/ (lock # None /\ pc[lock] \notin Gone))
    /\ Proceed(r, "prepare")
    /\ UNCHANGED <<host, work, remote, accepted>>

\* Held: nothing starts and nothing is recorded.
TurnAway(r) ==
    /\ pc[r] = "idle"
    /\ lock # None
    /\ Proceed(r, "turnedAway")
    /\ UNCHANGED <<lock, records, host, work, remote, accepted, active, overran>>

-------------------------------------------------------------------------------
(* The steps of execute *)

\* prepare, until the tree is checked out.  A checkout that throws may leave
\* the clone behind.
Checkout(r) ==
    /\ pc[r] = "prepare"
    /\ \/ /\ Proceed(r, "restore")
          /\ base' = [base EXCEPT ![r] = Branch(r)]
          /\ trees' = trees \cup {r}
       \/ /\ Throw(r)
          /\ trees' \in {trees, trees \cup {r}}
          /\ UNCHANGED base
    /\ UNCHANGED <<lock, records, slots, known, tree, resumed, remote, accepted, active, overran>>

\* clearWip: deleting the ref may fail, and that never fails the request.
ClearWip(r) ==
    \/ wip' = [wip EXCEPT ![Of[r]] = {}]
    \/ Faults /\ UNCHANGED wip

\* restoreWip: kept edits apply unless the branch has them or has moved under
\* them; kept work that does not apply is dropped.
Restore(r) ==
    \/ /\ Wip(r) = {}
       /\ UNCHANGED <<tree, resumed, wip>>
    \/ /\ ~(Wip(r) \subseteq base[r])
       /\ tree' = [tree EXCEPT ![r] = Wip(r)]
       /\ resumed' = [resumed EXCEPT ![r] = TRUE]
       /\ UNCHANGED wip
    \/ /\ Wip(r) # {}
       /\ Wip(r) \subseteq base[r] \/ base[r] # WipBase(r)
       /\ ClearWip(r)
       /\ UNCHANGED <<tree, resumed>>

\* The rest of prepare: kept work, then attachments and control files.  Until
\* prepare returns, execute does not know the tree.
RestoreKept(r) ==
    /\ pc[r] = "restore"
    /\ \/ /\ Restore(r)
          /\ known' = known \cup {r}
          /\ Proceed(r, "slot")
       \/ /\ Restore(r) \/ UNCHANGED <<tree, resumed, wip>>
          /\ Throw(r)
          /\ UNCHANGED known
    /\ UNCHANGED <<lock, records, slots, trees, base, branch, wipBase, accepted, active, overran>>

\* A slot is granted; when the broker is unavailable the request runs without.
Granted(r) ==
    /\ slots' \in {slots, slots \cup {r}}
    /\ ProceedAs(r, "running", "agent")

\* waitForSlot: granted at once, announced as queued once, or refused.
AskSlot(r) ==
    /\ pc[r] = "slot"
    /\ \/ Granted(r)
       \/ ProceedAs(r, "queued", "queued") /\ UNCHANGED slots
       \/ Finish(r, "too_busy") /\ UNCHANGED slots
    /\ UNCHANGED <<lock, records, trees, known, work, remote, accepted, active, overran>>

\* The queue's ceiling refuses a request that waited too long.
QueueAnswers(r) ==
    /\ pc[r] = "queued"
    /\ Granted(r) \/ (Finish(r, "too_busy") /\ UNCHANGED slots)
    /\ UNCHANGED <<lock, records, trees, known, work, remote, accepted, active, overran>>

\* runAgent: the agent may have edited the tree whatever its ending.  Only an
\* interruption (time, credit, quota, provider down) is worth keeping work of.
RunAgent(r) ==
    /\ pc[r] = "agent"
    /\ tree' \in {tree, [tree EXCEPT ![r] = @ \cup {r}]}
    /\ ProceedAs(r, "gating", "judge") \/ Proceed(r, "keep") \/ Finish(r, "internal_error")
    /\ UNCHANGED <<lock, records, host, base, resumed, remote, accepted, active, overran>>

\* A bug Keep could have: only this agent's edits are kept, not those restored.
Keep_Overwrites(r) ==
    /\ pc[r] = "keep"
    /\ \/ UNCHANGED kept
       \/ /\ wip' = [wip EXCEPT ![Of[r]] = tree[r] \cap {r}]
          /\ wipBase' = [wipBase EXCEPT ![Of[r]] = base[r]]
    /\ Finish(r, "interrupted")
    /\ UNCHANGED <<lock, records, host, work, branch, accepted, active, overran>>

\* saveWip: kept when the gate lets it through and the push, forced, succeeds.
\* The kept commit stands on what the tree was checked out from.
Keep(r) ==
    /\ pc[r] = "keep"
    /\ \/ UNCHANGED kept
       \/ /\ tree[r] # {}
          /\ wip' = [wip EXCEPT ![Of[r]] = tree[r]]
          /\ wipBase' = [wipBase EXCEPT ![Of[r]] = base[r]]
    /\ Finish(r, "interrupted")
    /\ UNCHANGED <<lock, records, host, work, branch, accepted, active, overran>>

\* A bug Judge could have: restored work passed the gate once and is not judged.
Judge_TrustsKeptWork(r) ==
    /\ pc[r] = "judge"
    /\ accepted' = [accepted EXCEPT ![r] = tree[r] \cap {r}]
    /\ ProceedAs(r, "pushing", "push")
    /\ UNCHANGED <<lock, records, host, work, remote, active, overran>>

\* judge: the cost ceiling first, then an empty change set, then the gate, which
\* sees the whole change.
Judge(r) ==
    /\ pc[r] = "judge"
    /\ \/ /\ Goto(r, "dismiss")
          /\ \E e \in {"cost_ceiling"} \cup
                IF tree[r] = {} THEN {"nothing_to_change"} ELSE {"blocked"} :
                ending' = [ending EXCEPT ![r] = e]
          /\ UNCHANGED <<stage, filing, accepted>>
       \/ /\ tree[r] # {}
          /\ accepted' = [accepted EXCEPT ![r] = tree[r]]
          /\ ProceedAs(r, "pushing", "push")
       \/ Throw(r) /\ UNCHANGED accepted
    /\ UNCHANGED <<lock, records, host, work, remote, active, overran>>

\* spendKeptWork clears the ref only for a tree that started from it.
Spend(r) ==
    /\ (resumed[r] /\ ClearWip(r)) \/ (~resumed[r] /\ UNCHANGED wip)
    /\ UNCHANGED wipBase

\* A bug Dismiss could have: kept work outlives the verdict against it.
Dismiss_KeepsWork(r) ==
    /\ pc[r] = "dismiss"
    /\ wip' = [wip EXCEPT ![Of[r]] = tree[r]]
    /\ Finish(r, ending[r])
    /\ UNCHANGED <<lock, records, host, work, branch, wipBase, accepted, active, overran>>

\* A verdict against the change: the kept work it contained is spent with it.
Dismiss(r) ==
    /\ pc[r] = "dismiss"
    /\ Spend(r)
    /\ Finish(r, ending[r])
    /\ UNCHANGED <<lock, records, host, work, branch, accepted, active, overran>>

\* A bug Push could have: a rejected push goes unnoticed.
Push_IgnoresRejection(r) ==
    /\ pc[r] = "push"
    /\ branch' = [branch EXCEPT ![Of[r]] = IF @ = base[r] THEN @ \cup tree[r] ELSE @]
    /\ Proceed(r, "spend")
    /\ UNCHANGED <<lock, records, host, work, kept, accepted, active, overran>>

\* publishBranch: commit the permitted paths and push, never by force.  A push
\* may have reached the branch although its answer was lost.
Push(r) ==
    /\ pc[r] = "push"
    /\ \/ /\ Branch(r) = base[r]
          /\ branch' = [branch EXCEPT ![Of[r]] = @ \cup tree[r]]
          /\ Proceed(r, "spend") \/ Throw(r)
       \/ /\ Branch(r) # base[r]
          /\ Finish(r, "internal_error")
          /\ UNCHANGED branch
       \/ Throw(r) /\ UNCHANGED branch
    /\ UNCHANGED <<lock, records, host, work, kept, accepted, active, overran>>

\* A bug SpendPublished could have: building is never announced.
SpendPublished_Silent(r) ==
    /\ pc[r] = "spend"
    /\ Spend(r)
    /\ Proceed(r, "preview")
    /\ UNCHANGED <<lock, records, host, work, branch, accepted, active, overran>>

\* After the push, never before: until then the kept copy is the only one.
SpendPublished(r) ==
    /\ pc[r] = "spend"
    /\ Spend(r)
    /\ ProceedAs(r, "building", "preview")
    /\ UNCHANGED <<lock, records, host, work, branch, accepted, active, overran>>

\* waitForPreview and settle: ready, one of the hosting failures, or a throw.
AwaitPreview(r) ==
    /\ pc[r] = "preview"
    /\ Finish(r, "succeeded") \/ Finish(r, "hosting") \/ Throw(r)
    /\ UNCHANGED <<lock, records, host, work, remote, accepted, active, overran>>

-------------------------------------------------------------------------------
(* The finally block *)

\* What execute knew of the tree goes out of scope with it.
Forget(R) ==
    /\ known' = known \ R
    /\ tree' = [r \in Requests |-> IF r \in R THEN {} ELSE tree[r]]
    /\ base' = [r \in Requests |-> IF r \in R THEN {} ELSE base[r]]
    /\ resumed' = [r \in Requests |-> r \notin R /\ resumed[r]]

\* execute disposes of the tree it knows, and never fails at it.
Discard(r) ==
    /\ pc[r] = "discard"
    /\ trees' = trees \ (known \cap {r})
    /\ Forget({r})
    /\ Proceed(r, "freeSlot")
    /\ UNCHANGED <<lock, records, slots, remote, accepted, active, overran>>

\* A bug FreeSlot could have: the lock is given back before the slot.
FreeSlot_UnlocksFirst(r) ==
    /\ pc[r] = "freeSlot"
    /\ lock' = None
    /\ Proceed(r, "unlock")
    /\ UNCHANGED <<records, host, work, remote, accepted, active, overran>>

FreeSlot(r) ==
    /\ pc[r] = "freeSlot"
    /\ slots' = slots \ {r}
    /\ Proceed(r, "unlock")
    /\ UNCHANGED <<lock, records, trees, known, work, remote, accepted, active, overran>>

\* The ref is deleted whomever it names.  releaseRef swallows a failed delete:
\* the request is over, its lock is not.
Unlock(r) ==
    /\ pc[r] = "unlock"
    /\ (lock' = None) \/ (Faults /\ UNCHANGED lock)
    /\ Proceed(r, "over")
    /\ UNCHANGED <<records, host, work, remote, accepted, active, overran>>

-------------------------------------------------------------------------------
(* The other strand: finish, from createComment on *)

\* A bug FileRecord could have: a late `done` forgets whoever is announced.
FileRecord_ForgetsAny(r) ==
    /\ filing[r] = "filing"
    /\ filing' = [filing EXCEPT ![r] = "filed"]
    /\ Record(r, Of[r], OutcomeOf(ending[r]))
    /\ active' = [active EXCEPT ![Of[r]] = None]
    /\ UNCHANGED <<lock, pc, stage, ending, host, work, remote, accepted, overran>>

\* The comment is written, `done` is published, and the bus forgets what that
\* request announced.
FileRecord(r) ==
    /\ filing[r] = "filing"
    /\ filing' = [filing EXCEPT ![r] = "filed"]
    /\ Record(r, Of[r], OutcomeOf(ending[r]))
    /\ active' = [c \in Conversations |-> IF active[c] = r THEN None ELSE active[c]]
    /\ UNCHANGED <<lock, pc, stage, ending, host, work, remote, accepted, overran>>

\* createComment throws, or its answer is lost: no `done` is ever published.
FilingFails(r) ==
    /\ Faults
    /\ filing[r] = "filing"
    /\ filing' = [filing EXCEPT ![r] = "lost"]
    /\ Record(r, Of[r], OutcomeOf(ending[r])) \/ UNCHANGED records
    /\ UNCHANGED <<lock, pc, stage, ending, host, work, remote, accepted, active, overran>>

-------------------------------------------------------------------------------
(* Around them *)

\* A publication brings a branch behind the site up to date; it takes no lock.
BringUpToDate(c) ==
    /\ Site \notin branch[c]
    /\ branch' = [branch EXCEPT ![c] = @ \cup {Site}]
    /\ UNCHANGED <<lock, strands, records, host, work, kept, accepted, active, overran>>

\* The process restarts: memory, tasks and leases are gone, the rest stays.
Crash ==
    /\ Crashes
    /\ pc' = [r \in Requests |-> IF pc[r] \in Working \cup Cleaning THEN "dead" ELSE pc[r]]
    /\ filing' = [r \in Requests |-> IF filing[r] = "filing" THEN "lost" ELSE filing[r]]
    /\ <<pc', filing'>> # <<pc, filing>>
    /\ slots' = {}
    /\ Forget(Requests)
    /\ active' = [c \in Conversations |-> None]
    /\ UNCHANGED <<lock, stage, ending, records, trees, remote, accepted, overran>>

Execute(r) ==
    \/ Checkout(r) \/ RestoreKept(r) \/ AskSlot(r) \/ QueueAnswers(r) \/ RunAgent(r)
    \/ Keep(r) \/ Judge(r) \/ Dismiss(r) \/ Push(r) \/ SpendPublished(r)
    \/ AwaitPreview(r) \/ Discard(r) \/ FreeSlot(r) \/ Unlock(r)

File(r) == FileRecord(r) \/ FilingFails(r)

Next ==
    \/ \E r \in Requests : Begin(r) \/ TurnAway(r) \/ Execute(r) \/ File(r)
    \/ \E c \in Conversations : BringUpToDate(c)
    \/ Crash

Spec == Init /\ [][Next]_vars

\* Every await of execute and of finish is answered: the agent and the preview
\* have deadlines, the queue refuses after its ceiling.
FairSpec == Spec /\ \A r \in Requests : WF_vars(Execute(r)) /\ WF_vars(File(r))
-------------------------------------------------------------------------------
(* Properties *)

RecordsOf(r) == {record \in records : record.request = r}

\* Where a request may be and what it may hold.
ControlTypes ==
    /\ lock \in Requests \cup {None}
    /\ pc \in [Requests -> PC]
    /\ stage \in [Requests -> Stages]
    /\ ending \in [Requests -> Endings]
    /\ filing \in [Requests -> {"none", "filing", "filed", "lost"}]
    /\ records \subseteq [request: Requests, conversation: Conversations, outcome: Outcomes]
    /\ slots \subseteq Requests /\ trees \subseteq Requests /\ known \subseteq Requests
    /\ resumed \in [Requests -> BOOLEAN]
    /\ active \in [Conversations -> Requests \cup {None}]
    /\ overran \in BOOLEAN

\* Where edits may be.
EditTypes ==
    /\ tree \in [Requests -> SUBSET Edits]
    /\ base \in [Requests -> SUBSET Edits]
    /\ accepted \in [Requests -> SUBSET Edits]
    /\ branch \in [Conversations -> SUBSET Edits]
    /\ wip \in [Conversations -> SUBSET Edits]
    /\ wipBase \in [Conversations -> SUBSET Edits]

\* The types of the state: labels, endings and outcomes are those of the code.
TypeOK == ControlTypes /\ EditTypes

\* createStageMachine throws on an illegal transition, in the middle of a
\* request: no path of execute, finish or the catch block provokes that.
LegalAdvance ==
    \A r \in Requests : stage'[r] # stage[r] => IsLegal(stage[r], stage'[r])
StageAdvancesLegally == [][LegalAdvance]_vars

\* Whatever appears on a branch, restored work included, was let through by the
\* gate for the very request that pushes it (run.ts: the order of the steps is
\* the security design; wip.ts: the gate judges the whole change again).
JudgedArrival ==
    \A c \in Conversations : \A x \in branch'[c] \ branch[c] :
        \/ x = Site
        \/ \E r \in Requests : pc[r] = "push" /\ Of[r] = c /\ x \in accepted[r]
PublishedWasJudged == [][JudgedArrival]_vars

\* Edits a verdict refused are neither published nor kept, in any conversation,
\* at any later time.
RefusedWorkIsGone ==
    \A r \in Requests : ending[r] \in {"blocked", "cost_ceiling"} =>
        \A c \in Conversations : r \notin branch[c] \cup wip[c]

\* A record that says succeeded is about a change the gate let through and the
\* branch holds; a rejected push cannot end in one.
SuccessIsPublished ==
    \A r \in Requests : "succeeded" \in {record.outcome : record \in RecordsOf(r)} =>
        accepted[r] # {} /\ accepted[r] \subseteq branch[Of[r]]

\* Kept work is the only copy there is: it leaves its ref only for the branch,
\* by a verdict against a tree containing it, or for a request that found it
\* stale, the branch having moved.  No failure, crash or interruption loses it,
\* as long as no live request has lost its lock to age.
SettledDeparture ==
    ~overran => \A c \in Conversations : \A x \in wip[c] \ wip'[c] :
        \/ x \in branch[c]
        \/ \E r \in Requests : Of[r] = c /\ pc[r] = "dismiss" /\ x \in tree[r]
        \/ \E r \in Requests :
            Of[r] = c /\ pc[r] \in {"restore", "keep"} /\ base[r] # wipBase[c]
KeptWorkIsNotLost == [][SettledDeparture]_vars

\* A lease of the host is only ever held under the site's lock: the next request
\* never starts with its predecessor's agent slot still taken, unless a live
\* request has lost its lock to age.
SlotWithinLock == ~overran => slots \subseteq {lock}

\* While a request works, a browser that opens its conversation finds it
\* announced, also when the record of its predecessor is filed late, as long as
\* no live request has lost its lock to age.
LiveRequestIsAnnounced ==
    ~overran => \A r \in Requests : pc[r] \in Working => active[Of[r]] = r

\* Every request that starts comes to an end with its slot given back and its
\* record dealt with, whatever failed on the way.
EveryRequestLetsGo ==
    \A r \in Requests :
        pc[r] = "prepare" ~> r \notin slots /\ pc[r] \in Gone /\ filing[r] # "filing"

\* Documented, and not so: a conversation's history holds what happened in it
\* (spec.md, FR-009).  The lock names no conversation: the abandoned request's
\* ending goes into the history of whoever broke the lock.
EndingsAreFiledAtHome ==
    \A record \in records : record.conversation = Of[record.request]
===============================================================================
