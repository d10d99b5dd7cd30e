--------------------------- MODULE RequestRun_proofs ---------------------------
(***************************************************************************)
(* Proofs about RequestRun, for every set of requests and conversations    *)
(* and every setting of its switches: the types and every safety property  *)
(* of its runs but that of the misfiled endings, which does not hold.      *)
(***************************************************************************)
EXTENDS RequestRun, TLAPS

Unstarted == {"idle", "turnedAway"}
Begun     == Working \cup Cleaning

\* The labels of execute before anything of the request leaves its own tree.
BeforeKeepOrPush == Unstarted \cup {"prepare", "restore", "slot", "queued", "agent",
                                    "keep", "judge", "dismiss", "push"}

\* Working on a tree whose kept work has been looked at.
Restored == {"slot", "queued", "agent", "keep", "judge", "dismiss", "push", "spend"}

\* The label of execute determines the stage of the machine.
StageFitsLabel ==
    \A r \in Requests :
        /\ pc[r] \in Unstarted \cup {"prepare", "restore", "slot"} => stage[r] = "starting"
        /\ pc[r] = "queued" => stage[r] = "queued"
        /\ pc[r] \in {"agent", "keep"} => stage[r] = "running"
        /\ pc[r] \in {"judge", "dismiss"} => stage[r] = "gating"
        /\ pc[r] \in {"push", "spend"} => stage[r] = "pushing"
        /\ pc[r] = "preview" => stage[r] = "building"

\* An ending is decided where the try block is left, a verdict just before it,
\* and finish runs beside or after the finally block only.
EndingFitsLabel ==
    \A r \in Requests :
        /\ ending[r] # "none" => pc[r] \in {"dismiss", "dead"} \cup Cleaning \cup {"over"}
        /\ pc[r] = "dismiss" => ending[r] \in {"cost_ceiling", "nothing_to_change", "blocked"}
        /\ filing[r] = "filing" => pc[r] \in Cleaning \cup {"over"}

\* As long as no live request has lost its lock, whoever is between taking and
\* giving back the lock is named by it, and is announced while it works.
HolderIsAlone ==
    ~overran => \A r \in Requests :
        /\ pc[r] \in Begun => lock = r
        /\ pc[r] \in Working => active[Of[r]] = r

\* A slot is held from the agent's start to the finally block at most.
SlotFitsLabel ==
    \A r \in slots : pc[r] \in {"agent", "keep", "judge", "dismiss", "push", "spend",
                                "preview", "discard", "freeSlot"}

\* The whole change, let through by the gate, and on the branch.
Published(r) == accepted[r] # {} /\ accepted[r] \subseteq Branch(r)

\* What is pushed is what the gate let through; what follows the push finds it on
\* the branch, and so does whoever reads of a success.
PushedWasAccepted ==
    \A r \in Requests :
        /\ pc[r] = "push" => tree[r] # {} /\ accepted[r] = tree[r]
        /\ pc[r] = "spend" => tree[r] \subseteq Branch(r)
        /\ pc[r] \in {"spend", "preview"} \/ ending[r] = "succeeded" => Published(r)

SuccessIsAnEnding ==
    \A record \in records : record.outcome = "succeeded" => ending[record.request] = "succeeded"

\* The edits of r are in its own tree at most.
Confined(r) ==
    /\ \A c \in Conversations : r \notin branch[c] /\ r \notin wip[c]
    /\ \A q \in Requests : q # r => r \notin tree[q]

\* Edits leave their tree by being kept or pushed, and by nothing a verdict
\* against them precedes.
OwnEditsConfined ==
    \A r \in Requests :
        pc[r] \in BeforeKeepOrPush \/ ending[r] \in {"blocked", "cost_ceiling"} => Confined(r)

BaseIsOnBranch == \A r \in Requests : base[r] \subseteq Branch(r)

\* What a working request's tree has to do with its conversation's kept work:
\* it contains it, or there is none that would still apply.
KeptIsAccountedFor ==
    \A r \in Requests :
        /\ pc[r] \in Unstarted \cup {"prepare", "restore"} => ~resumed[r]
        /\ ~overran /\ pc[r] \in Restored =>
            \/ resumed[r] /\ Wip(r) \subseteq tree[r]
            \/ ~resumed[r] /\ (Wip(r) \subseteq base[r] \/ base[r] # WipBase(r))

IInv ==
    /\ TypeOK
    /\ StageFitsLabel
    /\ EndingFitsLabel
    /\ HolderIsAlone
    /\ SlotFitsLabel
    /\ PushedWasAccepted
    /\ SuccessIsAnEnding
    /\ OwnEditsConfined
    /\ BaseIsOnBranch
    /\ KeptIsAccountedFor

-------------------------------------------------------------------------------
\* Initially nothing is held, under way or kept.
LEMMA TypeInit == Init => TypeOK
  <1> SUFFICES ASSUME Init PROVE TypeOK
    OBVIOUS
  <1>1. ControlTypes
    BY DEF Init, ControlTypes, PC, Stages, Endings
  <1>2. EditTypes
    BY DEF Init, EditTypes
  <1> QED
    BY <1>1, <1>2 DEF TypeOK

\* Labels, endings and outcomes are only ever those of the code.
LEMMA ControlTypesStep ==
  ASSUME TypeOK, [Next]_vars
  PROVE  ControlTypes'
  <1> USE OfIsTotal, SentinelsAreNoRequests DEF Goto, Advance, host, work, remote,
              TypeOK, ControlTypes, PC, Working, Cleaning, Gone, Stages, Terminal,
              Endings, Outcomes, OutcomeOf
  <1>1. ASSUME NEW r \in Requests, Begin(r) PROVE ControlTypes'
    BY <1>1 DEF Begin, MayBreak, Record, Proceed
  <1>2. ASSUME NEW r \in Requests, TurnAway(r) PROVE ControlTypes'
    BY <1>2 DEF TurnAway, Proceed
  <1>3. ASSUME NEW r \in Requests, Checkout(r) PROVE ControlTypes'
    BY <1>3, SMTT(30) DEF Checkout, Branch, Proceed, Throw, Finish
  <1>4. ASSUME NEW r \in Requests, RestoreKept(r) PROVE ControlTypes'
    <2>1. resumed' \in [Requests -> BOOLEAN]
      BY <1>4 DEF RestoreKept, Restore
    <2>2. known' \subseteq Requests
      BY <1>4 DEF RestoreKept
    <2> QED
      BY <1>4, <2>1, <2>2 DEF RestoreKept, Proceed, Throw, Finish
  <1>5. ASSUME NEW r \in Requests, AskSlot(r) PROVE ControlTypes'
    BY <1>5 DEF AskSlot, Granted, ProceedAs, Finish
  <1>6. ASSUME NEW r \in Requests, QueueAnswers(r) PROVE ControlTypes'
    BY <1>6 DEF QueueAnswers, Granted, ProceedAs, Finish
  <1>7. ASSUME NEW r \in Requests, RunAgent(r) PROVE ControlTypes'
    BY <1>7 DEF RunAgent, ProceedAs, Proceed, Finish
  <1>8. ASSUME NEW r \in Requests, Keep(r) PROVE ControlTypes'
    BY <1>8 DEF Keep, kept, Finish
  <1>9. ASSUME NEW r \in Requests, Judge(r) PROVE ControlTypes'
    BY <1>9 DEF Judge, ProceedAs, Throw, Finish
  <1>10. ASSUME NEW r \in Requests, Dismiss(r) PROVE ControlTypes'
    BY <1>10 DEF Dismiss, Spend, ClearWip, Finish
  <1>11. ASSUME NEW r \in Requests, Push(r) PROVE ControlTypes'
    BY <1>11 DEF Push, Branch, kept, Proceed, Throw, Finish
  <1>12. ASSUME NEW r \in Requests, SpendPublished(r) PROVE ControlTypes'
    BY <1>12 DEF SpendPublished, Spend, ClearWip, ProceedAs
  <1>13. ASSUME NEW r \in Requests, AwaitPreview(r) PROVE ControlTypes'
    BY <1>13 DEF AwaitPreview, Throw, Finish
  <1>14. ASSUME NEW r \in Requests, Discard(r) PROVE ControlTypes'
    BY <1>14 DEF Discard, Forget, Proceed
  <1>15. ASSUME NEW r \in Requests, FreeSlot(r) PROVE ControlTypes'
    BY <1>15 DEF FreeSlot, Proceed
  <1>16. ASSUME NEW r \in Requests, Unlock(r) PROVE ControlTypes'
    BY <1>16 DEF Unlock, Proceed
  <1>17. ASSUME NEW r \in Requests, FileRecord(r) PROVE ControlTypes'
    BY <1>17 DEF FileRecord, Record
  <1>18. ASSUME NEW r \in Requests, FilingFails(r) PROVE ControlTypes'
    BY <1>18 DEF FilingFails, Record
  <1>19. ASSUME NEW c \in Conversations, BringUpToDate(c) PROVE ControlTypes'
    BY <1>19 DEF BringUpToDate, strands, kept
  <1>20. CASE Crash
    BY <1>20 DEF Crash, Forget
  <1>21. CASE UNCHANGED vars
    BY <1>21 DEF vars
  <1> QED
    BY <1>1, <1>2, <1>3, <1>4, <1>5, <1>6, <1>7, <1>8, <1>9, <1>10, <1>11, <1>12,
       <1>13, <1>14, <1>15, <1>16, <1>17, <1>18, <1>19, <1>20, <1>21 DEF Next,
       Execute, File

\* Edits are those of the agents and of the site.
LEMMA EditTypesStep ==
  ASSUME TypeOK, [Next]_vars
  PROVE  EditTypes'
  <1> USE OfIsTotal DEF Goto, Advance, host, work, remote, TypeOK, EditTypes, Edits
  <1>1. ASSUME NEW r \in Requests, Begin(r) PROVE EditTypes'
    BY <1>1 DEF Begin, MayBreak, Record, Proceed
  <1>2. ASSUME NEW r \in Requests, TurnAway(r) PROVE EditTypes'
    BY <1>2 DEF TurnAway, Proceed
  <1>3. ASSUME NEW r \in Requests, Checkout(r) PROVE EditTypes'
    BY <1>3 DEF Checkout, Branch, Proceed, Throw, Finish
  <1>4. ASSUME NEW r \in Requests, RestoreKept(r) PROVE EditTypes'
    BY <1>4 DEF RestoreKept, Restore, ClearWip, Wip, WipBase, Proceed, Throw, Finish
  <1>5. ASSUME NEW r \in Requests, AskSlot(r) PROVE EditTypes'
    BY <1>5 DEF AskSlot, Granted, ProceedAs, Finish
  <1>6. ASSUME NEW r \in Requests, QueueAnswers(r) PROVE EditTypes'
    BY <1>6 DEF QueueAnswers, Granted, ProceedAs, Finish
  <1>7. ASSUME NEW r \in Requests, RunAgent(r) PROVE EditTypes'
    BY <1>7 DEF RunAgent, ProceedAs, Proceed, Finish
  <1>8. ASSUME NEW r \in Requests, Keep(r) PROVE EditTypes'
    BY <1>8 DEF Keep, kept, Finish
  <1>9. ASSUME NEW r \in Requests, Judge(r) PROVE EditTypes'
    BY <1>9 DEF Judge, ProceedAs, Throw, Finish
  <1>10. ASSUME NEW r \in Requests, Dismiss(r) PROVE EditTypes'
    BY <1>10 DEF Dismiss, Spend, ClearWip, Finish
  <1>11. ASSUME NEW r \in Requests, Push(r) PROVE EditTypes'
    BY <1>11 DEF Push, Branch, kept, Proceed, Throw, Finish
  <1>12. ASSUME NEW r \in Requests, SpendPublished(r) PROVE EditTypes'
    BY <1>12 DEF SpendPublished, Spend, ClearWip, ProceedAs
  <1>13. ASSUME NEW r \in Requests, AwaitPreview(r) PROVE EditTypes'
    BY <1>13 DEF AwaitPreview, Throw, Finish
  <1>14. ASSUME NEW r \in Requests, Discard(r) PROVE EditTypes'
    BY <1>14 DEF Discard, Forget, Proceed
  <1>15. ASSUME NEW r \in Requests, FreeSlot(r) PROVE EditTypes'
    BY <1>15 DEF FreeSlot, Proceed
  <1>16. ASSUME NEW r \in Requests, Unlock(r) PROVE EditTypes'
    BY <1>16 DEF Unlock, Proceed
  <1>17. ASSUME NEW r \in Requests, FileRecord(r) PROVE EditTypes'
    BY <1>17 DEF FileRecord, Record
  <1>18. ASSUME NEW r \in Requests, FilingFails(r) PROVE EditTypes'
    BY <1>18 DEF FilingFails, Record
  <1>19. ASSUME NEW c \in Conversations, BringUpToDate(c) PROVE EditTypes'
    BY <1>19 DEF BringUpToDate, strands, kept
  <1>20. CASE Crash
    BY <1>20 DEF Crash, Forget
  <1>21. CASE UNCHANGED vars
    BY <1>21 DEF vars
  <1> QED
    BY <1>1, <1>2, <1>3, <1>4, <1>5, <1>6, <1>7, <1>8, <1>9, <1>10, <1>11, <1>12,
       <1>13, <1>14, <1>15, <1>16, <1>17, <1>18, <1>19, <1>20, <1>21 DEF Next,
       Execute, File

\* Every variable of RequestRun keeps its type in every behaviour.
THEOREM TypeCorrect == Spec => []TypeOK
  <1>1. TypeOK /\ [Next]_vars => TypeOK'
    BY ControlTypesStep, EditTypesStep DEF TypeOK
  <1> QED
    BY TypeInit, <1>1, PTL DEF Spec

-------------------------------------------------------------------------------
\* A request moves on in the stage its next label belongs to.
LEMMA StageStep ==
  ASSUME TypeOK, StageFitsLabel, [Next]_vars
  PROVE  StageFitsLabel'
  <1> USE DEF Goto, Advance, host, work, remote, TypeOK, ControlTypes,
              StageFitsLabel, Unstarted, Working, Cleaning
  <1>1. ASSUME NEW r \in Requests, AskSlot(r) PROVE StageFitsLabel'
    BY <1>1 DEF AskSlot, Granted, ProceedAs, Finish
  <1>2. ASSUME NEW r \in Requests, QueueAnswers(r) PROVE StageFitsLabel'
    BY <1>2 DEF QueueAnswers, Granted, ProceedAs, Finish
  <1>3. ASSUME NEW r \in Requests, RunAgent(r) PROVE StageFitsLabel'
    BY <1>3 DEF RunAgent, ProceedAs, Proceed, Finish
  <1>4. ASSUME NEW r \in Requests, Judge(r) PROVE StageFitsLabel'
    BY <1>4 DEF Judge, ProceedAs, Throw, Finish
  <1>5. ASSUME NEW r \in Requests, SpendPublished(r) PROVE StageFitsLabel'
    BY <1>5 DEF SpendPublished, Spend, ClearWip, ProceedAs
  <1>6. ASSUME NEW r \in Requests, AwaitPreview(r) PROVE StageFitsLabel'
    BY <1>6 DEF AwaitPreview, Throw, Finish
  <1>7. ASSUME NEW r \in Requests,
               \/ Begin(r) \/ TurnAway(r) \/ Checkout(r) \/ RestoreKept(r) \/ Keep(r)
               \/ Dismiss(r) \/ Push(r) \/ Discard(r) \/ FreeSlot(r) \/ Unlock(r)
               \/ FileRecord(r) \/ FilingFails(r)
        PROVE  StageFitsLabel'
    BY <1>7 DEF Begin, MayBreak, Record, Proceed, TurnAway, Checkout, Branch, Throw,
       Finish, RestoreKept, Restore, ClearWip, Wip, WipBase, Keep, kept, Dismiss,
       Spend, Push, Discard, Forget, FreeSlot, Unlock, FileRecord, FilingFails
  <1>8. ASSUME NEW c \in Conversations, BringUpToDate(c) PROVE StageFitsLabel'
    BY <1>8 DEF BringUpToDate, strands, kept
  <1>9. CASE Crash
    BY <1>9 DEF Crash, Forget
  <1>10. CASE UNCHANGED vars
    BY <1>10 DEF vars
  <1> QED
    BY <1>1, <1>2, <1>3, <1>4, <1>5, <1>6, <1>7, <1>8, <1>9, <1>10 DEF Next,
       Execute, File

\* Only the verdicts and the steps that leave the try block decide an ending.
LEMMA EndingStep ==
  ASSUME TypeOK, EndingFitsLabel, [Next]_vars
  PROVE  EndingFitsLabel'
  <1> USE DEF Goto, Advance, host, work, remote, TypeOK, ControlTypes,
              EndingFitsLabel, Working, Cleaning
  <1>1. ASSUME NEW r \in Requests, Judge(r) PROVE EndingFitsLabel'
    BY <1>1 DEF Judge, ProceedAs, Throw, Finish
  <1>2. ASSUME NEW r \in Requests, Dismiss(r) PROVE EndingFitsLabel'
    BY <1>2 DEF Dismiss, Spend, ClearWip, Finish
  <1>3. ASSUME NEW r \in Requests, FileRecord(r) PROVE EndingFitsLabel'
    BY <1>3 DEF FileRecord, Record
  <1>4. ASSUME NEW r \in Requests, FilingFails(r) PROVE EndingFitsLabel'
    BY <1>4 DEF FilingFails, Record
  <1>5. ASSUME NEW r \in Requests,
               \/ Begin(r) \/ TurnAway(r) \/ Checkout(r) \/ RestoreKept(r) \/ AskSlot(r)
               \/ QueueAnswers(r) \/ RunAgent(r) \/ Keep(r) \/ Push(r) \/ SpendPublished(r)
               \/ AwaitPreview(r) \/ Discard(r) \/ FreeSlot(r) \/ Unlock(r)
        PROVE  EndingFitsLabel'
    BY <1>5 DEF Begin, MayBreak, Record, Proceed, TurnAway, Checkout, Branch, Throw,
       Finish, RestoreKept, Restore, ClearWip, Wip, WipBase, AskSlot, Granted,
       ProceedAs, QueueAnswers, RunAgent, Keep, kept, Push, SpendPublished, Spend,
       AwaitPreview, Discard, Forget, FreeSlot, Unlock
  <1>6. ASSUME NEW c \in Conversations, BringUpToDate(c) PROVE EndingFitsLabel'
    BY <1>6 DEF BringUpToDate, strands, kept
  <1>7. CASE Crash
    BY <1>7 DEF Crash, Forget
  <1>8. CASE UNCHANGED vars
    BY <1>8 DEF vars
  <1> QED
    BY <1>1, <1>2, <1>3, <1>4, <1>5, <1>6, <1>7, <1>8 DEF Next, Execute, File

\* Between taking and giving back the lock a request is alone, unless a live one
\* lost its lock: Begin finds the lock free, or that of a request that is over.
LEMMA HolderStep ==
  ASSUME TypeOK, EndingFitsLabel, HolderIsAlone, [Next]_vars
  PROVE  HolderIsAlone'
  <1> USE OfIsTotal, SentinelsAreNoRequests DEF Goto, Advance, host, work, remote,
              TypeOK, ControlTypes, EndingFitsLabel, HolderIsAlone, Begun, Working,
              Cleaning, Gone
  <1>1. ASSUME NEW r \in Requests, Begin(r) PROVE HolderIsAlone'
    <2>1. /\ lock' = r /\ pc' = [pc EXCEPT ![r] = "prepare"]
          /\ active' = [active EXCEPT ![Of[r]] = r]
      BY <1>1 DEF Begin, Proceed
    <2>2. overran' \/ (~overran /\ (lock = None \/ pc[lock] \in Gone))
      BY <1>1, Zenon DEF Begin
    <2>3. ASSUME ~overran', NEW q \in Requests, q # r, pc'[q] \in Begun PROVE FALSE
      <3>1. pc[q] \in Begun
        BY <2>1, <2>3
      <3>2. lock = q
        BY <2>2, <2>3, <3>1
      <3> QED
        BY <2>2, <2>3, <3>1, <3>2
    <2>4. /\ pc'[r] \in Begun => lock' = r
          /\ pc'[r] \in Working => active'[Of[r]] = r
      BY <2>1
    <2> QED
      BY <2>3, <2>4
  <1>2. ASSUME NEW r \in Requests, Unlock(r) PROVE HolderIsAlone'
    BY <1>2 DEF Unlock, Proceed
  <1>3. ASSUME NEW r \in Requests, FileRecord(r) PROVE HolderIsAlone'
    BY <1>3 DEF FileRecord, Record
  <1>4. ASSUME NEW r \in Requests,
               \/ TurnAway(r) \/ Checkout(r) \/ RestoreKept(r) \/ AskSlot(r)
               \/ QueueAnswers(r) \/ RunAgent(r) \/ Keep(r) \/ Judge(r) \/ Dismiss(r)
               \/ Push(r) \/ SpendPublished(r) \/ AwaitPreview(r) \/ Discard(r)
               \/ FreeSlot(r) \/ FilingFails(r)
        PROVE  HolderIsAlone'
    BY <1>4 DEF TurnAway, Proceed, Checkout, Branch, Throw, Finish, RestoreKept,
       Restore, ClearWip, Wip, WipBase, AskSlot, Granted, ProceedAs, QueueAnswers,
       RunAgent, Keep, kept, Judge, Dismiss, Spend, Push, SpendPublished,
       AwaitPreview, Discard, Forget, FreeSlot, FilingFails, Record
  <1>5. ASSUME NEW c \in Conversations, BringUpToDate(c) PROVE HolderIsAlone'
    BY <1>5 DEF BringUpToDate, strands, kept
  <1>6. CASE Crash
    BY <1>6 DEF Crash, Forget
  <1>7. CASE UNCHANGED vars
    BY <1>7 DEF vars
  <1> QED
    BY <1>1, <1>2, <1>3, <1>4, <1>5, <1>6, <1>7 DEF Next, Execute, File

\* The label after freeSlot is reached without a slot, whatever came before.
LEMMA SlotStep ==
  ASSUME TypeOK, SlotFitsLabel, [Next]_vars
  PROVE  SlotFitsLabel'
  <1> USE DEF Goto, Advance, host, work, remote, TypeOK, ControlTypes, SlotFitsLabel
  <1>1. ASSUME NEW r \in Requests, AskSlot(r) PROVE SlotFitsLabel'
    BY <1>1 DEF AskSlot, Granted, ProceedAs, Finish
  <1>2. ASSUME NEW r \in Requests, QueueAnswers(r) PROVE SlotFitsLabel'
    BY <1>2 DEF QueueAnswers, Granted, ProceedAs, Finish
  <1>3. ASSUME NEW r \in Requests, FreeSlot(r) PROVE SlotFitsLabel'
    BY <1>3 DEF FreeSlot, Proceed
  <1>4. ASSUME NEW r \in Requests,
               \/ Begin(r) \/ TurnAway(r) \/ Checkout(r) \/ RestoreKept(r) \/ RunAgent(r)
               \/ Keep(r) \/ Judge(r) \/ Dismiss(r) \/ Push(r) \/ SpendPublished(r)
               \/ AwaitPreview(r) \/ Discard(r) \/ Unlock(r) \/ FileRecord(r)
               \/ FilingFails(r)
        PROVE  SlotFitsLabel'
    BY <1>4 DEF Begin, MayBreak, Record, Proceed, TurnAway, Checkout, Branch, Throw,
       Finish, RestoreKept, Restore, ClearWip, Wip, WipBase, RunAgent, ProceedAs,
       Keep, kept, Judge, Dismiss, Spend, Push, SpendPublished, AwaitPreview,
       Discard, Forget, Unlock, FileRecord, FilingFails
  <1>5. ASSUME NEW c \in Conversations, BringUpToDate(c) PROVE SlotFitsLabel'
    BY <1>5 DEF BringUpToDate, strands, kept
  <1>6. CASE Crash
    BY <1>6 DEF Crash, Forget
  <1>7. CASE UNCHANGED vars
    BY <1>7 DEF vars
  <1> QED
    BY <1>1, <1>2, <1>3, <1>4, <1>5, <1>6, <1>7 DEF Next, Execute, File

-------------------------------------------------------------------------------
\* A branch only grows, so it keeps what a tree was checked out from.
LEMMA BaseStep ==
  ASSUME TypeOK, BaseIsOnBranch, [Next]_vars
  PROVE  BaseIsOnBranch'
  <1> USE OfIsTotal DEF Goto, Advance, host, work, remote, TypeOK, EditTypes,
              BaseIsOnBranch, Branch
  <1>1. ASSUME NEW r \in Requests, Checkout(r) PROVE BaseIsOnBranch'
    BY <1>1 DEF Checkout, Branch, Proceed, Throw, Finish
  <1>2. ASSUME NEW r \in Requests, Push(r) PROVE BaseIsOnBranch'
    BY <1>2 DEF Push, Branch, kept, Proceed, Throw, Finish
  <1>3. ASSUME NEW r \in Requests, Discard(r) PROVE BaseIsOnBranch'
    BY <1>3 DEF Discard, Forget, Proceed
  <1>4. ASSUME NEW r \in Requests,
               \/ Begin(r) \/ TurnAway(r) \/ RestoreKept(r) \/ AskSlot(r) \/ QueueAnswers(r)
               \/ RunAgent(r) \/ Keep(r) \/ Judge(r) \/ Dismiss(r) \/ SpendPublished(r)
               \/ AwaitPreview(r) \/ FreeSlot(r) \/ Unlock(r) \/ FileRecord(r)
               \/ FilingFails(r)
        PROVE  BaseIsOnBranch'
    BY <1>4 DEF Begin, MayBreak, Record, Proceed, TurnAway, RestoreKept, Restore,
       ClearWip, Wip, WipBase, Throw, Finish, AskSlot, Granted, ProceedAs,
       QueueAnswers, RunAgent, Keep, kept, Judge, Dismiss, Spend, SpendPublished,
       AwaitPreview, FreeSlot, Unlock, FileRecord, FilingFails
  <1>5. ASSUME NEW c \in Conversations, BringUpToDate(c) PROVE BaseIsOnBranch'
    BY <1>5 DEF BringUpToDate, strands, kept
  <1>6. CASE Crash
    BY <1>6 DEF Crash, Forget
  <1>7. CASE UNCHANGED vars
    BY <1>7 DEF vars
  <1> QED
    BY <1>1, <1>2, <1>3, <1>4, <1>5, <1>6, <1>7 DEF Next, Execute, File

\* Judge lets the whole tree through, Push brings it all, and no later step of
\* anybody takes it from the branch.
LEMMA PushedStep ==
  ASSUME TypeOK, EndingFitsLabel, PushedWasAccepted, [Next]_vars
  PROVE  PushedWasAccepted'
  <1> USE OfIsTotal DEF Goto, Advance, host, work, remote, TypeOK, ControlTypes,
              EditTypes, EndingFitsLabel, PushedWasAccepted, Published, Branch,
              Working, Cleaning, Gone
  <1>1. ASSUME NEW r \in Requests, RestoreKept(r) PROVE PushedWasAccepted'
    BY <1>1 DEF RestoreKept, Restore, ClearWip, Wip, WipBase, Proceed, Throw, Finish
  <1>2. ASSUME NEW r \in Requests, RunAgent(r) PROVE PushedWasAccepted'
    BY <1>2 DEF RunAgent, ProceedAs, Proceed, Finish
  <1>3. ASSUME NEW r \in Requests, Judge(r) PROVE PushedWasAccepted'
    BY <1>3 DEF Judge, ProceedAs, Throw, Finish
  <1>4. ASSUME NEW r \in Requests, Dismiss(r) PROVE PushedWasAccepted'
    BY <1>4 DEF Dismiss, Spend, ClearWip, Finish
  <1>5. ASSUME NEW r \in Requests, Push(r) PROVE PushedWasAccepted'
    BY <1>5 DEF Push, Branch, kept, Proceed, Throw, Finish
  <1>6. ASSUME NEW r \in Requests, Discard(r) PROVE PushedWasAccepted'
    BY <1>6 DEF Discard, Forget, Proceed
  <1>7. ASSUME NEW r \in Requests,
               \/ Begin(r) \/ TurnAway(r) \/ Checkout(r) \/ AskSlot(r) \/ QueueAnswers(r)
               \/ Keep(r) \/ SpendPublished(r) \/ AwaitPreview(r) \/ FreeSlot(r)
               \/ Unlock(r) \/ FileRecord(r) \/ FilingFails(r)
        PROVE  PushedWasAccepted'
    BY <1>7 DEF Begin, MayBreak, Record, Proceed, TurnAway, Checkout, Branch, Throw,
       Finish, AskSlot, Granted, ProceedAs, QueueAnswers, Keep, kept,
       SpendPublished, Spend, ClearWip, AwaitPreview, FreeSlot, Unlock, FileRecord,
       FilingFails
  <1>8. ASSUME NEW c \in Conversations, BringUpToDate(c) PROVE PushedWasAccepted'
    BY <1>8 DEF BringUpToDate, strands, kept
  <1>9. CASE Crash
    BY <1>9 DEF Crash, Forget
  <1>10. CASE UNCHANGED vars
    BY <1>10 DEF vars
  <1> QED
    BY <1>1, <1>2, <1>3, <1>4, <1>5, <1>6, <1>7, <1>8, <1>9, <1>10 DEF Next,
       Execute, File

\* Only finish writes of a success, and only that of its own request.
LEMMA SuccessStep ==
  ASSUME TypeOK, EndingFitsLabel, SuccessIsAnEnding, [Next]_vars
  PROVE  SuccessIsAnEnding'
  <1> USE OfIsTotal DEF Goto, Advance, host, work, remote, TypeOK, ControlTypes,
              EndingFitsLabel, SuccessIsAnEnding, OutcomeOf, Working, Cleaning
  <1>1. ASSUME NEW r \in Requests, Begin(r) PROVE SuccessIsAnEnding'
    BY <1>1 DEF Begin, MayBreak, Record, Proceed
  <1>2. ASSUME NEW r \in Requests, FileRecord(r) PROVE SuccessIsAnEnding'
    BY <1>2 DEF FileRecord, Record
  <1>3. ASSUME NEW r \in Requests, FilingFails(r) PROVE SuccessIsAnEnding'
    BY <1>3 DEF FilingFails, Record
  <1>4. ASSUME NEW r \in Requests,
               \/ TurnAway(r) \/ Checkout(r) \/ RestoreKept(r) \/ AskSlot(r)
               \/ QueueAnswers(r) \/ RunAgent(r) \/ Keep(r) \/ Judge(r) \/ Dismiss(r)
               \/ Push(r) \/ SpendPublished(r) \/ AwaitPreview(r) \/ Discard(r)
               \/ FreeSlot(r) \/ Unlock(r)
        PROVE  SuccessIsAnEnding'
    BY <1>4 DEF TurnAway, Proceed, Checkout, Branch, Throw, Finish, RestoreKept,
       Restore, ClearWip, Wip, WipBase, AskSlot, Granted, ProceedAs, QueueAnswers,
       RunAgent, Keep, kept, Judge, Dismiss, Spend, Push, SpendPublished,
       AwaitPreview, Discard, Forget, FreeSlot, Unlock
  <1>5. ASSUME NEW c \in Conversations, BringUpToDate(c) PROVE SuccessIsAnEnding'
    BY <1>5 DEF BringUpToDate, strands, kept
  <1>6. CASE Crash
    BY <1>6 DEF Crash, Forget
  <1>7. CASE UNCHANGED vars
    BY <1>7 DEF vars
  <1> QED
    BY <1>1, <1>2, <1>3, <1>4, <1>5, <1>6, <1>7 DEF Next, Execute, File

\* Another request gets at edits only through a branch or kept work, and there
\* they come only by their own request's Keep or Push.
LEMMA ConfinedStep ==
  ASSUME TypeOK, EndingFitsLabel, OwnEditsConfined, [Next]_vars
  PROVE  OwnEditsConfined'
  <1> USE OfIsTotal, SentinelsAreNoRequests DEF Goto, Advance, host, work, remote,
              TypeOK, ControlTypes, EditTypes, EndingFitsLabel, OwnEditsConfined,
              Confined, BeforeKeepOrPush, Unstarted, Working, Cleaning, Gone
  <1>1. ASSUME NEW r \in Requests, RestoreKept(r) PROVE OwnEditsConfined'
    <2> SUFFICES ASSUME NEW q \in Requests,
                        \/ pc'[q] \in BeforeKeepOrPush
                        \/ ending'[q] \in {"blocked", "cost_ceiling"}
                 PROVE  Confined(q)'
      BY DEF OwnEditsConfined
    <2>1. Confined(q)
      BY <1>1 DEF RestoreKept, Proceed, Throw, Finish
    <2>2. branch' = branch /\ \A c \in Conversations : wip'[c] \subseteq wip[c]
      BY <1>1 DEF RestoreKept, Restore, ClearWip
    <2>3. \A p \in Requests : tree'[p] \in {tree[p], wip[Of[p]]}
      BY <1>1 DEF RestoreKept, Restore, Wip
    <2> QED
      BY <2>1, <2>2, <2>3
  <1>2. ASSUME NEW r \in Requests, RunAgent(r) PROVE OwnEditsConfined'
    <2> SUFFICES ASSUME NEW q \in Requests,
                        \/ pc'[q] \in BeforeKeepOrPush
                        \/ ending'[q] \in {"blocked", "cost_ceiling"}
                 PROVE  Confined(q)'
      BY DEF OwnEditsConfined
    <2>1. Confined(q)
      BY <1>2 DEF RunAgent, Proceed, ProceedAs, Finish
    <2>2. branch' = branch /\ wip' = wip
      BY <1>2 DEF RunAgent
    <2>3. \A p \in Requests : tree'[p] \subseteq tree[p] \cup {p}
      BY <1>2 DEF RunAgent
    <2> QED
      BY <2>1, <2>2, <2>3
  <1>3. ASSUME NEW r \in Requests, Keep(r) PROVE OwnEditsConfined'
    BY <1>3 DEF Keep, kept, Finish
  <1>4. ASSUME NEW r \in Requests, Judge(r) PROVE OwnEditsConfined'
    BY <1>4 DEF Judge, ProceedAs, Throw, Finish
  <1>5. ASSUME NEW r \in Requests, Dismiss(r) PROVE OwnEditsConfined'
    BY <1>5 DEF Dismiss, Spend, ClearWip, Finish
  <1>6. ASSUME NEW r \in Requests, Push(r) PROVE OwnEditsConfined'
    <2> SUFFICES ASSUME NEW q \in Requests,
                        \/ pc'[q] \in BeforeKeepOrPush
                        \/ ending'[q] \in {"blocked", "cost_ceiling"}
                 PROVE  Confined(q)'
      BY DEF OwnEditsConfined
    <2>1. q # r /\ Confined(q)
      BY <1>6 DEF Push, Proceed, Throw, Finish
    <2>2. tree' = tree /\ wip' = wip
      BY <1>6 DEF Push, kept
    <2>3. branch' = branch \/ branch' = [branch EXCEPT ![Of[r]] = @ \cup tree[r]]
      BY <1>6, Zenon DEF Push
    <2> QED
      BY <2>1, <2>2, <2>3
  <1>7. ASSUME NEW r \in Requests, Discard(r) PROVE OwnEditsConfined'
    BY <1>7 DEF Discard, Forget, Proceed
  <1>8. ASSUME NEW r \in Requests,
               \/ Begin(r) \/ TurnAway(r) \/ Checkout(r) \/ AskSlot(r) \/ QueueAnswers(r)
               \/ SpendPublished(r) \/ AwaitPreview(r) \/ FreeSlot(r) \/ Unlock(r)
               \/ FileRecord(r) \/ FilingFails(r)
        PROVE  OwnEditsConfined'
    BY <1>8 DEF Begin, MayBreak, Record, Proceed, TurnAway, Checkout, Branch, Throw,
       Finish, AskSlot, Granted, ProceedAs, QueueAnswers, SpendPublished, Spend,
       ClearWip, AwaitPreview, FreeSlot, Unlock, FileRecord, FilingFails
  <1>9. ASSUME NEW c \in Conversations, BringUpToDate(c) PROVE OwnEditsConfined'
    BY <1>9 DEF BringUpToDate, strands, kept
  <1>10. CASE Crash
    BY <1>10 DEF Crash, Forget
  <1>11. CASE UNCHANGED vars
    BY <1>11 DEF vars
  <1> QED
    BY <1>1, <1>2, <1>3, <1>4, <1>5, <1>6, <1>7, <1>8, <1>9, <1>10, <1>11 DEF Next,
       Execute, File

\* While a request works alone nobody else touches the kept work of its
\* conversation, and it keeps or spends it as its tree accounts for.
LEMMA KeptStep ==
  ASSUME TypeOK, HolderIsAlone, BaseIsOnBranch, KeptIsAccountedFor, [Next]_vars
  PROVE  KeptIsAccountedFor'
  <1> USE OfIsTotal DEF Goto, Advance, host, work, remote, TypeOK, ControlTypes,
              EditTypes, HolderIsAlone, BaseIsOnBranch, KeptIsAccountedFor,
              Restored, Unstarted, Begun, Working, Cleaning, Gone, Branch, Wip,
              WipBase
  <1>1. ASSUME NEW r \in Requests, Begin(r) PROVE KeptIsAccountedFor'
    BY <1>1 DEF Begin, MayBreak, Record, Proceed
  <1>2. ASSUME NEW r \in Requests, Checkout(r) PROVE KeptIsAccountedFor'
    BY <1>2 DEF Checkout, Branch, Proceed, Throw, Finish
  <1>3. ASSUME NEW r \in Requests, RestoreKept(r) PROVE KeptIsAccountedFor'
    BY <1>3 DEF RestoreKept, Restore, ClearWip, Wip, WipBase, Proceed, Throw, Finish
  <1>4. ASSUME NEW r \in Requests, RunAgent(r) PROVE KeptIsAccountedFor'
    BY <1>4 DEF RunAgent, ProceedAs, Proceed, Finish
  <1>5. ASSUME NEW r \in Requests, Keep(r) PROVE KeptIsAccountedFor'
    BY <1>5 DEF Keep, kept, Finish
  <1>6. ASSUME NEW r \in Requests, Dismiss(r) PROVE KeptIsAccountedFor'
    BY <1>6 DEF Dismiss, Spend, ClearWip, Finish
  <1>7. ASSUME NEW r \in Requests, Push(r) PROVE KeptIsAccountedFor'
    BY <1>7 DEF Push, Branch, kept, Proceed, Throw, Finish
  <1>8. ASSUME NEW r \in Requests, SpendPublished(r) PROVE KeptIsAccountedFor'
    BY <1>8 DEF SpendPublished, Spend, ClearWip, ProceedAs
  <1>9. ASSUME NEW r \in Requests, Discard(r) PROVE KeptIsAccountedFor'
    BY <1>9 DEF Discard, Forget, Proceed
  <1>10. ASSUME NEW r \in Requests,
               \/ TurnAway(r) \/ AskSlot(r) \/ QueueAnswers(r) \/ Judge(r)
               \/ AwaitPreview(r) \/ FreeSlot(r) \/ Unlock(r) \/ FileRecord(r)
               \/ FilingFails(r)
        PROVE  KeptIsAccountedFor'
    BY <1>10 DEF TurnAway, Proceed, AskSlot, Granted, ProceedAs, Finish,
       QueueAnswers, Judge, Throw, AwaitPreview, FreeSlot, Unlock, FileRecord,
       Record, FilingFails
  <1>11. ASSUME NEW c \in Conversations, BringUpToDate(c) PROVE KeptIsAccountedFor'
    BY <1>11 DEF BringUpToDate, strands, kept
  <1>12. CASE Crash
    BY <1>12 DEF Crash, Forget
  <1>13. CASE UNCHANGED vars
    BY <1>13 DEF vars
  <1> QED
    BY <1>1, <1>2, <1>3, <1>4, <1>5, <1>6, <1>7, <1>8, <1>9, <1>10, <1>11, <1>12,
       <1>13 DEF Next, Execute, File

-------------------------------------------------------------------------------
\* Nothing has begun: there is nothing to be held, kept, refused or announced.
LEMMA IInvInit == Init => IInv
  <1> SUFFICES ASSUME Init PROVE IInv
    OBVIOUS
  <1>1. TypeOK
    BY TypeInit
  <1>2. StageFitsLabel /\ EndingFitsLabel /\ HolderIsAlone /\ SlotFitsLabel
    BY SentinelsAreNoRequests
       DEF Init, StageFitsLabel, EndingFitsLabel, HolderIsAlone, SlotFitsLabel, Unstarted,
           Begun, Working, Cleaning
  <1>3. PushedWasAccepted /\ SuccessIsAnEnding
    BY DEF Init, PushedWasAccepted, SuccessIsAnEnding
  <1>4. OwnEditsConfined
    BY DEF Init, OwnEditsConfined, Confined
  <1>5. BaseIsOnBranch /\ KeptIsAccountedFor
    BY OfIsTotal
       DEF Init, BaseIsOnBranch, KeptIsAccountedFor, Restored, Unstarted, Branch, Wip, WipBase
  <1> QED
    BY <1>1, <1>2, <1>3, <1>4, <1>5 DEF IInv

\* Each conjunct is preserved with the help of those its own lemma names.
LEMMA IInvStep == IInv /\ [Next]_vars => IInv'
  BY ControlTypesStep, EditTypesStep, StageStep, EndingStep, HolderStep, SlotStep,
     PushedStep, SuccessStep, ConfinedStep, BaseStep, KeptStep DEF IInv, TypeOK

\* The inductive invariant, from which every theorem below follows.
THEOREM Invariance == Spec => []IInv
  BY IInvInit, IInvStep, PTL DEF Spec

-------------------------------------------------------------------------------
\* However many requests a site gets: no slot of the host is held outside the
\* site's lock, unless a live request has lost it (run.ts, the finally block).
THEOREM SlotsAreUnderTheLock == Spec => []SlotWithinLock
  <1>1. IInv => SlotWithinLock
    BY DEF IInv, TypeOK, ControlTypes, HolderIsAlone, SlotFitsLabel, SlotWithinLock,
           Begun, Working, Cleaning
  <1> QED
    BY Invariance, <1>1, PTL

\* A working request is the one its conversation announces, however late its
\* predecessors' records come (bus.ts, finish in run.ts).
THEOREM WorkIsAnnounced == Spec => []LiveRequestIsAnnounced
  <1>1. IInv => LiveRequestIsAnnounced
    BY DEF IInv, HolderIsAlone, LiveRequestIsAnnounced
  <1> QED
    BY Invariance, <1>1, PTL

\* A record of success is about a change the gate let through and the branch has.
THEOREM SuccessesArePublished == Spec => []SuccessIsPublished
  <1>1. IInv => SuccessIsPublished
    BY DEF IInv, TypeOK, ControlTypes, PushedWasAccepted, SuccessIsAnEnding, Published,
           Branch, RecordsOf, SuccessIsPublished
  <1> QED
    BY Invariance, <1>1, PTL

\* What a verdict refused is neither on a branch nor among kept work, ever after.
THEOREM RefusalsAreFinal == Spec => []RefusedWorkIsGone
  <1>1. IInv => RefusedWorkIsGone
    BY DEF IInv, OwnEditsConfined, Confined, RefusedWorkIsGone
  <1> QED
    BY Invariance, <1>1, PTL

-------------------------------------------------------------------------------
\* No label leads to a step the stage machine refuses.
LEMMA LegalAdvanceStep ==
  ASSUME IInv, [Next]_vars
  PROVE  LegalAdvance
  <1> USE DEF Goto, Advance, host, work, remote, IInv, TypeOK, ControlTypes,
              StageFitsLabel, EndingFitsLabel, LegalAdvance, IsLegal, OutcomeOf,
              Terminal, Unstarted
  <1>1. ASSUME NEW r \in Requests, AskSlot(r) PROVE LegalAdvance
    BY <1>1 DEF AskSlot, Granted, ProceedAs, Finish
  <1>2. ASSUME NEW r \in Requests, QueueAnswers(r) PROVE LegalAdvance
    BY <1>2 DEF QueueAnswers, Granted, ProceedAs, Finish
  <1>3. ASSUME NEW r \in Requests, RunAgent(r) PROVE LegalAdvance
    BY <1>3 DEF RunAgent, ProceedAs, Proceed, Finish
  <1>4. ASSUME NEW r \in Requests, Judge(r) PROVE LegalAdvance
    BY <1>4 DEF Judge, ProceedAs, Throw, Finish
  <1>5. ASSUME NEW r \in Requests, SpendPublished(r) PROVE LegalAdvance
    BY <1>5 DEF SpendPublished, Spend, ClearWip, ProceedAs
  <1>6. ASSUME NEW r \in Requests, AwaitPreview(r) PROVE LegalAdvance
    BY <1>6 DEF AwaitPreview, Throw, Finish
  <1>7. ASSUME NEW r \in Requests,
               \/ Begin(r) \/ TurnAway(r) \/ Checkout(r) \/ RestoreKept(r) \/ Keep(r)
               \/ Dismiss(r) \/ Push(r) \/ Discard(r) \/ FreeSlot(r) \/ Unlock(r)
               \/ FileRecord(r) \/ FilingFails(r)
        PROVE  LegalAdvance
    BY <1>7 DEF Begin, MayBreak, Record, Proceed, TurnAway, Checkout, Branch, Throw,
       Finish, RestoreKept, Restore, ClearWip, Wip, WipBase, Keep, kept, Dismiss,
       Spend, Push, Discard, Forget, FreeSlot, Unlock, FileRecord, FilingFails
  <1>8. ASSUME NEW c \in Conversations, BringUpToDate(c) PROVE LegalAdvance
    BY <1>8 DEF BringUpToDate, strands, kept
  <1>9. CASE Crash
    BY <1>9 DEF Crash, Forget
  <1>10. CASE UNCHANGED vars
    BY <1>10 DEF vars
  <1> QED
    BY <1>1, <1>2, <1>3, <1>4, <1>5, <1>6, <1>7, <1>8, <1>9, <1>10 DEF Next,
       Execute, File

\* createStageMachine never throws in the middle of a request (state.ts).
THEOREM StagesAdvanceLegally == Spec => StageAdvancesLegally
  <1>1. IInv /\ [Next]_vars => [LegalAdvance]_vars
    BY LegalAdvanceStep
  <1> QED
    BY Invariance, <1>1, PTL DEF Spec, StageAdvancesLegally

\* Only Push and a publication add to a branch.
LEMMA JudgedArrivalStep ==
  ASSUME IInv, [Next]_vars
  PROVE  JudgedArrival
  <1> USE OfIsTotal DEF Goto, Advance, host, work, remote, IInv, TypeOK, EditTypes,
              PushedWasAccepted, JudgedArrival
  <1>1. ASSUME NEW r \in Requests, Push(r) PROVE JudgedArrival
    BY <1>1 DEF Push, Branch, kept, Proceed, Throw, Finish
  <1>2. ASSUME NEW r \in Requests,
               \/ Begin(r) \/ TurnAway(r) \/ Checkout(r) \/ RestoreKept(r) \/ AskSlot(r)
               \/ QueueAnswers(r) \/ RunAgent(r) \/ Keep(r) \/ Judge(r) \/ Dismiss(r)
               \/ SpendPublished(r) \/ AwaitPreview(r) \/ Discard(r) \/ FreeSlot(r)
               \/ Unlock(r) \/ FileRecord(r) \/ FilingFails(r)
        PROVE  JudgedArrival
    BY <1>2 DEF Begin, MayBreak, Record, Proceed, TurnAway, Checkout, Branch, Throw,
       Finish, RestoreKept, Restore, ClearWip, Wip, WipBase, AskSlot, Granted,
       ProceedAs, QueueAnswers, RunAgent, Keep, kept, Judge, Dismiss, Spend,
       SpendPublished, AwaitPreview, Discard, Forget, FreeSlot, Unlock, FileRecord,
       FilingFails
  <1>3. ASSUME NEW c \in Conversations, BringUpToDate(c) PROVE JudgedArrival
    BY <1>3 DEF BringUpToDate, strands, kept
  <1>4. CASE Crash
    BY <1>4 DEF Crash, Forget
  <1>5. CASE UNCHANGED vars
    BY <1>5 DEF vars
  <1> QED
    BY <1>1, <1>2, <1>3, <1>4, <1>5 DEF Next, Execute, File

\* Nothing of an agent's reaches a branch without the gate's verdict in the very
\* request that pushes it, restored work included (run.ts, wip.ts).
THEOREM OnlyJudgedWorkIsPublished == Spec => PublishedWasJudged
  <1>1. IInv /\ [Next]_vars => [JudgedArrival]_vars
    BY JudgedArrivalStep
  <1> QED
    BY Invariance, <1>1, PTL DEF Spec, PublishedWasJudged

\* Kept work goes when it is stale, refused, or on the branch.
LEMMA SettledDepartureStep ==
  ASSUME IInv, [Next]_vars
  PROVE  SettledDeparture
  <1> USE OfIsTotal DEF Goto, Advance, host, work, remote, IInv, TypeOK,
              ControlTypes, EditTypes, HolderIsAlone, BaseIsOnBranch,
              PushedWasAccepted, KeptIsAccountedFor, Restored, Unstarted, Branch,
              Wip, WipBase, SettledDeparture
  <1>1. ASSUME NEW r \in Requests, RestoreKept(r) PROVE SettledDeparture
    BY <1>1 DEF RestoreKept, Restore, ClearWip, Wip, WipBase, Proceed, Throw, Finish
  <1>2. ASSUME NEW r \in Requests, Keep(r) PROVE SettledDeparture
    BY <1>2 DEF Keep, kept, Finish
  <1>3. ASSUME NEW r \in Requests, Dismiss(r) PROVE SettledDeparture
    BY <1>3 DEF Dismiss, Spend, ClearWip, Finish
  <1>4. ASSUME NEW r \in Requests, SpendPublished(r) PROVE SettledDeparture
    BY <1>4 DEF SpendPublished, Spend, ClearWip, ProceedAs
  <1>5. ASSUME NEW r \in Requests,
               \/ Begin(r) \/ TurnAway(r) \/ Checkout(r) \/ AskSlot(r) \/ QueueAnswers(r)
               \/ RunAgent(r) \/ Judge(r) \/ Push(r) \/ AwaitPreview(r) \/ Discard(r)
               \/ FreeSlot(r) \/ Unlock(r) \/ FileRecord(r) \/ FilingFails(r)
        PROVE  SettledDeparture
    BY <1>5 DEF Begin, MayBreak, Record, Proceed, TurnAway, Checkout, Branch, Throw,
       Finish, AskSlot, Granted, ProceedAs, QueueAnswers, RunAgent, Judge, Push,
       kept, AwaitPreview, Discard, Forget, FreeSlot, Unlock, FileRecord,
       FilingFails
  <1>6. ASSUME NEW c \in Conversations, BringUpToDate(c) PROVE SettledDeparture
    BY <1>6 DEF BringUpToDate, strands, kept
  <1>7. CASE Crash
    BY <1>7 DEF Crash, Forget
  <1>8. CASE UNCHANGED vars
    BY <1>8 DEF vars
  <1> QED
    BY <1>1, <1>2, <1>3, <1>4, <1>5, <1>6, <1>7, <1>8 DEF Next, Execute, File

\* No failure, crash or interruption loses kept work, unless a live request has
\* lost its lock (wip.ts, spendKeptWork in run.ts).
THEOREM KeptWorkSurvives == Spec => KeptWorkIsNotLost
  <1>1. IInv /\ [Next]_vars => [SettledDeparture]_vars
    BY SettledDepartureStep
  <1> QED
    BY Invariance, <1>1, PTL DEF Spec, KeptWorkIsNotLost

-------------------------------------------------------------------------------
(* What is recorded is what happened *)

\* A request whose ending is being filed is past everything that decides endings, and
\* the stage machine says of it what its record will.
FilingFits ==
    \A r \in Requests : filing[r] # "none" =>
        /\ pc[r] \in Cleaning \cup Gone
        /\ stage[r] = OutcomeOf(ending[r])

\* What a record says of its request, and of where it is.
Truthful(record) ==
    IF record.outcome = "abandoned"
    THEN overran \/ pc[record.request] \in Gone
    ELSE /\ filing[record.request] \in {"filed", "lost"}
         /\ record.outcome = OutcomeOf(ending[record.request])
         /\ record.conversation = Of[record.request]

RecordsFit == FilingFits /\ \A record \in records : Truthful(record)

\* A request is filed as it is finished, and records are written by filing it or by
\* breaking its lock.
LEMMA RecordsStep ==
  ASSUME IInv, RecordsFit, [Next]_vars
  PROVE  RecordsFit'
  <1> USE OfIsTotal, SentinelsAreNoRequests DEF Goto, Advance, host, work, remote, IInv, TypeOK,
              ControlTypes, RecordsFit, FilingFits, Truthful, OutcomeOf, Working, Cleaning, Gone
  <1>1. ASSUME NEW r \in Requests, Begin(r) PROVE RecordsFit'
    <2>1. /\ pc[r] = "idle" /\ pc' = [pc EXCEPT ![r] = "prepare"]
          /\ UNCHANGED <<stage, ending, filing>>
          /\ overran' = (overran \/ (lock # None /\ pc[lock] \notin Gone))
      BY <1>1 DEF Begin, Proceed
    <2>2. \A q \in Requests : pc[q] \in Cleaning \cup Gone => pc'[q] = pc[q]
      BY <2>1
    <2>3. FilingFits'
      BY <2>1, <2>2
    <2>4. \A record \in records : Truthful(record)'
      BY <2>1, <2>2
    <2>5. records' = records \/ (lock # None /\ Record(lock, Of[r], "abandoned"))
      BY <1>1 DEF Begin, MayBreak
    <2>6. lock # None => overran' \/ pc'[lock] \in Gone
      BY <2>1, <2>2
    <2>7. \A record \in records' \ records : Truthful(record)'
      BY <2>5, <2>6 DEF Record
    <2> QED
      BY <2>3, <2>4, <2>7
  <1>2. ASSUME NEW r \in Requests, FileRecord(r) PROVE RecordsFit'
    BY <1>2 DEF FileRecord, Record
  <1>3. ASSUME NEW r \in Requests, FilingFails(r) PROVE RecordsFit'
    BY <1>3 DEF FilingFails, Record
  <1>4. ASSUME NEW r \in Requests,
               \/ TurnAway(r) \/ Checkout(r) \/ RestoreKept(r) \/ AskSlot(r)
               \/ QueueAnswers(r) \/ RunAgent(r) \/ Keep(r)
        PROVE  RecordsFit'
    BY <1>4 DEF TurnAway, Proceed, Checkout, Throw, Finish, RestoreKept, AskSlot, Granted,
       ProceedAs, QueueAnswers, RunAgent, Keep
  <1>5. ASSUME NEW r \in Requests,
               \/ Judge(r) \/ Dismiss(r) \/ Push(r) \/ SpendPublished(r) \/ AwaitPreview(r)
        PROVE  RecordsFit'
    BY <1>5 DEF Proceed, Throw, Finish, ProceedAs, Judge, Dismiss, Push, SpendPublished,
       AwaitPreview
  <1>6. ASSUME NEW r \in Requests, Discard(r) \/ FreeSlot(r) \/ Unlock(r)
        PROVE  RecordsFit'
    BY <1>6 DEF Proceed, Discard, FreeSlot, Unlock
  <1>7. ASSUME NEW c \in Conversations, BringUpToDate(c) PROVE RecordsFit'
    BY <1>7 DEF BringUpToDate, strands
  <1>8. CASE Crash
    BY <1>8 DEF Crash
  <1>9. CASE UNCHANGED vars
    BY <1>9 DEF vars
  <1> QED
    BY <1>1, <1>2, <1>3, <1>4, <1>5, <1>6, <1>7, <1>8, <1>9 DEF Next, Execute, File

\* Of the endings a conversation shows: a request has at most one of its own, in its own
\* conversation, and it is the one the browsers were told; `abandoned` is said of no
\* request that is at work, unless it has lost its lock to age (run.ts finish; state.ts;
\* begin.ts recordAbandoned).
RecordsAreTrue ==
    \A a \in records :
        /\ a.outcome = "abandoned" => overran \/ pc[a.request] \in Gone
        /\ a.outcome # "abandoned" =>
            /\ a.conversation = Of[a.request] /\ a.outcome = stage[a.request]
            /\ \A b \in RecordsOf(a.request) : b.outcome \in {"abandoned", a.outcome}

\* However requests fail, crash, are overtaken and broken: what RecordsAreTrue says holds.
THEOREM RecordsTellTheTruth == Spec => []RecordsAreTrue
  <1>1. Init => RecordsFit
    BY DEF Init, RecordsFit, FilingFits
  <1>2. IInv /\ RecordsFit /\ [Next]_vars => RecordsFit'
    BY RecordsStep
  <1>3. IInv /\ RecordsFit => RecordsAreTrue
    BY DEF IInv, TypeOK, ControlTypes, RecordsFit, FilingFits, Truthful, RecordsAreTrue, RecordsOf
  <1> QED
    BY <1>1, <1>2, <1>3, Invariance, PTL DEF Spec
===============================================================================
