------------------------------ MODULE Publication ------------------------------
(***************************************************************************)
(* src/lib/jobs/publication.ts: publishing a conversation's change and     *)
(* taking it back, beside the change requests that push to its branch, the *)
(* host that builds previews and developers who commit to the site.        *)
(*                                                                         *)
(* The site is its history of commits, a commit's name is its place there. *)
(* A commit's tree is the set of edits it contains.  A branch is its own   *)
(* edits and the site commit it stands on.                                 *)
(*                                                                         *)
(* Change requests are seen from the outside: RequestRun has their inside. *)
(***************************************************************************)
EXTENDS Integers, Sequences, FiniteSets

CONSTANTS
    Conversations,
    Requests,       \* change requests, each made once
    Of,             \* the conversation of each request
    Publications,   \* presses of the publish and undo buttons
    Developers,     \* commits developers make, each once
    PageSize,       \* comments the repository host answers with, the oldest ones
    None            \* no lock, no conversation, no deploy

ASSUME OfIsTotal == Of \in [Requests -> Conversations]
ASSUME NoneIsNothing == None \notin Requests
ASSUME PageIsNumber == PageSize \in Nat

VARIABLES
    site,       \* the default branch: the tree of each of its commits
    branch,     \* each conversation's branch: its edits, the commit it stands on
    merged,     \* mergeCommitSha of each conversation, 0 while it is open
    comments,   \* on each conversation, in order: the records, and what else is said
    deploy,     \* the newest deploy the host lists for each conversation
    unlisted,   \* conversations with a push the host has not listed yet
    lock,       \* whom the site's lock names
    request,    \* each change request: where it is, its tip, its outcome
    pub,        \* each publication: where it is and what it has read
    shown,      \* history: the tips that had a ready preview
    excused,    \* history: conversations whose publication was overtaken
    halfway     \* history: those brought up to date for a publish that then ended

repo  == <<site, branch, merged, comments>>
host  == <<deploy, unlisted>>
history == <<excused, halfway>>
vars  == <<site, branch, merged, comments, deploy, unlisted, lock, request, pub,
           shown, excused, halfway>>

Edits == Requests \cup Developers
Tips  == [work : SUBSET Requests, base : Nat]
NoTip == [work |-> {}, base |-> 1]
Tree(tip) == site[tip.base] \cup tip.work

\* A request, a publication, that has nothing under way: not yet, or not any more.
Resting(how) == [at |-> how, tip |-> NoTip, outcome |-> "none"]
Unpressed(how) == [at |-> how, kind |-> "none", conv |-> None, tip |-> NoTip]

Init ==
    /\ site = << {} >>
    /\ branch = [c \in Conversations |-> NoTip]
    /\ merged = [c \in Conversations |-> 0]
    /\ comments = [c \in Conversations |-> <<>>]
    /\ deploy = [c \in Conversations |-> None]
    /\ unlisted = {}
    /\ lock = None
    /\ request = [r \in Requests |-> Resting("idle")]
    /\ pub = [p \in Publications |-> Unpressed("idle")]
    /\ shown = [c \in Conversations |-> {}]
    /\ excused = {}
    /\ halfway = {}

\* Publications between reading the conversation and changing the site.
Deciding(p) == pub[p].at \in {"gating", "comparing", "updating", "pushing", "previewing",
                              "acting", "reverting"}

\* The conversation c, when a publication of it is under way.
Overtaken(c) == IF \E p \in Publications : Deciding(p) /\ pub[p].conv = c THEN {c} ELSE {}

\* The conversation c, when a request of it is in one of these places.
Busy(c, places) ==
    IF \E r \in Requests : Of[r] = c /\ request[r].at \in places THEN {c} ELSE {}

-------------------------------------------------------------------------------
(* The comments, which are all the memory there is of what became of a change *)

\* Records of change requests, by their outcome, and of publications.
Records == {"previewed", "failed", "publish", "undo"}
Comments == Records \cup {"remark"}

Says(c, comment) == comments' = [comments EXCEPT ![c] = Append(@, comment)]

\* listComments asks for no page, so it is answered with the first.
FirstPage(c) ==
    SubSeq(comments[c], 1, IF Len(comments[c]) < PageSize THEN Len(comments[c]) ELSE PageSize)

\* The last of these comments that is of this kind or one of the others is of this kind.
LastIs(kind, others, s) ==
    \E i \in DOMAIN s : s[i] = kind /\ \A j \in DOMAIN s : j > i => s[j] \notin others

\* A comment without a record: a client's words, the hosting provider's announcement
\* of a build, a developer's note.  Past the first page it is as if it were not there.
Remark(c) ==
    /\ Len(comments[c]) < PageSize
    /\ Says(c, "remark")
    /\ UNCHANGED <<site, branch, merged, host, lock, request, pub, shown, history>>

-------------------------------------------------------------------------------
(* The hosting provider, and waiting for its previews *)

\* A push to a branch starts a build, listed some time later.
ListDeploy(c) ==
    /\ c \in unlisted
    /\ unlisted' = unlisted \ {c}
    /\ deploy' = [deploy EXCEPT ![c] = [tip |-> branch[c], state |-> "building"]]
    /\ UNCHANGED <<repo, lock, request, pub, shown, history>>

Build(c) ==
    /\ deploy[c] # None
    /\ deploy[c].state = "building"
    /\ \/ /\ deploy' = [deploy EXCEPT ![c].state = "ready"]
          /\ shown' = [shown EXCEPT ![c] = @ \cup {deploy[c].tip}]
       \/ /\ deploy' = [deploy EXCEPT ![c].state = "error"]
          /\ UNCHANGED shown
    /\ UNCHANGED <<repo, unlisted, lock, request, pub, history>>

\* A bug Verdicts could have: the deploy's state is passed on as the verdict.
Verdicts_Raw(c) == {"failed"} \cup IF deploy[c] # None THEN {deploy[c].state} ELSE {}

\* waitForPreview: the newest deploy of the pull request, whichever commit it
\* was built from, or the deadline.
Verdicts(c) ==
    {"failed"} \cup IF deploy[c] # None /\ deploy[c].state = "ready"
                    THEN {"previewed"} ELSE {}

\* The deploy that answers was built from another commit than the one asked about.
Mistakes(c, tip) == IF deploy[c] # None /\ deploy[c].tip # tip THEN {c} ELSE {}

-------------------------------------------------------------------------------
(* Change requests, from the outside *)

End(r, outcome) == request' = [request EXCEPT ![r].at = "ended", ![r].outcome = outcome]

\* A request takes the lock, or breaks that of a dead one and writes that one's
\* record, into its own conversation.  It checks out the branch, and starts in any
\* conversation, also a published one.  A record not written yet will come late.
Start(r) ==
    /\ request[r].at = "idle"
    /\ lock \in {None} \cup {h \in Requests : request[h].at = "dead"}
    /\ lock' = r
    /\ \/ UNCHANGED comments
       \/ lock # None /\ Says(Of[r], "failed")
    /\ request' = [request EXCEPT ![r].at = "working", ![r].tip = branch[Of[r]]]
    /\ excused' = excused \cup Overtaken(Of[r]) \cup Busy(Of[r], {"ended"})
    /\ UNCHANGED <<site, branch, merged, host, pub, shown, halfway>>

\* Agent, gate, push: the request fails, or its change is on the branch.  The
\* push is not forced, so a branch that has moved since the checkout refuses it.
Work(r) ==
    /\ request[r].at = "working"
    /\ \/ End(r, "failed") /\ UNCHANGED <<branch, unlisted>>
       \/ /\ branch[Of[r]] = request[r].tip
          /\ branch' = [branch EXCEPT ![Of[r]].work = @ \cup {r}]
          /\ unlisted' = unlisted \cup {Of[r]}
          /\ request' = [request EXCEPT ![r].at = "building", ![r].tip = branch'[Of[r]]]
    /\ UNCHANGED <<site, merged, comments, deploy, lock, pub, shown, history>>

AwaitPreview(r) ==
    /\ request[r].at = "building"
    /\ \E v \in Verdicts(Of[r]) :
        /\ End(r, v)
        /\ excused' = IF v = "previewed"
                      THEN excused \cup Mistakes(Of[r], request[r].tip) ELSE excused
    /\ UNCHANGED <<repo, host, lock, pub, shown, halfway>>

\* finish, not awaited: the record comment may come after the unlocking, or be
\* lost.  A publication that decides meanwhile has not read it.
File(r) ==
    /\ request[r].at = "ended"
    /\ request' = [request EXCEPT ![r] = Resting("over")]
    /\ \/ /\ Says(Of[r], request[r].outcome)
          /\ excused' = excused \cup Overtaken(Of[r])
       \/ excused' = excused \cup {Of[r]} /\ UNCHANGED comments
    /\ UNCHANGED <<site, branch, merged, host, lock, pub, shown, halfway>>

Unlock(r) ==
    /\ lock = r
    /\ request[r].at \in {"ended", "over"}
    /\ lock' = None
    /\ UNCHANGED <<repo, host, request, pub, shown, history>>

-------------------------------------------------------------------------------
(* beginPublication *)

\* A bug PublishState could have: the best request decides, not the newest.
PublishState_Best(c) ==
    IF merged[c] # 0
    THEN IF LastIs("undo", {"publish"}, FirstPage(c)) THEN "undone" ELSE "published"
    ELSE IF \E i \in DOMAIN FirstPage(c) : FirstPage(c)[i] = "previewed"
         THEN "ready" ELSE "not_previewed"

\* selectPublishState: the newest request decides, of those on the first page.
PublishState(c) ==
    IF merged[c] # 0
    THEN IF LastIs("undo", {"publish"}, FirstPage(c)) THEN "undone" ELSE "published"
    ELSE IF LastIs("previewed", Records, FirstPage(c)) THEN "ready" ELSE "not_previewed"

Goto(p, to) == pub' = [pub EXCEPT ![p].at = to]
Ends(p) ==
    pub' = [pub EXCEPT ![p] = Unpressed("over")]
Conv(p) == pub[p].conv
Tip(p)  == branch[Conv(p)]

\* refuse: a publish needs a change that is ready, an undo one that is live.
\* A request that is still about its change or its record has overtaken it.
Begin(p, c, kind) ==
    /\ pub[p].at = "idle"
    /\ PublishState(c) = IF kind = "publish" THEN "ready" ELSE "published"
    /\ pub' = [pub EXCEPT ![p] = [at |-> "gating", kind |-> kind, conv |-> c, tip |-> NoTip]]
    /\ excused' = excused \cup Busy(c, {"working", "building", "ended"}) \cup Overtaken(c)
    /\ UNCHANGED <<repo, host, lock, request, shown, halfway>>

\* checkSafety of a publish: the lock is looked at, not taken.
InspectLock(p) ==
    /\ pub[p].at = "gating"
    /\ pub[p].kind = "publish"
    /\ IF lock = None THEN Goto(p, "comparing") ELSE Ends(p)
    /\ UNCHANGED <<repo, host, lock, request, shown, history>>

\* readChangeFreshness: is there a site commit the change lacks?
Compare(p) ==
    /\ pub[p].at = "comparing"
    /\ pub' = [pub EXCEPT ![p].at = IF Tip(p).base < Len(site) THEN "updating" ELSE "acting",
                          ![p].tip = Tip(p)]
    /\ UNCHANGED <<repo, host, lock, request, shown, history>>

\* mirror.bringUpToDate: the site's tip merged in a tree of its own, unless the
\* two conflict, or the branch has it already.
Update(p) ==
    /\ pub[p].at = "updating"
    /\ \/ pub' = [pub EXCEPT ![p].at = IF Tip(p).base < Len(site) THEN "pushing" ELSE "acting",
                             ![p].tip = [Tip(p) EXCEPT !.base = Len(site)]]
       \/ Ends(p)
    /\ UNCHANGED <<repo, host, lock, request, shown, history>>

\* The push is not forced: it needs the branch as it was merged.
Push(p) ==
    /\ pub[p].at = "pushing"
    /\ \/ /\ Tip(p).work = pub[p].tip.work
          /\ Tip(p).base < pub[p].tip.base
          /\ branch' = [branch EXCEPT ![Conv(p)] = pub[p].tip]
          /\ unlisted' = unlisted \cup {Conv(p)}
          /\ Goto(p, "previewing")
       \/ Ends(p) /\ UNCHANGED <<branch, unlisted>>
    /\ UNCHANGED <<site, merged, comments, deploy, lock, request, shown, history>>

AwaitRebuilt(p) ==
    /\ pub[p].at = "previewing"
    /\ \E v \in Verdicts(Conv(p)) :
        /\ IF v = "previewed" THEN Goto(p, "acting") ELSE Ends(p)
        /\ halfway' = IF v = "previewed" THEN halfway ELSE halfway \cup {Conv(p)}
        /\ excused' = IF v = "previewed"
                      THEN excused \cup Mistakes(Conv(p), pub[p].tip) ELSE excused
    /\ UNCHANGED <<repo, host, lock, request, shown>>

\* mergePullRequest names no commit: it merges what the branch holds by now into
\* what the site is by now.  The host refuses a conflict, and a second merge.
Merge(p) ==
    /\ pub[p].at = "acting"
    /\ pub[p].kind = "publish"
    /\ \/ /\ merged[Conv(p)] = 0
          /\ site' = Append(site, site[Len(site)] \cup Tip(p).work)
          /\ merged' = [merged EXCEPT ![Conv(p)] = Len(site')]
          /\ excused' = IF Tip(p) # pub[p].tip \/ Len(site) # pub[p].tip.base
                        THEN excused \cup {Conv(p)} ELSE excused
          /\ Goto(p, "recording") \/ Ends(p)
       \/ Ends(p) /\ UNCHANGED <<site, merged, excused>>
    /\ UNCHANGED <<branch, comments, host, lock, request, shown, halfway>>

\* checkSafety of an undo: the site's tip must still be the merge.
CompareTip(p) ==
    /\ pub[p].at = "gating"
    /\ pub[p].kind = "undo"
    /\ IF Len(site) = merged[Conv(p)] THEN Goto(p, "acting") ELSE Ends(p)
    /\ UNCHANGED <<repo, host, lock, request, shown, history>>

\* revertCommit: the tip is read again, and becomes the new commit's parent.
ReadTip(p) ==
    /\ pub[p].at = "acting"
    /\ pub[p].kind = "undo"
    /\ IF Len(site) = merged[Conv(p)]
       THEN pub' = [pub EXCEPT ![p].at = "reverting", ![p].tip.base = Len(site)]
       ELSE Ends(p)
    /\ UNCHANGED <<repo, host, lock, request, shown, history>>

\* A bug Before could have: the second parent, the change itself.
Before_SecondParent(c) == Tree(branch[c])

\* The tree the site had immediately before c was merged.
Before(c) == site[merged[c] - 1]

\* A bug Revert could have: the site's branch is updated by force.
Revert_Forced(p) ==
    /\ pub[p].at = "reverting"
    /\ site' = Append(site, Before(Conv(p)))
    /\ Goto(p, "recording")
    /\ UNCHANGED <<branch, merged, comments, host, lock, request, shown, history>>

\* updateRef is not forced: it needs the parent to be the tip still.  Its answer
\* may be lost.
Revert(p) ==
    /\ pub[p].at = "reverting"
    /\ \/ /\ Len(site) = pub[p].tip.base
          /\ site' = Append(site, Before(Conv(p)))
          /\ Goto(p, "recording") \/ Ends(p)
       \/ Ends(p) /\ UNCHANGED site
    /\ UNCHANGED <<branch, merged, comments, host, lock, request, shown, history>>

\* recordPublication: the comment may fail, and the act stands without it.  What
\* watchBuild finds out afterwards is told on the bus and changes nothing here.
RecordPublication(p) ==
    /\ pub[p].at = "recording"
    /\ Says(Conv(p), pub[p].kind) \/ UNCHANGED comments
    /\ Ends(p)
    /\ UNCHANGED <<site, branch, merged, host, lock, request, shown, history>>

\* Somebody commits to the site.
Commit(d) ==
    /\ \A i \in DOMAIN site : d \notin site[i]
    /\ site' = Append(site, site[Len(site)] \cup {d})
    /\ UNCHANGED <<branch, merged, comments, host, lock, request, pub, shown, history>>

Alive(r) == request[r].at \in {"working", "building", "ended"}

\* The process restarts: requests and publications are gone.  What a request has
\* pushed stays on the branch, and the lock still names it.
Restart ==
    /\ request' = [r \in Requests |-> IF Alive(r) THEN Resting("dead") ELSE request[r]]
    /\ pub' = [p \in Publications |->
                 IF pub[p].at = "idle" THEN pub[p] ELSE Unpressed("over")]
    /\ excused' = excused \cup {Of[r] : r \in {q \in Requests : Alive(q)}}
    /\ halfway' = halfway \cup {Conv(p) : p \in {q \in Publications :
                                    pub[q].at = "previewing"}}
    /\ UNCHANGED <<repo, host, lock, shown>>

Publish(p) ==
    \/ \E c \in Conversations, kind \in {"publish", "undo"} : Begin(p, c, kind)
    \/ InspectLock(p) \/ Compare(p) \/ Update(p) \/ Push(p) \/ AwaitRebuilt(p) \/ Merge(p)
    \/ CompareTip(p) \/ ReadTip(p) \/ Revert(p)
    \/ RecordPublication(p)

Change(r) == Start(r) \/ Work(r) \/ AwaitPreview(r) \/ File(r) \/ Unlock(r)

Next ==
    \/ \E p \in Publications : Publish(p)
    \/ \E r \in Requests : Change(r)
    \/ \E c \in Conversations : ListDeploy(c) \/ Build(c) \/ Remark(c)
    \/ \E d \in Developers : Commit(d)
    \/ Restart

Spec == Init /\ [][Next]_vars
-------------------------------------------------------------------------------
(* Properties *)

\* The types of the state; what anybody has read of the site is part of it.
TypeOK ==
    /\ site \in Seq(SUBSET Edits)
    /\ branch \in [Conversations -> Tips]
    /\ \A c \in Conversations : branch[c].base \in DOMAIN site
    /\ merged \in [Conversations -> 0..Len(site)]
    /\ comments \in [Conversations -> Seq(Comments)]
    /\ unlisted \subseteq Conversations
    /\ \A c \in Conversations :
        deploy[c] = None \/ deploy[c] \in [tip : Tips, state : {"building", "ready", "error"}]
    /\ lock \in Requests \cup {None}
    /\ request \in [Requests -> [at : {"idle", "working", "building", "ended", "over", "dead"},
                                tip : Tips, outcome : {"none", "previewed", "failed"}]]
    /\ pub \in [Publications ->
                 [at : {"idle", "gating", "comparing", "updating", "pushing", "previewing",
                        "acting", "reverting", "recording", "over"},
                  kind : {"none", "publish", "undo"}, conv : Conversations \cup {None},
                  tip : Tips]]
    /\ shown \in [Conversations -> SUBSET Tips]
    /\ excused \cup halfway \subseteq Conversations

\* What a publish made of the site had been built and shown to the client.
WasShown(c) == \E t \in shown[c] : site[merged[c]] = Tree(t)

\* Conversations with a record that no reader of them is shown.
Overlong ==
    {c \in Conversations : \E i \in DOMAIN comments[c] : i > PageSize /\ comments[c][i] \in Records}

\* Unless a change request, another publication, a lost record or the site itself
\* overtook it, a wait was answered by a deploy of another commit, or a record lies
\* past the page that is read, a publish puts live exactly what was previewed: as the
\* client saw it, or brought up to date.  (conversations.ts selectPublishState,
\* publication.ts.)
UndisturbedPublishWasShown ==
    \A c \in Conversations \ (excused \cup halfway \cup Overlong) :
        merged[c] # 0 => WasShown(c)

\* No step takes away from the site anything but the change of one conversation,
\* and of the one that was put live last: what others have put there stays.
NothingElseIsTakenBack ==
    [][\/ site[Len(site)] \subseteq site'[Len(site')]
       \/ \E c \in Conversations :
            merged[c] = Len(site) /\ site'[Len(site')] = Before(c)]_vars

\* The edits the merge of c added to the site.
Brought(c) == site[merged[c]] \ site[merged[c] - 1]

\* What a conversation says of its change is what the site has: once it reads as
\* taken back, nothing of what it put live is on the site.
UndoneIsNotLive ==
    \A c \in Conversations :
        PublishState(c) = "undone" => site[Len(site)] \cap Brought(c) = {}

\* Documented, and not so: "the preview is rebuilt from the result, and only then
\* does the publish go ahead" (publication.ts).
OnlyTheRebuiltGoesLive ==
    \A c \in Conversations \ (excused \cup Overlong) : merged[c] # 0 => WasShown(c)
===============================================================================
