-------------------------------- MODULE Progress --------------------------------
(***************************************************************************)
(* How the progress of a request reaches the client.                       *)
(*                                                                         *)
(* The server: lib/jobs/bus.ts, the stages and endings that run.ts and     *)
(* publication.ts publish on it, the comments the endings are kept in, and *)
(* the stream route that replays the comments and then follows the bus.    *)
(*                                                                         *)
(* The page: app/(client)/c/[number]/page.tsx renders a snapshot,          *)
(* useConversationStream.ts folds what the route sends into a state, and   *)
(* ConversationView.tsx with its composer and publish controls decides     *)
(* from both what the client sees and may do.                              *)
(*                                                                         *)
(* One conversation and one reader of it; a request is started from the    *)
(* reader's page or from anywhere else.  `wire` is what the route has sent *)
(* and the browser has not read: dropping the connection loses it.         *)
(***************************************************************************)
EXTENDS Integers, Sequences, SequencesExt, FiniteSets

CONSTANTS
    Requests,       \* the requests of the conversation
    KindOf,         \* "change", "publish" or "undo"
    None,           \* no request
    MaxHistory,     \* DEFAULT_MAX_HISTORY of the bus
    PageSize,       \* how many comments one page of listComments returns
    MaxDrops,       \* bound on dropped connections
    Faults          \* whether calls to the repository host may fail

ASSUME NoneIsNoRequest == None \notin Requests
ASSUME BoundsAreNumbers == {MaxHistory, PageSize, MaxDrops} \subseteq Nat
ASSUME KindOfIsTotal == KindOf \in [Requests -> {"change", "publish", "undo"}]

VARIABLES
    passed,     \* StageMachine.stages of each request; emit's stages of a publication
    begun,      \* requests that were announced
    ended,      \* requests that published `done`
    lost,       \* requests that will never publish it
    released,   \* change requests that have given up the lock
    active,     \* the bus: the announced request that has not published `done`
    history,    \* the bus: the events kept of each request
    thread,     \* the comments of the pull request
    merged,     \* whether the pull request is merged
    link,       \* the stream route: where it is with this reader
    snapshot,   \* its replayRecords: the records it has read
    queued,     \* announcements kept back while it replays
    followed,   \* Following.requestId
    wire,       \* what it has sent and the browser has not read
    drops,      \* connections dropped so far
    page,       \* ConversationStreamState
    shown,      \* the props of the last render on the server
    pending,    \* pendingSince: Send was pressed and nothing has come of it yet
    post,       \* the POST of a message and its answer
    asking,     \* PublishControls.confirming
    due         \* router.refresh() was called and has not been answered

requests == <<passed, begun, ended, lost, released>>
bus      == <<active, history>>
upstream == <<thread, merged>>
route    == <<link, snapshot, queued, followed>>
server   == <<requests, bus, upstream, route, wire, drops>>
browser  == <<page, shown, pending, post, asking, due>>
vars     == <<server, browser>>

Terminal == {"succeeded", "blocked", "failed", "abandoned"}

\* A new request's identity: any that has not been used.
Fresh(kind) ==
    LET unused == {r \in Requests \ begun : KindOf[r] = kind}
    IN  IF unused = {} THEN None ELSE CHOOSE r \in unused : TRUE

\* Where a request stands: the last stage it published, `starting` before.
At(r) == IF passed[r] = <<>> THEN "starting" ELSE Last(passed[r])

Finished(r) == At(r) \in Terminal
Running     == {r \in begun : r \notin ended \cup lost}
LockHolders == {r \in begun : KindOf[r] = "change" /\ r \notin released}

\* What op makes of base and the elements of s, one after the other.  (CHOOSE from a set
\* of one has TLC compute every step once.)
Folded(op(_, _), base, s) ==
    LET upTo[i \in 0..Len(s)] ==
            IF i = 0 THEN base
            ELSE CHOOSE y \in {op(x, s[i]) : x \in {upTo[i - 1]}} : TRUE
    IN  upTo[Len(s)]

-------------------------------------------------------------------------------
(* The comments of the conversation *)

Said(r)      == [about |-> r, outcome |-> "none", stages |-> <<>>]
RecordOf(r, stages, outcome) == [about |-> r, outcome |-> outcome, stages |-> stages]

IsRecord(comment) == comment.outcome # "none"

\* listComments asks for one page, and gets the oldest comments.
FirstPage(comments) ==
    SubSeq(comments, 1, IF Len(comments) < PageSize THEN Len(comments) ELSE PageSize)

\* readConversation: the records among the comments, in order.
Found(found, comment) == IF IsRecord(comment) THEN Append(found, comment) ELSE found
RecordsIn(comments)   == Folded(Found, <<>>, FirstPage(comments))

\* selectPublishState.
PublishState(records, isMerged) ==
    LET publications == SelectSeq(records, LAMBDA c : KindOf[c.about] # "change")
    IN  IF isMerged
        THEN IF publications # <<>> /\ KindOf[Last(publications).about] = "undo"
             THEN "undone" ELSE "published"
        ELSE IF records # <<>> /\ Last(records).outcome = "succeeded"
             THEN "ready" ELSE "not_previewed"

-------------------------------------------------------------------------------
(* The bus *)

IsOutput(event) == event[1] = "output"

\* A bug Appended could have: the oldest event goes, whatever it says.
Appended_Oldest(kept, event) ==
    IF Len(kept) < MaxHistory THEN Append(kept, event) ELSE Append(Tail(kept), event)

\* appendBounded: over the limit, the oldest output goes; stages and `done` never do.
Appended(kept, event) ==
    LET all     == Append(kept, event)
        outputs == {i \in DOMAIN all : IsOutput(all[i])}
    IN  IF Len(all) <= MaxHistory \/ outputs = {} THEN all
        ELSE RemoveAt(all, CHOOSE i \in outputs : \A j \in outputs : i <= j)

\* What is kept once these are published too.
Kept(earlier, events) == Folded(Appended, earlier, events)

\* Whether an event of r reaches the reader at once.
Subscribed(r) == link = "open" /\ followed = r

\* publish, once per event: the history grows, `done` ends the announcement, and
\* whoever follows r is told.
Publish(r, events) ==
    /\ history' = [history EXCEPT ![r] = Kept(@, events)]
    /\ active' = IF active = r /\ \E i \in DOMAIN events : events[i][1] = "done"
                 THEN None ELSE active
    /\ wire' = IF Subscribed(r) THEN wire \o events ELSE wire

-------------------------------------------------------------------------------
(* The stream route *)

\* A bug Follow could have: the request followed before is not let go of, which shows
\* as its events being taken for the new one's.
Follow_KeepsTheFirst(to, r) ==
    IF to.followed # None THEN to
    ELSE [followed |-> r, sent |-> to.sent \o << <<"request", r, TRUE>> >> \o history[r]]

\* Following.follow: not twice; the request, its history, and then what comes.
Follow(to, r) ==
    IF to.followed = r THEN to
    ELSE [followed |-> r, sent |-> to.sent \o << <<"request", r, TRUE>> >> \o history[r]]

\* One request after the other.
FollowEach(to, announced) == Folded(Follow, to, announced)

\* announce: r replaces whatever was announced, and an open stream follows it; one that
\* replays keeps it for later.
Announce(r, events) ==
    LET told == Follow([followed |-> followed, sent |-> <<>>], r)
    IN  /\ active' = r
        /\ history' = [history EXCEPT ![r] = Kept(@, events)]
        /\ followed' = IF link = "open" THEN told.followed ELSE followed
        /\ wire' = IF link = "open" THEN wire \o told.sent \o events ELSE wire
        /\ queued' = IF link \in {"replaying", "read", "inspecting"} THEN Append(queued, r) ELSE queued
        /\ UNCHANGED <<link, snapshot>>

\* GET: subscribed before anything is read.
Connect ==
    /\ link = "down"
    /\ link' = "replaying"
    /\ queued' = <<>>
    /\ followed' = None
    /\ UNCHANGED <<requests, bus, upstream, snapshot, wire, drops, browser>>

\* replayRecords, its read: the host answers with the comments as they are now.
ReadRecords ==
    /\ link = "replaying"
    /\ link' = "read"
    /\ snapshot' = RecordsIn(thread)
    /\ UNCHANGED <<requests, bus, upstream, queued, followed, wire, drops, browser>>

\* What replayRecords sends of one record.
Replayed(record) ==
    << <<"request", record.about, FALSE>> >>
    \o [i \in DOMAIN record.stages |-> <<"stage", record.stages[i]>>]
    \o << <<"done", record.outcome>> >>

Resent(sent, record) == sent \o Replayed(record)
Replay == Folded(Resent, <<>>, snapshot)

\* The end of start: sync, then the announcements kept back, in order.
Settle(to, inFlight) ==
    LET synced == [to EXCEPT !.sent = Append(@, <<"sync", inFlight>>)]
        told   == FollowEach(synced, queued)
    IN  /\ link' = "open"
        /\ followed' = told.followed
        /\ wire' = wire \o told.sent
        /\ queued' = <<>>
        /\ snapshot' = <<>>

\* A bug ReplayRecords could have: what is announced during the replay is not kept back.
ReplayRecords_Forgetful ==
    /\ link = "read"
    /\ link' = "open"
    /\ followed' = None
    /\ wire' = wire \o Replay \o << <<"sync", FALSE>> >>
    /\ queued' = <<>>
    /\ snapshot' = <<>>
    /\ UNCHANGED <<requests, bus, upstream, drops, browser>>

\* replayRecords, and findLiveRequest when the bus knows of one.  When it does not, the
\* lock is asked, which is one more call.
ReplayRecords ==
    /\ link = "read"
    /\ LET replayed == [followed |-> None, sent |-> Replay]
       IN  IF active # None THEN Settle(Follow(replayed, active), TRUE)
           ELSE /\ link' = "inspecting"
                /\ wire' = wire \o Replay
                /\ snapshot' = <<>>
                /\ UNCHANGED <<queued, followed>>
    /\ UNCHANGED <<requests, bus, upstream, drops, browser>>

\* findLiveRequest, the lock's answer: inspect names no request, so there is nothing to
\* follow but what was announced meanwhile.
InspectLock ==
    /\ link = "inspecting"
    /\ Settle([followed |-> None, sent |-> <<>>], queued # <<>>)
    /\ UNCHANGED <<requests, bus, upstream, drops, browser>>

\* close, or a connection that dies: what was on the wire is lost.
HangUp ==
    /\ link' = IF link = "unopened" THEN link ELSE "down"
    /\ queued' = <<>>
    /\ followed' = None
    /\ snapshot' = <<>>
    /\ wire' = <<>>

Drop ==
    /\ link \in {"replaying", "read", "inspecting", "open"}
    /\ drops < MaxDrops
    /\ drops' = drops + 1
    /\ HangUp
    /\ UNCHANGED <<requests, bus, upstream, browser>>

\* The read fails, and the stream with it.
ReadFails ==
    /\ Faults
    /\ link = "replaying"
    /\ drops < MaxDrops
    /\ drops' = drops + 1
    /\ HangUp
    /\ UNCHANGED <<requests, bus, upstream, browser>>

-------------------------------------------------------------------------------
(* A change request, as far as it is told *)

Stage(s)  == <<"stage", s>>
Done(s)   == <<"done", s>>

\* The comments that say how the dead holders of the lock ended: recordAbandoned.
Abandonments == SetToSeq({RecordOf(r, <<>>, "abandoned") : r \in LockHolders})

\* The words are written; the lock is taken, or taken over from a request that died and
\* has held it too long; the request is announced.
BeginChange(r) ==
    /\ r = Fresh("change")
    /\ LockHolders \subseteq lost
    /\ begun' = begun \cup {r}
    /\ released' = released \cup LockHolders
    /\ thread' = Append(thread, Said(r)) \o Abandonments
    /\ Announce(r, <<>>)
    /\ UNCHANGED <<passed, ended, lost, merged, drops>>

\* The stages of a change.  `queued`, `gating`, `pushing` and `building` are passed like
\* `running`, and `blocked` ends like `failed`: nothing on the way to the page tells them
\* apart.
LegalNext(from) ==
    CASE from = "starting" -> {"running", "failed"}
      [] from = "running"  -> {"succeeded", "failed"}
      [] OTHER             -> {}

\* machine.advance publishes the stage; while it is `running` the agent's output follows.
Advance(r, s) ==
    /\ KindOf[r] = "change" /\ r \in Running
    /\ s \in LegalNext(At(r))
    /\ passed' = [passed EXCEPT ![r] = Append(@, s)]
    /\ Publish(r, IF s = "running" THEN <<Stage(s), <<"output">> >> ELSE <<Stage(s)>>)
    /\ UNCHANGED <<begun, ended, lost, released, upstream, route, drops, browser>>

\* The finally block: the lock goes, whether or not finish has written anything yet.
Release(r) ==
    /\ KindOf[r] = "change" /\ r \in begun \ (released \cup lost)
    /\ Finished(r)
    /\ released' = released \cup {r}
    /\ UNCHANGED <<passed, begun, ended, lost, bus, upstream, route, wire, drops, browser>>

\* finish: the record is written.
Record(r) ==
    /\ KindOf[r] = "change" /\ r \in Running
    /\ Finished(r)
    /\ ~\E i \in DOMAIN thread : thread[i].about = r /\ IsRecord(thread[i])
    /\ thread' = Append(thread, RecordOf(r, passed[r], At(r)))
    /\ UNCHANGED <<requests, bus, merged, route, wire, drops, browser>>

\* A bug Finish could have: `done` is published before the comment is written.
Finish_Early(r) ==
    /\ KindOf[r] = "change" /\ r \in Running
    /\ Finished(r)
    /\ ended' = ended \cup {r}
    /\ Publish(r, <<Done(At(r))>>)
    /\ UNCHANGED <<passed, begun, lost, released, upstream, route, drops, browser>>

\* finish: once the record is written, `done` is published.
Finish(r) ==
    /\ KindOf[r] = "change" /\ r \in Running
    /\ \E i \in DOMAIN thread : thread[i].about = r /\ IsRecord(thread[i])
    /\ ended' = ended \cup {r}
    /\ Publish(r, <<Done(At(r))>>)
    /\ UNCHANGED <<passed, begun, lost, released, upstream, route, drops, browser>>

\* finish: createComment rejects, and nothing after it happens but the finally block.
RecordFails(r) ==
    /\ Faults
    /\ KindOf[r] = "change" /\ r \in Running
    /\ Finished(r)
    /\ ~\E i \in DOMAIN thread : thread[i].about = r /\ IsRecord(thread[i])
    /\ lost' = lost \cup {r}
    /\ released' = released \cup {r}
    /\ UNCHANGED <<passed, begun, ended, bus, upstream, route, wire, drops, browser>>

-------------------------------------------------------------------------------
(* A publish or an undo, as far as it is told *)

Allowed(kind) ==
    PublishState(RecordsIn(thread), merged) = IF kind = "publish" THEN "ready" ELSE "published"

\* beginPublication up to its first await: announced, and on to `gating`.
BeginPublication(p) ==
    /\ KindOf[p] # "change" /\ p = Fresh(KindOf[p])
    /\ Allowed(KindOf[p])
    /\ begun' = begun \cup {p}
    /\ passed' = [passed EXCEPT ![p] = <<"starting", "gating">>]
    /\ Announce(p, <<Stage("starting"), Stage("gating")>>)
    /\ UNCHANGED <<ended, lost, released, upstream, drops>>

Emit(p, stages, events) ==
    /\ passed' = [passed EXCEPT ![p] = @ \o stages]
    /\ Publish(p, events)

\* The checks pass: a publish needs the lock free when it looks.
PassChecks(p) ==
    /\ KindOf[p] # "change" /\ p \in Running
    /\ At(p) = "gating"
    /\ KindOf[p] = "publish" => LockHolders = {}
    /\ Emit(p, <<"pushing">>, <<Stage("pushing")>>)
    /\ UNCHANGED <<begun, ended, lost, released, upstream, route, drops, browser>>

\* The merge or the revert, and the audit entry.
Act(p) ==
    /\ KindOf[p] # "change" /\ p \in Running
    /\ At(p) = "pushing"
    /\ merged' = TRUE
    /\ thread' = Append(thread, RecordOf(p, <<"succeeded">>, "succeeded"))
    /\ Emit(p, <<"building">>, <<Stage("building")>>)
    /\ UNCHANGED <<begun, ended, lost, released, route, drops, browser>>

\* watchBuild ends: the last stage and `done`, in one go.
Built(p, outcome) ==
    /\ KindOf[p] # "change" /\ p \in Running
    /\ At(p) = "building"
    /\ outcome \in {"succeeded", "failed"}
    /\ ended' = ended \cup {p}
    /\ Emit(p, <<outcome>>, <<Stage(outcome), Done(outcome)>>)
    /\ UNCHANGED <<begun, lost, released, upstream, route, drops, browser>>

\* fail: refused by the checks, by the act, or (`acted`) by the audit entry.
Fail(p, acted) ==
    /\ KindOf[p] # "change" /\ p \in Running
    /\ At(p) = "gating" \/ (At(p) = "pushing" /\ Faults)
    /\ acted => At(p) = "pushing"
    /\ merged' = (merged \/ acted)
    /\ ended' = ended \cup {p}
    /\ Emit(p, <<"failed">>, <<Stage("failed"), Done("failed")>>)
    /\ UNCHANGED <<begun, lost, released, thread, route, drops, browser>>

-------------------------------------------------------------------------------

\* The process restarts: the bus is empty, what ran is gone, streams are cut.  A dead
\* request keeps its lock until another takes it over.
Restart ==
    /\ Faults
    /\ Running # {}
    /\ drops < MaxDrops
    /\ drops' = drops + 1
    /\ lost' = lost \cup Running
    /\ active' = None
    /\ history' = [r \in Requests |-> <<>>]
    /\ HangUp
    /\ UNCHANGED <<passed, begun, ended, released, upstream, browser>>

-------------------------------------------------------------------------------
(* The reducer of useConversationStream.ts *)

\* initialStreamState, seeded with the rendered snapshot.
InitialState(inFlight) ==
    [request |-> None, live |-> FALSE,
     trail |-> IF inFlight THEN <<"starting">> ELSE <<>>,
     outcome |-> "none", inFlight |-> inFlight, synced |-> FALSE]

\* A bug ApplyRequest could have: the outcome of the request before is kept.
ApplyRequest_KeepsOutcome(state, r, live) ==
    [state EXCEPT !.request = r, !.live = live, !.trail = <<>>, !.inFlight = live]

\* applyRequestEvent: the trail starts over.
ApplyRequest(state, r, live) ==
    [state EXCEPT !.request = r, !.live = live, !.trail = <<>>, !.outcome = "none",
                  !.inFlight = live]

\* applyStageEvent, and the last step of applyDoneEvent: never the same twice in a row.
Extended(trail, s) == IF trail # <<>> /\ Last(trail) = s THEN trail ELSE Append(trail, s)

\* A bug ApplyStage could have: outcomes are stages too, so it keeps the stage for one.
ApplyStage_Outcome(state, s) == [state EXCEPT !.trail = Extended(@, s), !.outcome = s]

\* applyStageEvent.
ApplyStage(state, s) == [state EXCEPT !.trail = Extended(@, s)]

\* applyDoneEvent.
ApplyDone(state, outcome) ==
    [state EXCEPT !.trail = Extended(@, outcome), !.outcome = outcome, !.inFlight = FALSE]

\* A bug ApplySync could have: what the page was rendered with is never corrected.
ApplySync_Trusting(state, inFlight) == [state EXCEPT !.synced = TRUE]

\* applySyncEvent: an outcome already read outranks the summary.
ApplySync(state, inFlight) ==
    [state EXCEPT !.synced = TRUE, !.inFlight = inFlight /\ state.outcome = "none"]

\* The listeners of the hook.  Of an output only its arrival counts, as a pulse.
Apply(state, event) ==
    CASE event[1] = "request" -> ApplyRequest(state, event[2], event[3])
      [] event[1] = "stage"   -> ApplyStage(state, event[2])
      [] event[1] = "done"    -> ApplyDone(state, event[2])
      [] event[1] = "sync"    -> ApplySync(state, event[2])
      [] OTHER                -> state

-------------------------------------------------------------------------------
(* What the client sees and may do *)

\* page.tsx: the conversation as the server reads it now.
Rendered ==
    [state |-> PublishState(RecordsIn(thread), merged), busy |-> LockHolders # {}]

LiveRequest(state) == IF state.live THEN state.request ELSE None

\* selectInFlight, and the moment between Send and the announcement.
InFlight(state) == IF state.synced THEN state.inFlight ELSE shown.busy \/ state.inFlight
Busy            == InFlight(page) \/ pending

\* selectComposerAvailability, and Composer's own `sending`.
MaySend == ~Busy /\ post = "idle" /\ shown.state \notin {"published", "undone"}

\* selectPublishOffer.
Offer == CASE shown.state = "ready"     -> "publish"
           [] shown.state = "published" -> "undo"
           [] OTHER                     -> "none"

-------------------------------------------------------------------------------
(* The page's life *)

OpenPage ==
    /\ link = "unopened"
    /\ link' = "down"
    /\ shown' = Rendered
    /\ page' = InitialState(LockHolders # {})
    /\ UNCHANGED <<requests, bus, upstream, snapshot, queued, followed, wire, drops,
                   pending, post, asking, due>>

\* A bug Effects could have: the page is not read again when a request ends.
Effects_NoRefresh(before, state) ==
    [page |-> state,
     pending |-> before.pending /\ LiveRequest(state) \in {None, LiveRequest(before.page)},
     due |-> before.due]

\* The effects of a render: a request that comes alive ends the wait for it; one that
\* has ended while alive has the page read again.
Effects(before, state) ==
    [page |-> state,
     pending |-> before.pending /\ LiveRequest(state) \in {None, LiveRequest(before.page)},
     due |-> before.due \/ /\ LiveRequest(state) # None
                           /\ state.outcome # "none"
                           /\ \/ LiveRequest(state) # LiveRequest(before.page)
                              \/ state.outcome # before.page.outcome]

\* The browser reads what has arrived, event by event.
Read(now, event) == Effects(now, Apply(now.page, event))
ReadAll(now, events) == Folded(Read, now, events)

Now == [page |-> page, pending |-> pending, due |-> due]

ReadEvents ==
    /\ wire # <<>>
    /\ \E after \in {ReadAll(Now, wire)} :
          /\ page' = after.page
          /\ pending' = after.pending
          /\ due' = after.due
    /\ wire' = <<>>
    /\ UNCHANGED <<requests, bus, upstream, route, drops, shown, post, asking>>

Refresh ==
    /\ due
    /\ due' = FALSE
    /\ shown' = Rendered
    /\ UNCHANGED <<server, page, pending, post, asking>>

\* send: the page is busy from this moment.
Send ==
    /\ link # "unopened"
    /\ MaySend
    /\ Requests \ begun # {}
    /\ pending' = TRUE
    /\ post' = "sent"
    /\ UNCHANGED <<server, page, shown, asking, due>>

\* The message reaches the route: it is written, and the lock decides.
ArriveAccepted(r) ==
    /\ post = "sent"
    /\ BeginChange(r)
    /\ post' = "accepted"
    /\ UNCHANGED <<page, shown, pending, asking, due>>

ArriveRefused ==
    /\ post = "sent"
    /\ ~(LockHolders \subseteq lost)
    /\ post' = "refused"
    /\ UNCHANGED <<server, page, shown, pending, asking, due>>

Hear ==
    /\ post \in {"accepted", "refused"}
    /\ post' = "idle"
    /\ pending' = (pending /\ post = "accepted")
    /\ due' = (due \/ post = "accepted")
    /\ UNCHANGED <<server, page, shown, asking>>

\* fetch rejects: send throws, and pendingSince stays.
SendFails ==
    /\ Faults
    /\ post # "idle"
    /\ post' = "idle"
    /\ UNCHANGED <<server, page, shown, pending, asking, due>>

\* The first press asks.
Ask ==
    /\ link # "unopened"
    /\ Offer # "none" /\ ~Busy /\ ~asking
    /\ asking' = TRUE
    /\ UNCHANGED <<server, page, shown, pending, post, due>>

\* The second press acts, whatever has begun since; the server refuses what it must.
Press(p) ==
    /\ asking
    /\ KindOf[p] = Offer
    /\ BeginPublication(p)
    /\ asking' = FALSE
    /\ due' = TRUE
    /\ UNCHANGED <<page, shown, pending, post>>

\* The question stays after a refusal, until it is answered with "not yet".
Cancel ==
    /\ asking
    /\ asking' = FALSE
    /\ UNCHANGED <<server, page, shown, pending, post, due>>

Init ==
    /\ passed = [r \in Requests |-> <<>>]
    /\ begun = {} /\ ended = {} /\ lost = {} /\ released = {}
    /\ active = None
    /\ history = [r \in Requests |-> <<>>]
    /\ thread = <<>>
    /\ merged = FALSE
    /\ link = "unopened"
    /\ snapshot = <<>> /\ queued = <<>> /\ followed = None
    /\ wire = <<>>
    /\ drops = 0
    /\ page = InitialState(FALSE)
    /\ shown = [state |-> "not_previewed", busy |-> FALSE]
    /\ pending = FALSE
    /\ post = "idle"
    /\ asking = FALSE
    /\ due = FALSE

BeginElsewhere(r)   == BeginChange(r) /\ UNCHANGED browser
PublishElsewhere(p) == BeginPublication(p) /\ UNCHANGED browser

Work(r) ==
    \/ \E s \in LegalNext(At(r)) : Advance(r, s)
    \/ Release(r)
    \/ Record(r)
    \/ Finish(r)
    \/ PassChecks(r)
    \/ Act(r)
    \/ \E outcome \in {"succeeded", "failed"} : Built(r, outcome)
    \/ \E acted \in BOOLEAN : Fail(r, acted)

Stream == Connect \/ ReadRecords \/ ReplayRecords \/ InspectLock

Next ==
    \/ \E r \in Requests :
          \/ BeginElsewhere(r) \/ PublishElsewhere(r) \/ Work(r) \/ RecordFails(r)
          \/ ArriveAccepted(r) \/ Press(r)
    \/ Stream \/ Drop \/ ReadFails \/ Restart
    \/ OpenPage \/ ReadEvents \/ Refresh
    \/ Send \/ ArriveRefused \/ Hear \/ SendFails
    \/ Ask \/ Cancel

Spec == Init /\ [][Next]_vars

\* What has begun goes on, open pages reconnect and read what arrives.
FairSpec ==
    /\ Spec
    /\ \A r \in Requests : WF_vars(Work(r))
    /\ WF_vars(Stream)
    /\ WF_vars(ReadEvents)

-------------------------------------------------------------------------------
(* Properties *)

Stages   == {"starting", "running", "gating", "pushing", "building"} \cup Terminal
Comments == [about : Requests, outcome : Terminal \cup {"none"}, stages : Seq(Stages)]

\* The type of every variable.
TypeOK ==
    /\ passed \in [Requests -> Seq(Stages)]
    /\ begun \subseteq Requests /\ ended \subseteq begun
    /\ lost \subseteq begun /\ released \subseteq begun
    /\ active \in Requests \cup {None}
    /\ \A r \in Requests : \A i \in DOMAIN history[r] :
          history[r][i][1] \in {"stage", "output", "done"}
    /\ \A i \in DOMAIN thread : thread[i] \in Comments
    /\ merged \in BOOLEAN
    /\ link \in {"unopened", "down", "replaying", "read", "inspecting", "open"}
    /\ queued \in Seq(Requests)
    /\ followed \in Requests \cup {None}
    /\ drops \in 0..MaxDrops
    /\ page.request \in Requests \cup {None}
    /\ page.outcome \in Terminal \cup {"none"}
    /\ shown.state \in {"not_previewed", "ready", "published", "undone"}
    /\ pending \in BOOLEAN /\ asking \in BOOLEAN /\ due \in BOOLEAN
    /\ post \in {"idle", "sent", "accepted", "refused"}

CaughtUp == link = "open" /\ wire = <<>>

\* useConversationStream.ts: after `sync` the stream is the authority on what runs.  A
\* page that has read everything is in flight exactly when the bus has an announced
\* request, and shows that request: through replays, queued announcements, one request
\* following another on the same stream, and reconnections.
PageAgreesWithBus ==
    CaughtUp => /\ page.inFlight <=> active # None
                /\ active # None => page.request = active

\* bus.ts: stages and the outcome are never evicted; useConversationStream.ts:166: they
\* are told as those of the request they belong to.  A page that follows a request and has
\* read everything shows each stage it passed, however late it joined and whatever it
\* showed before, and its outcome once it has ended.
FollowedTrailIsWhole ==
    CaughtUp /\ page.live /\ followed = page.request =>
        /\ page.trail = passed[page.request]
        /\ page.outcome = IF page.request \in ended THEN At(page.request) ELSE "none"

\* run.ts finish: `done` comes after the comment.  A page never tells how a change ended
\* before the conversation itself says so, nor anything else than the conversation says.
ToldOnlyWhenRecorded ==
    page.outcome # "none" /\ KindOf[page.request] = "change" =>
        \E i \in DOMAIN thread : thread[i].about = page.request /\ thread[i].outcome = page.outcome

\* A merge the conversation tells of.  It does not when the audit entry failed.
MergeIsRecorded == merged => \E i \in DOMAIN thread : KindOf[thread[i].about] # "change"

\* PublishControls.tsx: a page that followed a request to its end, and nothing was recorded
\* after it nor left out, offers what the conversation allows.
OfferIsCurrent ==
    /\ CaughtUp /\ page.live /\ followed = page.request
    /\ ~due /\ ~Busy
    /\ Last(thread).about = page.request
    /\ MergeIsRecorded
    => (Offer = "publish" <=> Allowed("publish"))

\* A page that says a request is running stops saying so: the request ends, or the stream
\* comes back and says that it did.  A record that cannot be written is the exception:
\* `done` is published after it.
InFlightClears ==
    page.inFlight /\ link # "unopened" ~> (~page.inFlight \/ lost # {})
===============================================================================
