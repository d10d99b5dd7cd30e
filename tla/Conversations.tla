---------------------------- MODULE Conversations ----------------------------
(* A change request from the client's form to the answer in the              *)
(* conversation, around the bench it is worked on:                           *)
(*   - POST of a conversation or of a message (app/api/conversations), its   *)
(*     form (lib/http/parse-request.ts) and the attachments stashed off it;  *)
(*   - opening a conversation: a branch claimed by compare-and-swap under a  *)
(*     predicted number, then a pull request (lib/conversations.ts);         *)
(*   - starting the request: settings read anew (lib/config), the thread     *)
(*     read, the client's words written, the lock asked for                  *)
(*     (lib/http/start-request.ts);                                          *)
(*   - the ending: a record in the thread and a mail (lib/jobs/run.ts,       *)
(*     lib/record, lib/notify/email.ts).                                     *)
(*                                                                           *)
(* One process of the application, several requests at once.  The repository *)
(* host is the truth: pull requests, branches, comments, the policy file.    *)
EXTENDS Workbench

CONSTANTS
    Requests,
    Forms,          \* the forms a client may send
    PolicyFiles,    \* the policy file's versions, in the order a developer commits them
    HostFaults,     \* whether a call to the repository host or the mail server may fail
    PageSize,       \* comments the repository host answers with
    MaxClaims       \* branch names tried for a new conversation

\* What a request asks of the bench.
Orders ==
    [request : Requests, conversation : Conversations, branch : Branches,
     policy : Policies, uploads : Nat, history : Nat,
     refused : SUBSET (Paths \cup {"none"}), buildFailed : BOOLEAN]

FileKinds == {"image", "empty", "stranger", "huge", "forged", "script"}

ASSUME ConversationsConstants ==
    /\ Forms \subseteq [fields : BOOLEAN, tier : BOOLEAN, files : Seq(FileKinds)]
    /\ Len(PolicyFiles) \in Nat \ {0} /\ DOMAIN PolicyFiles = 1 .. Len(PolicyFiles)
    /\ \A v \in DOMAIN PolicyFiles : ParsePolicy(PolicyFiles[v]) \in Policies
    /\ HostFaults \in BOOLEAN
    /\ PageSize \in Nat \ {0} /\ MaxClaims \in Nat \ {0}

\* One conversation and two branches exist; each request may add one of each.
ASSUME NumbersForAll ==
    /\ IsFiniteSet(Requests)
    /\ Conversations = 1 .. Cardinality(Requests) + 1
    /\ Branches = 1 .. Cardinality(Requests) + 2

ASSUME NoneIsNoOrder == None \notin Orders

VARIABLES
    version,    \* of the policy file on the default branch
    current,    \* the configuration cache: a version, 0 before any has loaded
    pulls,      \* the pull requests' head branches, by number
    refs,       \* branch names taken
    thread,     \* the comments of each pull request
    stash,      \* the requests whose attachments lie in a temporary directory
    http,       \* each request, as its route and what follows it know it
    mailed      \* the endings handed to the mail server

threads == <<pulls, refs, thread>>
hostVars == <<version, current, threads>>
vars == <<benchVars, hostVars, stash, http, mailed>>

------------------------------------------------------------------------------
\* The form

MaxFiles == 5           \* ATTACHMENT_LIMITS, in megabytes
MaxFileSize == 10
MaxTotalSize == 25
SizeOf(file) == CASE file = "empty" -> 0 [] file = "huge" -> 11 [] OTHER -> 10

\* What the browser says of the files: the first one at fault governs.
ValidateAttachments(files) ==
    LET Fault(file) ==
            IF file = "stranger" THEN "unsupported"
            ELSE IF SizeOf(file) = 0 THEN "empty"
            ELSE IF SizeOf(file) > MaxFileSize THEN "too_large" ELSE "none"
        faulty == {i \in DOMAIN files : Fault(files[i]) # "none"}
        total  == Cardinality(UNION {{i} \X (1 .. SizeOf(files[i])) : i \in DOMAIN files})
    IN  IF Len(files) > MaxFiles THEN "too_many"
        ELSE IF faulty # {}
             THEN Fault(files[CHOOSE i \in faulty : \A j \in faulty : i <= j])
        ELSE IF total > MaxTotalSize THEN "total_too_large" ELSE "none"

\* What the bytes say: a refused set leaves nothing behind.
StashUploads(files) ==
    IF ValidateAttachments(files) # "none" THEN ValidateAttachments(files)
    ELSE LET kinds == {files[i] : i \in DOMAIN files}
         IN  IF "forged" \in kinds THEN "unsupported"
             ELSE IF "script" \in kinds THEN "unsafe_svg" ELSE "none"

\* The status a form is answered with, 0 if it is accepted.  The tier is looked
\* at last, when the files have already been stashed.
ParseChangeRequest(form) ==
    LET refusal == StashUploads(form.files)
    IN  IF ~form.fields THEN 400
        ELSE IF refusal \in {"unsupported", "empty"} THEN 415
        ELSE IF refusal # "none" THEN 413
        ELSE IF ~form.tier THEN 400 ELSE 0

Crash == 599     \* the framework's own 500, told apart from the route's

Stashes(form) == form.fields /\ form.files # <<>> /\ StashUploads(form.files) = "none"

------------------------------------------------------------------------------
\* The thread of a conversation

Words(r) ==
    [kind |-> "words", request |-> r, outcome |-> "none", path |-> "none",
     buildFailed |-> FALSE, readable |-> TRUE, notified |-> FALSE]

\* What a record must carry to be read back: a refusal its rule and its path, a
\* failure its code.
Complete(end) ==
    /\ end.outcome = "blocked" => end.violation # "none" /\ end.blockedPath # "none"
    /\ end.outcome = "failed" => end.errorCode # "none"

RecordOf(r, end) ==
    [kind |-> "record", request |-> r, outcome |-> end.outcome,
     path |-> end.blockedPath, buildFailed |-> end.errorCode = "build_failed",
     readable |-> Complete(end), notified |-> FALSE]

\* The host answers with the oldest comments of a thread, one page of them.
ListComments(c) ==
    SubSeq(thread[c], 1, IF Len(thread[c]) < PageSize THEN Len(thread[c]) ELSE PageSize)
CreateComment(c, m) == thread' = [thread EXCEPT ![c] = Append(@, m)]
MarkNotified(c, i) == thread' = [thread EXCEPT ![c][i].notified = TRUE]

\* Any other comment of a pull request is nobody's turn: a bot's, a developer's,
\* and a record's that does not read back.
HasRecord(m) == m.kind = "record" /\ m.readable
IsOurs(m) == HasRecord(m) \/ m.kind = "words"
RecordsIn(page) == {i \in DOMAIN page : HasRecord(page[i])}
MessagesIn(page) == {i \in DOMAIN page : IsOurs(page[i])}

\* A bug it could have: it looks for the paths of failures.
CollectRefusedPaths_OfFailures(page) ==
    {page[i].path : i \in {j \in RecordsIn(page) : page[j].outcome = "failed"}}

CollectRefusedPaths(page) ==
    {page[i].path : i \in {j \in RecordsIn(page) : page[j].outcome = "blocked"}}
LastBuildFailed(page) ==
    \E i \in RecordsIn(page) :
        page[i].buildFailed /\ \A j \in RecordsIn(page) : j <= i

\* The numbers are the host's, in order; the branch is what the pull request says.
HighestNumber == Len(pulls)
HeadOf(c) == pulls[c]
CreateRef(name) == name \notin refs /\ refs' = refs \cup {name}
CreatePullRequest(name) == pulls' = Append(pulls, name)

------------------------------------------------------------------------------
\* Requests

Idle == [pc |-> "idle", opens |-> FALSE, conversation |-> 0, uploads |-> 0,
         answer |-> 0, branch |-> 0, reading |-> 0, settings |-> 0, stale |-> FALSE,
         history |-> 0, refused |-> {}, buildFailed |-> FALSE, due |-> None,
         silent |-> FALSE, postedAt |-> 0, postedTo |-> 0]

Opening == {"inspect", "predict", "claim", "pull"}

At(r, pc) == http[r].pc = pc
Becomes(r, known) == http' = [http EXCEPT ![r] = known]
Goes(r, pc) == http' = [http EXCEPT ![r].pc = pc]
\* The request's own variables go with it.
Over(known) ==
    [Idle EXCEPT !.pc = "over", !.opens = known.opens, !.answer = known.answer,
                 !.conversation = known.conversation]
Ends(r) == Becomes(r, Over(http[r]))
EndsSilently(r) == Becomes(r, [Over(http[r]) EXCEPT !.silent = TRUE])
Answers(r, status) == Becomes(r, [Over(http[r]) EXCEPT !.answer = status])

\* discardAttachments
Discards(r) == stash' = stash \ {r}

\* A form is sent, to open a conversation or to one that exists.  One that is
\* refused is answered at once; a throw outside the route's try, by a write
\* of the stash that failed half way, is answered by the framework.
Post(r) ==
    /\ At(r, "idle")
    /\ \E form \in Forms, target \in {0} \cup DOMAIN pulls :
        LET sent == [Idle EXCEPT !.opens = (target = 0), !.conversation = target,
                                 !.uploads = Len(form.files), !.postedAt = version,
                                 !.postedTo = IF target = 0 THEN 0
                                              ELSE Len(thread[target])]
            status == ParseChangeRequest(form)
        IN  \/ /\ status = 0
               /\ Becomes(r, [sent EXCEPT !.pc = IF target = 0 THEN "inspect"
                                                 ELSE "policy"])
               /\ stash' = IF Stashes(form) THEN stash \cup {r} ELSE stash
            \/ /\ status # 0
               /\ Becomes(r, [Over(sent) EXCEPT !.answer = status])
               /\ stash' = IF Stashes(form) THEN stash \cup {r} ELSE stash
            \/ /\ HostFaults /\ Stashes(form)
               /\ Becomes(r, [Over(sent) EXCEPT !.answer = Crash])
               /\ stash' = stash \cup {r}
    /\ UNCHANGED <<benchVars, hostVars, mailed>>

\* Opening: the lock is looked at, so that the common refusal is told at once.
InspectLock(r) ==
    /\ At(r, "inspect")
    /\ \/ step = "free" /\ Goes(r, "predict") /\ UNCHANGED stash
       \/ step # "free" /\ Answers(r, 409) /\ Discards(r)
    /\ UNCHANGED <<benchVars, hostVars, mailed>>

\* The default branch is gone, or a call to the host failed on the way.
OpeningFails(r) ==
    /\ HostFaults /\ http[r].pc \in Opening
    /\ \E status \in {500, 502} : (status = 502 => At(r, "predict")) /\ Answers(r, status)
    /\ Discards(r)
    /\ UNCHANGED <<benchVars, hostVars, mailed>>

\* The branch is named after the number the pull request will probably have.
Predict(r) ==
    /\ At(r, "predict")
    /\ Becomes(r, [http[r] EXCEPT !.pc = "claim", !.branch = HighestNumber + 1])
    /\ UNCHANGED <<benchVars, hostVars, stash, mailed>>

\* A bug ClaimBranch could have: a name that is taken is used all the same.
ClaimBranch_Overwrites(r) ==
    /\ At(r, "claim")
    /\ refs' = refs \cup {http[r].branch}
    /\ Goes(r, "pull")
    /\ UNCHANGED <<benchVars, version, current, pulls, thread, stash, mailed>>

\* createRef is a compare-and-swap.  `reading` counts the attempts meanwhile.
ClaimBranch(r) ==
    /\ At(r, "claim")
    /\ LET name == http[r].branch
           tries == http[r].reading
       IN  \/ /\ CreateRef(name)
              /\ Becomes(r, [http[r] EXCEPT !.pc = "pull", !.reading = 0])
              /\ UNCHANGED stash
           \/ /\ name \in refs /\ tries + 1 < MaxClaims
              /\ Becomes(r, [http[r] EXCEPT !.branch = name + 1, !.reading = tries + 1])
              /\ UNCHANGED <<refs, stash>>
           \/ /\ name \in refs /\ tries + 1 = MaxClaims
              /\ Answers(r, 500) /\ Discards(r)
              /\ UNCHANGED refs
    /\ UNCHANGED <<benchVars, version, current, pulls, thread, mailed>>

\* The number is the host's to give.  The client has its answer here; the rest
\* happens behind it.
OpenConversation(r) ==
    /\ At(r, "pull")
    /\ CreatePullRequest(http[r].branch)
    /\ Becomes(r, [http[r] EXCEPT !.pc = "policy", !.answer = 201, !.branch = 0,
                                  !.conversation = Len(pulls')])
    /\ UNCHANGED <<benchVars, version, current, refs, thread, stash, mailed>>

------------------------------------------------------------------------------
\* Starting

\* A start that throws: the files are removed; a client still waiting is
\* answered, the others find a refusal in their conversation.
StartFailed(r) ==
    /\ IF http[r].opens THEN Goes(r, "refusal") ELSE Answers(r, 500)
    /\ Discards(r)

StartFails(r) ==
    /\ HostFaults /\ http[r].pc \in {"thread", "words", "lock"}
    /\ StartFailed(r)
    /\ UNCHANGED <<benchVars, hostVars, mailed>>

\* What reading the three files of the default branch may give; 0 is a read that
\* failed, or a file that does not parse.
Load == {version} \cup (IF HostFaults THEN {0} ELSE {})

\* ensureFresh: the files are asked for; another request may ask meanwhile.
ReadPolicy(r) ==
    /\ At(r, "policy")
    /\ \E read \in Load :
        Becomes(r, [http[r] EXCEPT !.pc = "settings", !.reading = read])
    /\ UNCHANGED <<benchVars, hostVars, stash, mailed>>

\* A bug PolicyArrives could have: a configuration once loaded is served for good.
PolicyArrives_ServesTheMemo(r) ==
    /\ At(r, "settings")
    /\ LET serves == IF current # 0 THEN current ELSE http[r].reading
       IN  \/ /\ serves # 0
              /\ current' = serves
              /\ Becomes(r, [http[r] EXCEPT !.pc = "thread", !.reading = 0,
                                            !.settings = serves])
              /\ UNCHANGED stash
           \/ /\ serves = 0
              /\ StartFailed(r)
              /\ UNCHANGED current
    /\ UNCHANGED <<benchVars, version, threads, mailed>>

\* A good answer replaces the cached one; after a bad one the last good one
\* governs, and with none the request cannot start.
PolicyArrives(r) ==
    /\ At(r, "settings")
    /\ LET read == http[r].reading
       IN  \/ /\ read # 0
              /\ current' = read
              /\ Becomes(r, [http[r] EXCEPT !.pc = "thread", !.reading = 0,
                                            !.settings = read])
              /\ UNCHANGED stash
           \/ /\ read = 0 /\ current # 0
              /\ Becomes(r, [http[r] EXCEPT !.pc = "thread", !.reading = 0,
                                            !.settings = current, !.stale = TRUE])
              /\ UNCHANGED <<current, stash>>
           \/ /\ read = 0 /\ current = 0
              /\ StartFailed(r)
              /\ UNCHANGED current
    /\ UNCHANGED <<benchVars, version, threads, mailed>>

\* What the thread says before the client's words are in it is what the prompt
\* will say of it.
ReadThread(r) ==
    /\ At(r, "thread")
    /\ LET page == ListComments(http[r].conversation)
       IN  Becomes(r, [http[r] EXCEPT
                          !.pc = "words",
                          !.branch = HeadOf(http[r].conversation),
                          !.history = Cardinality(MessagesIn(page)),
                          !.refused = CollectRefusedPaths(page),
                          !.buildFailed = LastBuildFailed(page)])
    /\ UNCHANGED <<benchVars, hostVars, stash, mailed>>

WriteWords(r) ==
    /\ At(r, "words")
    /\ CreateComment(http[r].conversation, Words(r))
    /\ Goes(r, "lock")
    /\ UNCHANGED <<benchVars, version, current, pulls, refs, stash, mailed>>

OrderOf(r) ==
    [request |-> r, conversation |-> http[r].conversation, branch |-> http[r].branch,
     policy |-> ParsePolicy(PolicyFiles[http[r].settings]),
     uploads |-> http[r].uploads, history |-> http[r].history,
     refused |-> http[r].refused, buildFailed |-> http[r].buildFailed]

\* beginRequest: the lock is taken and the work goes on without the route.
Acquire(r) ==
    /\ At(r, "lock")
    /\ Begin(OrderOf(r))
    /\ Becomes(r, [Over(http[r]) EXCEPT
                      !.pc = "running", !.postedTo = http[r].postedTo,
                      !.answer = IF http[r].opens THEN @ ELSE 202])
    /\ UNCHANGED <<hostVars, stash, mailed>>

\* Bugs TurnedAway could have: the files stay; the conversation never hears of it.
TurnedAway_KeepsFiles(r) ==
    /\ At(r, "lock") /\ step # "free"
    /\ IF http[r].opens THEN Goes(r, "refusal") ELSE Answers(r, 409)
    /\ UNCHANGED <<benchVars, hostVars, stash, mailed>>

TurnedAway_Silently(r) ==
    /\ At(r, "lock") /\ step # "free"
    /\ IF http[r].opens THEN Ends(r) ELSE Answers(r, 409)
    /\ Discards(r)
    /\ UNCHANGED <<benchVars, hostVars, mailed>>

\* Another request has it.
TurnedAway(r) ==
    /\ At(r, "lock") /\ step # "free"
    /\ IF http[r].opens THEN Goes(r, "refusal") ELSE Answers(r, 409)
    /\ Discards(r)
    /\ UNCHANGED <<benchVars, hostVars, mailed>>

\* recordRefusal: a client answered long ago reads it in the conversation.
RecordRefusal(r) ==
    /\ At(r, "refusal")
    /\ \/ /\ CreateComment(http[r].conversation, RecordOf(r, Failed("request_in_flight")))
          /\ Ends(r)
       \/ /\ HostFaults
          /\ EndsSilently(r)
          /\ UNCHANGED thread
    /\ UNCHANGED <<benchVars, version, current, pulls, refs, stash, mailed>>

------------------------------------------------------------------------------
\* Ending

\* A bug FinishRequest could have: the ending is announced and no record built.
FinishRequest_WithoutRecord == Finish /\ UNCHANGED <<hostVars, stash, http, mailed>>

FinishRequest ==
    /\ Finish
    /\ http' = [http EXCEPT ![order.request].pc = "filing",
                            ![order.request].due = RecordOf(order.request, ending)]
    /\ UNCHANGED <<hostVars, stash, mailed>>

\* Meanwhile, or before, or after: the tree, the stash and the lock are let go.
CleanUpRequest ==
    /\ CleanUp
    /\ Discards(order.request)
    /\ UNCHANGED <<hostVars, http, mailed>>

\* A success is not mailed: the client is looking at it.
Notifies(record) == record.outcome \in {"blocked", "failed"}

FileRecord(r) ==
    /\ At(r, "filing")
    /\ CreateComment(http[r].conversation, http[r].due)
    /\ IF Notifies(http[r].due) THEN Goes(r, "marking") ELSE Ends(r)
    /\ UNCHANGED <<benchVars, version, current, pulls, refs, stash, mailed>>

\* The host refuses the comment: the ending is in the log alone.
FilingFails(r) ==
    /\ At(r, "filing") /\ HostFaults
    /\ EndsSilently(r)
    /\ UNCHANGED <<benchVars, hostVars, stash, mailed>>

\* notifyOnce: the record is marked before the mail is sent, so that a repeated
\* call sends no second one.  The comment is looked up on the thread's first
\* page; one that is not there ends the matter.
Notify(r) ==
    /\ At(r, "marking")
    /\ LET c == http[r].conversation
           found == {i \in DOMAIN ListComments(c) :
                        thread[c][i].kind = "record" /\ thread[c][i].request = r}
       IN  \/ \E i \in found :
                /\ MarkNotified(c, i)
                /\ Goes(r, "mailing")
           \/ /\ found = {} \/ HostFaults
              /\ Ends(r)
              /\ UNCHANGED thread
    /\ UNCHANGED <<benchVars, version, current, pulls, refs, stash, mailed>>

SendMail(r) ==
    /\ At(r, "mailing")
    /\ mailed' = mailed \cup {r}
    /\ Ends(r)
    /\ UNCHANGED <<benchVars, hostVars, stash>>

------------------------------------------------------------------------------
\* A developer commits the policy file's next version.
EditPolicy ==
    /\ version < Len(PolicyFiles)
    /\ version' = version + 1
    /\ UNCHANGED <<benchVars, current, threads, stash, http, mailed>>

\* One conversation exists, whose branch holds the site, and the branch of a second
\* that was never opened; nobody is at work.
Init ==
    /\ InitBench
    /\ branch = [n \in Branches |-> [p \in Paths |->
                    IF p \in Markup THEN "page" ELSE "none"]]
    /\ kept = [c \in Conversations |-> None]
    /\ version = 1 /\ current = 0
    /\ pulls = <<1>> /\ refs = {1, 2}
    /\ thread = [c \in Conversations |-> <<>>]
    /\ stash = {} /\ mailed = {}
    /\ http = [r \in Requests |-> Idle]

AtWork == Work /\ UNCHANGED <<hostVars, stash, http, mailed>>

Next ==
    \/ AtWork \/ FinishRequest \/ CleanUpRequest \/ EditPolicy
    \/ \E r \in Requests :
        \/ Post(r) \/ InspectLock(r) \/ OpeningFails(r) \/ Predict(r)
        \/ ClaimBranch(r) \/ OpenConversation(r)
        \/ ReadPolicy(r) \/ PolicyArrives(r) \/ ReadThread(r) \/ WriteWords(r)
        \/ StartFails(r) \/ Acquire(r) \/ TurnedAway(r) \/ RecordRefusal(r)
        \/ FileRecord(r) \/ FilingFails(r) \/ Notify(r) \/ SendMail(r)

Spec == Init /\ [][Next]_vars

------------------------------------------------------------------------------
Unfinished == Opening \cup {"policy", "settings", "thread", "words", "lock"}
Stages == Unfinished \cup {"idle", "running", "filing", "marking", "mailing",
                           "refusal", "over"}

Comments ==
    [kind : {"words", "record"}, request : Requests,
     outcome : {"none", "failed", "blocked", "succeeded"}, path : Paths \cup {"none"},
     buildFailed : BOOLEAN, readable : BOOLEAN, notified : BOOLEAN]
Known ==
    [pc : Stages, opens : BOOLEAN, conversation : Nat, uploads : Nat, answer : Nat,
     branch : Nat, reading : Nat, settings : Nat, stale : BOOLEAN, history : Nat,
     refused : SUBSET (Paths \cup {"none"}), buildFailed : BOOLEAN,
     due : {None} \cup Comments, silent : BOOLEAN, postedAt : Nat, postedTo : Nat]

\* The state is always in a shape the code can be in: the bench, what the host
\* holds and where each request is (types of lib/github/types.ts and the routes).
TypeOK ==
    /\ BenchTypeOK /\ order \in {None} \cup Orders
    /\ version \in DOMAIN PolicyFiles
    /\ current \in {0} \cup DOMAIN PolicyFiles
    /\ pulls \in Seq(refs) /\ refs \subseteq Branches
    /\ DOMAIN pulls \subseteq Conversations
    /\ thread \in [Conversations -> Seq(Comments)]
    /\ stash \subseteq Requests /\ mailed \subseteq Requests
    /\ http \in [Requests -> Known]
    /\ \A r \in Requests :
        http[r].pc = "running" <=> order # None /\ order.request = r /\ step # "discard"

\* A request starts under the policy file as it was when the client posted it, or a
\* later one, however the reads of several requests overlap in the cache, unless its
\* own read failed; then it starts under the last answer that came.  (cache.ts
\* ensureFresh, which startRequest awaits; FR-003f.)
PolicyIsOfItsDay ==
    [][order = None /\ order' # None =>
          LET asked == http[order'.request]
          IN  \/ \E v \in asked.postedAt .. version :
                      order'.policy = ParsePolicy(PolicyFiles[v])
              \/ asked.stale /\ order'.policy \in
                     {ParsePolicy(PolicyFiles[v]) : v \in 1 .. version}]_vars

\* A request's attachments lie in their temporary directory for as long as the
\* request may still place them, and are removed however it ends, but for two
\* endings of the form itself: a model tier nobody offers, and a write of the
\* stash that failed half way.  (attachments.ts stashUploads, discardAttachments
\* and their callers in four files.)
StashLivesAsLongAsItsRequest ==
    /\ \A r \in stash :
        \/ http[r].pc \in Unfinished
        \/ order # None /\ order.request = r
        \/ http[r].answer \in {400, Crash}
    /\ order # None /\ order.uploads > 0 => order.request \in stash

\* A request the client was told had started has, once it is over, one ending in
\* its own conversation, after the client's words, that reads back, unless the
\* host refused the comment or the ending is a refusal on size, whose record names
\* no path and is not read back; and nobody is mailed about an ending the
\* conversation does not show as announced.  (start-request.ts startDetached,
\* recordRefusal; run.ts finish; record.ts parseRecordJson; email.ts notifyOnce.)
EveryTurnIsAnswered ==
    \A r \in Requests :
        LET comments == thread[http[r].conversation]
            words == {i \in DOMAIN comments :
                          comments[i].request = r /\ comments[i].kind = "words"}
            endings == {i \in DOMAIN comments :
                          comments[i].request = r /\ comments[i].kind = "record"}
        IN  /\ http[r].pc = "over" /\ http[r].answer \in {201, 202} =>
                \/ http[r].silent
                \/ /\ Cardinality(endings) = 1
                   /\ \A i \in words, j \in endings : i < j
                   /\ \A j \in endings :
                        \/ comments[j].readable
                        \/ comments[j].outcome = "blocked" /\ comments[j].path = "none"
            /\ r \in mailed => \E j \in endings : comments[j].notified

\* The agent is told of every path refused in this conversation before the request
\* was posted, as far as the first page of comments reaches, and of no path
\* refused in another one.  (conversations.ts collectRefusedPaths; prompt.ts.)
AgentIsToldTheRefusals ==
    prompt # None =>
        LET comments == thread[order.conversation]
            refusedBy(n) ==
                {comments[i].path : i \in {j \in DOMAIN comments :
                    j <= n /\ comments[j].kind = "record" /\ comments[j].readable
                        /\ comments[j].outcome = "blocked"}}
            asked == http[order.request].postedTo
        IN  /\ refusedBy(IF asked < PageSize THEN asked ELSE PageSize) \subseteq prompt.told.refused
            /\ prompt.told.refused \subseteq refusedBy(PageSize)

\* Conversations opened side by side, under numbers that were only predicted, do
\* not share a branch, an ending or a worker: what a request says and does goes to
\* the conversation the client opened for it.  (conversations.ts
\* claimConversationBranch; start-request.ts, which takes the branch from the
\* pull request's head.)
ConversationsAreApart ==
    /\ \A c, d \in DOMAIN pulls : pulls[c] = pulls[d] => c = d
    /\ \A c \in Conversations : \A i \in DOMAIN thread[c] :
        http[thread[c][i].request].conversation = c
    /\ order # None => /\ order.conversation = http[order.request].conversation
                       /\ order.branch = pulls[order.conversation]
===============================================================================
