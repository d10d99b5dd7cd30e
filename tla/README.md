# Webamend in TLA+

Webamend lets the clients of a small web site ask for changes in prose: an agent
edits the site's repository, a policy gate judges the edit, the change is pushed to
a branch, the hosting provider builds a preview, and the client publishes the
change or takes it back. One installation serves one site and has no database of
its own. **The repository host is the database:** a conversation is a pull request,
a message or a record is a comment on it, the site's lock is the reference
`refs/webagent/lock`, an interrupted request's work is a reference under
`refs/webagent/wip/`. What makes the system hard follows from this: every read and
write is a call that may fail, or be applied and lose its answer, and requests,
publications, developers, the host's builds and restarts interleave at every one of
them.

Paths below are relative to the repository (`src/lib/...` is the application,
`ops/slotd/...` the host's slot broker).

## Components

| Component (source) | State | Operations | Hard behaviour | What makes it correct | Module |
|---|---|---|---|---|---|
| Site lock (`src/lib/lock/lock.ts`, `github/client.ts`) | one git reference and the dates of lock commits | acquire, judge stale and break, release | races of separate processes, lost answers, time, deaths | one request works on the site; nobody is robbed before the threshold; a dead holder does not shut the site | `SiteLock` |
| Change requests (`jobs/run.ts`, `push.ts`) | lock, stage, record, branch, kept work, slot, tree | beginRequest, execute and its steps, finish, finally | two strands after `return finish(...)`, any call failing, restarts, an outlived lock | order of gate, push and record; nothing held after the end; nothing unjudged is published | `RequestRun` |
| Stage machine (`jobs/state.ts`) | stage of a request | advance (throws on an illegal step) | many paths to the same ending | no path provokes the throw | `RequestRun` |
| Kept work (`jobs/wip.ts`) | a reference per conversation | save (forced push), restore, clear | resumed work that is interrupted again, stale bases | the only copy is not lost; refused work is not kept; what is kept was judged | `RequestRun`, `Workbench` |
| Policy gate (`policy/`, `mirror/changeset.ts`) | none | derive the change set, parse the policy, judge | rules in an order, exemptions, what git's status does not show | nothing leaves that the policy of the request forbids | `Gate` |
| Trees, attachments, prompt, agent (`mirror/`, `jobs/attachments.ts`, `jobs/prompt.ts`, `runner/`) | working tree, control directory, container | prepare, place, launch, wait, kill, verify, commit | a container that edits on its own, timeouts, a kill that fails | what is pushed is what was judged | `Workbench` |
| Bus (`jobs/bus.ts`) | active request, histories, subscribers | publish, follow, forget | a late `done` after the next request's start, a history that overflows | a live request is announced; stages and endings survive the overflow | `Progress`, `RequestRun` |
| Stream and browser (`stream/route.ts`, `useConversationStream.ts`, `ConversationView.tsx`, `PublishControls.tsx`, `Composer.tsx`) | replayed and live stages, the page | replay, follow, reconnect, refresh, send, publish | an announcement during the replay, a dropped connection, stale props | the page agrees with the server once it has read everything, and tells no ending that is not recorded | `Progress` |
| Slot broker (`ops/slotd/webamend_slotd.py`) | capacity, leases, queue, ticker | handle, acquire, release, withdraw, pump, tick, SIGHUP | asyncio: what runs between a completion and the task it wakes; cancellation | capacity, order, no leaked lease | `Slotd` |
| Slot client (`runner/lease-slots.ts`) | the open connection | ask, wait, hang up | peer dies while waiting | its lease goes with its connection | `Slotd`, `RequestRun` |
| Publication (`jobs/publication.ts`, `github/staleness.ts`) | site, merge, records | publish, bring up to date, undo | no lock taken: everything may move between look and act | what goes live was shown; only the last change is taken back | `Publication` |
| Preview wait (`jobs/preview.ts`, `netlify/`) | deploys of the host | wait for the newest deploy | deploys of older commits, late listing | the verdict is about the commit asked for | `Publication` |
| Starting requests (`http/start-request.ts`, `http/parse-request.ts`, both conversation routes) | stashed files, the request on its way | parse, stash, open, read, start, refuse | the client is answered before the start has succeeded; each early return has files to remove | a conversation of its own, an ending for every start, no file left behind | `Conversations` |
| Conversations and records (`conversations.ts`, `record/`) | pull requests, branches, comments | claim a branch, open, read records, file an ending | numbers that are only predicted, one page of comments, records that do not read back | conversations are apart; the agent is told what was refused | `Conversations`, `Publication` |
| Notifications (`notify/`) | marks inside records | mark, then send | a mark or a mail that fails | at most one mail per ending, none the thread does not show | `Conversations` |
| Configuration cache (`config/cache.ts`, `config/loader.ts`) | last good configuration, last fault | refresh | overlapping refreshes | a request runs under the policy of its day | `Conversations` |
| Sign-in (`app/api/auth`, `auth/`, `http/rate-limit.ts`, `app/login`) | cookies in the browser, links in the mail, counters in the process | request a link, open it, enter a code, sign out, enrol | three signed values with dates of their own and no record of any; answers that overtake each other | a session was earned step by step; attempts are bounded | `SignIn` |
| Startup (`config/env.ts`, `config/startup.ts`, `instrumentation-node.ts`) | the settings of the process | parse, check, refuse to serve | settings that change under sessions still alive | no request is served under settings with a fault | `SignIn` |
| Text, logging, redaction, installation scripts | none | | | | not modelled |

How they interact: a change request takes the site lock, then a slot of the host,
then runs the agent in a working tree, and leaves a commit on a branch, a record
comment and announcements on the bus. A publication reads records and the lock,
takes neither lock nor slot, and writes to the site's default branch. The browser
reads records and follows the bus. Who may do any of it is asked of the session
cookie on every call. The slot broker knows the installations of its
host only as clients that hold a connection open.

## Plan

In order of importance, each step with its run and its proof:

1. `SiteMutex`, `SiteLock` — the lock everything else relies on, and the abstract
   lock it implements. *Done: modelled, checked, proved.*
2. `RequestRun` — the orchestrator: stages, gate, push, kept work, slot, lock,
   record. It uses the lock as `SiteLock` describes it, taken and broken in one
   step, with the loss of a live request's lock as its one weakness (`overran`).
   *Done: modelled, checked, and its safety properties proved.*
3. `Slotd` — the broker of agent slots. *Done: modelled, checked, and its safety
   properties proved.*
4. `Publication` — publish and undo beside requests, which it sees from the
   outside. *Done: modelled, checked, and its safety properties proved.*
5. `Progress` — bus histories, replay and following, the browser's reducer and what
   its page offers. *Done: modelled, checked with liveness, and its safety properties
   proved.*
6. `Gate`, `Workbench` — the policy's rules, and the files of one request under the
   lock. *Done: modelled, checked, and its safety property proved.*
7. `Conversations` — the routes, opening, the thread, the configuration cache and
   the mail, around the bench of `Workbench`. *Done: modelled, checked, and its safety
   properties proved.*
8. `SignIn` — links, pending cookies, codes, sessions, rate limits, enrolment and
   the start of the process. *Done: modelled, checked, and its safety properties
   proved.*

Abstract specifications: `SiteMutex` for the lock (done). A plain queue of leases for
the broker was considered and left out: what it would promise is what
`GrantsWithinCapacity`, `FirstComeFirstServed` and `NobodyIsGrantedLate` say of each
step, and these are proved of the broker itself. `RequestRun` and `Publication` see each
other's steps from the outside at different grains (kept work, records), and neither
implements the other.

## The modules and the code

### SiteMutex and SiteLock

`SiteMutex` is the promise: one owner, a claim needs the site free, only the
owner's ending gives it back (or loses it).

`SiteLock` has one action per call to the repository host, because two processes
interleave exactly there:

| Action | Code |
|---|---|
| `CreateLockCommit` | `getParentSha` and `createLockCommit` in `acquire`, which dates the commit |
| `CreateRef` | `createRef` and its 422 handler, which reads the time again |
| `ReadContested` | `resolveContestedAcquire`: `vanished`, held, or stale |
| `ClaimVanished` | the second create, which has no handler of its own |
| `ReadHolder`, `BreakStale`, `RecreateRef` | `breakStaleLock`: read the name, delete, create |
| `RecordAbandoned` | `beginRequest` in `run.ts`: the broken request's record |
| `Release` | `handle.release()`, `releaseRef` |
| `AcquireFails`, `Crash` | a throw from a call, with the create applied or not; a death |

A lock commit belongs to one request, so the commit is the request. `BreakStale`
and `Release` delete the reference whomever it names, as `releaseRef` does, and a
delete that fails is swallowed. `robbed` is a history variable: requests whose
reference somebody else deleted. The protocol does break mutual exclusion once a
lock has expired (the second breaker deletes the first breaker's fresh lock, a
robbed request's release deletes its successor's); the properties say that this is
the *only* way.

### RequestRun

One program counter per request follows `execute`: `prepare` → `restore` → `slot`
(→ `queued`) → `agent` → `keep` or `judge` → `dismiss` or `push` → `spend` →
`preview`, then the finally block `discard` → `freeSlot` → `unlock`. `execute`
returns `finish(...)` without awaiting it, so `filing` is a second strand
(`FileRecord`, `FilingFails`) that runs beside the finally block and beyond it.

Edits are named after the request whose agent made them, so "this work is on the
branch" is set inclusion. `tree` is what the working tree changes, `base` what the
branch held at checkout, `wip`/`wipBase` the kept work and the branch it was made
on. `trees` are the trees on disk, `known` those `execute` can dispose of: they
differ when `prepare` throws half way. An agent here adds edits and takes none away: one
that undoes what was restored to its tree is left to `Workbench`, whose agents change
files as they like, and `KeptWorkIsNotLost` is about what `execute` does with the
work, not about what an agent does to it. The gate, the agent's ending, the preview's
verdict, the slot broker and every failing call are free choices. A push whose
answer is lost, a release that fails and a comment that is written without the
caller knowing are among them. `BringUpToDate` is a publication's push to the same
branch; `Crash` is a restart of the process.

### Slotd

The broker is one Python asyncio loop, so what matters is what runs *between* the
completion of a future and the task that awaits it. `ready` is the loop's callback
queue with three kinds of entries: `decide` (first step of a decision task), `wake`
(a decision task whose future is done), `resume` (a handler one of whose tasks is
done). `Pump` is `Broker.pump` with `_expire`, as a function from queue and leases
to queue, leases and settled futures, including the exception `set_result` raises on
a cancelled future, which leaves the lease entered and the waiter out of the queue.
Memory is measured again before each grant, so each pump takes any number of agents
that `fitting` allows. `doomed` are decision tasks that were cancelled with their
future already done: the cancellation is delivered, the grant stands. `Hup`,
`DeadlinePasses`, `HangUp` and `Tick` come from outside at any point. Projected
waits (averages of past runs) only decide whether a connection is refused at once,
so `Refuse` is a free choice beside `Enqueue`.

### Publication

The site is the sequence of its commits' trees, a branch is its own edits and the
site commit it stands on, so `Tree(tip)` is what a build of it shows.

| Action | Code |
|---|---|
| `Begin` | the approve and undo routes: `refuse`, over `selectPublishState`, which sees the first page of the comments (`PublishState`, `FirstPage`) |
| `Remark` | comments that carry no record: the client's words, the deploy bot, developers |
| `InspectLock`, `Compare` | `checkSafety` of a publish, `readChangeFreshness` |
| `Update`, `Push`, `AwaitRebuilt` | `bringUpToDate`: merge the site in, push, wait |
| `Merge` | `mergePullRequest`, which names no commit |
| `CompareTip`, `ReadTip`, `Revert` | `checkSafety` of an undo, `revertCommit` |
| `RecordPublication` | `recordPublication`, best effort |
| `ListDeploy`, `Build`, `Verdicts` | the host's builds, and `waitForPreview`, which takes the newest deploy of the pull request whatever commit it was built from |
| `Start`, `Work`, `AwaitPreview`, `File`, `Unlock` | a change request from the outside |
| `Commit`, `Restart` | developers, the process |

`excused` and `halfway` are history variables. A conversation is excused when
something overtook its publication: a change request under way or whose record is
late or lost, another publication deciding, the site moving between comparison and
merge, a wait answered by a deploy of another commit, a restart. It is halfway when
it was brought up to date for a publish that then did not happen. It is overlong
(`Overlong`) when a record lies past the page that is read: whoever decides then does
not see it, and TLC finds the property violated without this exception.

### Progress

One conversation and one reader of it. The server's half is the bus (`Publish`,
`Appended`), the endings in the thread, and the stream route as a small machine:
`Connect` → `ReadRecords` → `ReplayRecords` → `InspectLock` → open, with
announcements kept back in `queued` while it replays. The browser's half is the
reducer of `useConversationStream.ts` (`Apply...`), the props of the last render on
the server (`shown`, refreshed by `Refresh`) and the state of the composer and the
publish controls. `wire` is what the route has sent and the browser has not read; a
dropped connection loses it.

### Gate and Workbench

`Gate` is pure: a file is what the rules can tell of it (absent, text, foreign code,
image, link). Foreign code is such as the rules see: they read the first 400,000
characters of a file that was added, or of the lines added to one, and no file with a
NUL byte (`changeset.ts:84-103`); what is beyond is text or image to them, here as
there. A path is the classes the product's own patterns put it in
(`ClassesOf`), a glob of a site's policy is the set of paths it matches. `KindOf` and
`ChangeSet` are `git status` as `classifyStatus` reads it, `Rules` the nine rules of
`gate` in their order, with the exemption of the client's own files in rule 3.

`Workbench` is one request under the lock with real trees: the branch is checked
out and kept work laid over it by a three-way apply (`Prepare`), files placed and
the prompt assembled (`Equip`), a container launched whose edits interleave with
everything the host does (`AgentEdits`), also after a timeout whose kill and removal
both failed (`Killed`); then the gate, over the tree as it is at that moment, and the
commit of exactly the judged paths as *they* are at the commit. `RequestRun` has the
interleaving of several requests and abstracts the files; `Workbench` has the files
and one request at a time.

### Conversations

Extends `Workbench` with everything around the bench. `http` holds each request as
its route and the detached start know it. One action per call that another request
can slip in front of: `Post` (parse and stash), `InspectLock`, `Predict`,
`ClaimBranch`, `OpenConversation` (the client is answered here), `ReadPolicy` and
`PolicyArrives` (two halves of `ensureFresh`), `ReadThread`, `WriteWords`, `Acquire`
or `TurnedAway`, `RecordRefusal`, `FileRecord`, `Notify`, `SendMail`. `ListComments`
answers with the oldest page, as the code asks for no other.

### SignIn

The server keeps counts and nothing else: links are in a mailbox (`inbox`), the two
cookies in a browser (`jar`), answers on their way to it (`wire`), so old ones may
be used at any time and newer ones may be overtaken. A signed value carries the key
it was signed with, a pair of the deployed secret and a purpose, and verification
compares keys and dates as the code does, seconds rounded down where it rounds them.
Codes are steps of an authenticator's clock, which may be ahead of the server's or
behind it (`Offsets`). A route's handler is one action that puts its answer on the
wire: the request's own way to the server is not told apart from a later request. The
exception is the code, whose handler looks at the cookie and counts the attempt
before it awaits the body: `VerifyCode` is what it does before, `CheckCode` what it
does after, and between the two stands a request in `post`, for as long as the server
waits for a body (`BodyWait`, Node's limit on a request's arrival, five minutes to the
limiters' fifteen). `requestLink` awaits its body before it decides anything. The
address a request comes from is whatever its caller states (`from`), another one for
each request if he likes. `Restart` is any death and start of the process, with the same
or with other settings, and runs the faults of `parseEnv` and the checks of
`validateStartup`; what the repository host and the hosting site say to them is
free. Requests that are answered stay in `post` for a window, as a history; they and
the counts that have left the window are dropped at each tick, which no question can
see.

## Runs

| Run | Instance | What it shows |
|---|---|---|
| `site_lock` | 3 requests, threshold 1, clock 0..2, every call may fail | the lock is a mutex (`OneHolderUntilRobbed`, and step by step `MutexUntilRobbed`) until somebody's reference is deleted by another; that needs a lock older than the threshold (`NobodyRobbedWhileYoung`); whoever is recorded as abandoned had expired (`AbandonedHadExpired`); an expired lock of dead requests gives way to the next request (`ExpiredLockGivesWay`) |
| `site_lock_two_holders` | clock 0..3, calls answered; fails, as expected | two live requests at work at once |
| `request_run` | 2 requests of one conversation, failures, restarts | `PublishedWasJudged`, `RefusedWorkIsGone`, `SuccessIsPublished`, `KeptWorkIsNotLost`, `SlotWithinLock`, `LiveRequestIsAnnounced`, `StageAdvancesLegally`; every request that starts ends, without slot and with its record dealt with (`EveryRequestLetsGo`) |
| `request_run_misfiled` | 2 conversations; fails, as expected | an abandoned request's ending in another conversation's history |
| `slotd` | 3 connections, 2 of one client, capacity 1..2 | `GrantsWithinCapacity`, `FirstComeFirstServed`, `NobodyIsGrantedLate`, `ServingHoldsLease`; `PatientPeersLeakNothing`: leases and waiters are looked after as long as peers stay until they are answered |
| `slotd_leak` | the same; fails, as expected | a lease whose connection is gone |
| `publication` | 1 conversation, 2 requests, 2 presses, 1 developer, pages of 2 comments | `UndisturbedPublishWasShown`, `NothingElseIsTakenBack`, `UndoneIsNotLive` |
| `publication_retried` | the same; fails, as expected | a change live whose rebuilt preview had failed |
| `progress` | a change and its publish, 1 reader, 1 drop, histories of 2, pages of 2 | `PageAgreesWithBus`, `FollowedTrailIsWhole`, `ToldOnlyWhenRecorded`, `OfferIsCurrent`, and `InFlightClears`: a page that says a request is running stops saying so |
| `workbench` | 3 requests of one conversation, 7 paths, 2 edits each, docker and git may fail | `OnlyTheJudgedLeaves`: pushes and kept work hold what the policy permits, said without the rules' order |
| `conversations` | 2 clients, 3 conversations, 2 policies, pages of 3, every call to the repository host and the mail server may fail | `StashLivesAsLongAsItsRequest`, `EveryTurnIsAnswered`, `AgentIsToldTheRefusals`, `ConversationsAreApart`, `PolicyIsOfItsDay` |
| `sign_in` | 1 browser, 2 stated addresses, 1 mailbox under two spellings, an authenticator that may be two steps ahead, 2 requests with a code and 2 answers on their way, 5 deployments, clock 0..3 | `SessionsAreEarned`: who may act went from link to code to session in time, but for the wait for a body; `TriesAreBounded`: links by mailbox, codes by stated address |

Deadlock is not checked: in every module each request, connection or press happens
once, and the system then rightly stops.

### Bounds, and why they are enough

* **SiteLock.** Breaking goes wrong with a dead holder and two breakers; the third
  request also gives a young holder beside an expired one. With threshold 1 and
  clock 2 a lock can be younger than, exactly at and older than the threshold, and
  the one that replaces it is young. That a second lock grows stale after the first
  was broken needs a longer clock: `site_lock_two_holders` has it, and the proofs
  hold for every clock. Symmetry is not used, as it is unsound for liveness.
* **RequestRun.** Every interaction between requests of a site is with the
  predecessor's remains: its lock, kept work, unfinished record, lease, tree. Two
  requests give each of them. The two-conversation instance exists for what is shared
  by the site but not by the conversation. A live request that loses its lock to age
  (`Overrun`) is left out of the run, whose liveness property makes symmetry unusable
  and the instance too large with it; the safety properties are proved with it.
* **Slotd.** Three connections: two of one client (the leases' key is the client)
  and one of another, with capacity for one or two; the queue gets two deep, and
  every connection may come, leave and expire at any point.
* **Publication.** One conversation with two presses allows to publish twice, and to
  publish and undo, one after the other or at once; the developer stands for whatever
  else moves the site, another conversation's publish included. A page of two
  comments is passed by the third, with and without words between the records; both
  requests and both presses may leave a record, so a conversation has up to five. What
  a third press adds, another undo or a publish beside both, is covered by the proofs.
* **Progress.** A change and its publish give one request after another on one
  stream; histories of two events overflow with the third, a page of two comments is
  full after the client's words and one record. One dropped connection at every
  point; a second one meets the state the first has left.
* **Workbench.** Three requests: one interrupted, one that resumes its work and is
  interrupted again, one that publishes or is refused. Seven paths have one of each
  class and two names for an attachment. Requests after the first may come under a
  stricter policy. Two edits let an agent undo or overwrite what it did.
* **Conversations.** Two requests at once are what races for a number, a lock and
  the cache; the bench is a small one without faults of its own, since `workbench`
  explores it alone: the two instances together have what one would, without their
  product. A page of three comments is passed by the second request's words.
* **SignIn.** Every lifetime is passed within the clock, limits of one are reached by
  the second attempt, and codes and links are used late, twice and after another
  deployment. One browser suffices: browsers share the limiters' counts and the
  mailbox alone, and a shared count only refuses more. Two answers can overtake each
  other; more add no new order of any two. A caller who states two addresses in turn
  passes the callers' limits, and the mailbox's is what stops the second link. Two
  requests with a code, counted in different windows and compared in one, are twice
  the limit of one, as many as the property allows; one that is counted on the
  last tick of its cookie and compared on the last of `BodyWait` gives the latest
  session it allows. To keep the instance small, three constraints of `MCSignIn`
  (`MCBounds`) end behaviours early: a second address is stated only where no secret
  was enrolled and nothing restarted, as addresses have no part in a session; the
  enrolment link is minted at time 0; a process that can neither serve nor start
  again is not followed. The proofs have none of the three.

### Fairness

* `SiteLock!FairSpec`: weak fairness of `Acquire(r)`. A request that has begun to
  ask is code that runs to the next `await`, and calls to the host are answered or
  fail. Nothing obliges a request to begin, to end its work or to stay alive.
* `RequestRun!FairSpec`: weak fairness of `Execute(r)` and `File(r)`. Each await of
  `execute` has an answer: the agent has its time limit, the slot queue its ceiling,
  the preview its deadline. No fairness on restarts, failures, publications or on
  requests being made.

* `Progress!FairSpec`: weak fairness of each request's `Work(r)`, of the stream route
  and of the browser's reading. Server code runs to its end as above; an
  `EventSource` reconnects by itself and reads what arrives. No fairness on drops,
  failures, restarts or on anything the client presses. The browser gives up after an
  answer other than 200, and a stream asked for with an expired session gets 401:
  `InFlightClears` is about a client who stays signed in. One whose session runs out
  while a request does keeps the in-flight page until it is loaded again, which shows
  the sign-in page.

`Slotd`, `Publication`, `Workbench`, `Conversations` and `SignIn` are checked for
safety only: their waits end by the deadlines that the modules treat as steps.

## Where the code and its words disagree

Four disagreements have a run that TLC finds violated:

1. **Two requests at work at once** (`site_lock_two_holders`; `lock.ts:81` against
   `lock.ts:6`). The staleness threshold is the agent's time limit, and the lock is
   held longer than the agent runs.
2. **An ending filed in the wrong conversation** (`request_run_misfiled`;
   `run.ts:1019` against FR-009a). The lock is the site's, so the breaker may be in
   another conversation than the broken request.
3. **A lease leaked by a peer that dies as it is granted** (`slotd_leak`;
   `webamend_slotd.py:617` against its line 7). The lease is entered before the `try`
   that releases it, and `drain()` may raise in between.
4. **A change live without its rebuilt preview** (`publication_retried`;
   `publication.ts:257` against its line 36). The merged branch is pushed before its
   preview is known, and a publish that ends there leaves no trace.

Noticed while modelling, visible in the modules, without a run of their own:

* `run.ts:60` says every exit writes a durable record; when `createComment` fails
  (`run.ts:809`) there is none and no `done` either (`FilingFails`).
* When `prepare` throws after the checkout, `execute` has no tree to discard and the
  clone stays on disk (`RestoreKept`, variables `trees` and `known`); compare
  `wip.ts:15-16`.
* A request can have two records, its own ending and `abandoned`, when its release
  failed or it outlived its lock (`Unlock`, `Begin`); FR-009a speaks of a single one,
  and `state.ts:14-15` of `abandoned` as the ending of requests whose process died.
* Two overrunning requests may overwrite each other's kept work, hence the
  `~overran` in `KeptWorkIsNotLost`.
* `preview.ts:77` takes the newest deploy: right after a push this is the previous
  one, and it is ready (`Mistakes`).
* The lock is inspected, not taken, before a merge (`InspectLock` and `Merge`), and a
  change request starts also in a published conversation (`Start`).
* `listComments` reads one page of thirty comments (`client.ts:291`), the oldest: in a
  longer conversation the newest records are not seen, no mail is sent and the agent
  is told the oldest refusals (`ListComments`; the properties of `Conversations` say
  "as far as the first page reaches"). Nor does the newest request decide what may be
  published, as `conversations.ts:291` has it: a change that was previewed on the
  first page stays ready, and a later, broken one on the same branch is merged
  (`FirstPage`, and `Overlong` in `UndisturbedPublishWasShown`). An undo compares the
  site's tip itself, so `UndoneIsNotLive` and `NothingElseIsTakenBack` need no such
  exception.
* A record that lands between the stream route's read of the conversation and its
  subscription is missed by the page that opens then (`route.ts:13-16`); hence the
  `CaughtUp` and `live` in the properties of `Progress`. A request that fails to be
  sent leaves the composer waiting until the page is loaded again
  (`useConversationStream.ts:22`).
* A record refused on size names no path, and `record.ts:111` does not read such a
  record back: the ending disappears from the conversation, contrary to
  `contracts/durable-record.md:48` (the exception in `EveryTurnIsAnswered`).
* A form with files and a model tier nobody offers, or a write of the stash that
  fails half way, leaves the files behind (`attachments.ts:16-19` says they are
  "removed however the request ends"; the exception in
  `StashLivesAsLongAsItsRequest`).
* A client's words stay in the conversation without an ending when the route answers
  409 or 500 (`TurnedAway`, `StartFails`), and branches of attempts that failed use
  up the ten names an opening tries (`ClaimBranch`).
* Kept work that holds a client's file outside the allow list is restored without the
  file's exemption, refused in the next request, and spent (`Prepare`, `Block`;
  `gate.ts:44-52`). A tracked file replaced by a link has a status that
  `classifyStatus` drops: the replacement is neither judged nor committed (`KindOf`).
* A timeout whose kill and removal both fail leaves an agent that edits while its
  work is kept (`Killed`, `Keep`), against `wip.ts:21`; hence `box = "gone"` in
  `OnlyTheJudgedLeaves`. Only work kept is touched by this: a push follows an exit.
* Of two refreshes of the configuration the one that answers last stays in the cache,
  not the one that asked last (`PolicyArrives`; `cache.ts:62`); a request whose own
  read then fails is served the older one.
* An attempt with a code is counted when the request's head is in and its code compared
  when its body is (`VerifyCode`, `CheckCode`; `route.ts:162` and `route.ts:168`). In
  one window up to twice the limit may be compared, against the "ten guesses per
  address per window" of `route.ts:52-53`; the pending cookie may expire in between,
  and the session is issued all the same.
* Codes are counted by the stated address alone, which a caller can forge
  (`rate-limit.ts:75-77`, where the limit by mail address "carries the weight": codes
  have none, and `route.ts:38` calls the limit by caller "the looser of the two", while
  the one on codes is the tighter). `TriesAreBounded` bounds the codes of one stated
  address, not of one caller or of one account.
* A publication whose audit entry fails has merged all the same, and nothing in the
  conversation says so (`Act`, `Fail`; `publication.ts:166-180`): a page that follows a
  change request running beside it goes on offering to publish until it is loaded
  again; hence `MergeIsRecorded` in `OfferIsCurrent`. The small run never needed this
  exception: the proof did, as it takes a change request begun between the start of
  the publication and its merge.
* An answer to a code that arrives after a later sign-out sets a session in the
  signed-out browser (`Arrive`); sessions are values nobody can recall but by a new
  secret, and a new authenticator seed ends none of them.

## Proofs

### The lock (`SiteLock_proofs`)

Proved for every set of requests, threshold, clock bound and setting of `Faults`,
from the three assumptions `SiteLock` names (the sentinel is no request, times are
natural numbers, the switch is Boolean):

* `TypeCorrect`, `OneHolder`, `YoungLocksAreSafe`, `AbandonedWereExpired`: the
  invariants of the run `site_lock`;
* `MutexUntilThen`: every step is a step of `SiteMutex` or a stutter, under the
  mapping `owner <- ref`, `working <- Holders`, until somebody's reference is deleted
  by another.

None of the invariants is inductive alone. `IInv` adds what the argument is about:

* `RefHasCreator`: the reference names a request that has created it, so a request
  that has yet to begin is never named, and whoever is named has a dated commit;
* `DatesArePast`: no date lies in the future, so an age measured at `askedAt` is at
  most the age now;
* `BreakersSawExpired`: whoever is naming, breaking, recreating or recording has seen
  an expired lock. Without it a request in `breaking` could delete a young lock;
* `RobbedNeedsExpired` and `AbandonedExpired`: the two history variables in terms of
  `Expired`, which is stable (`ExpiredIsStable`: a commit is never dated again).

A robbed request then implies an expired one: the deleter was either a breaker, which
has seen an expired lock, or a releasing holder whose reference was no longer its own,
and then, by `OneHolderUntilRobbed`, somebody had been robbed before.

### The change request (`RequestRun_proofs`)

Proved for every set of requests and conversations and every setting of `Faults`,
`Crashes` and `Overrun`, from `SentinelsAreNoRequests` and `OfIsTotal`: the types and
all seven safety properties of the run `request_run`. The inductive invariant `IInv`
has, besides the types,

* `StageFitsLabel`: where `execute` is determines the stage, so every `advance` is a
  legal one (`StagesAdvanceLegally`);
* `EndingFitsLabel`: an ending is decided where the try block is left, and `finish`
  runs beside or after the finally block only. Without it a late `done` could belong
  to a request still at work;
* `HolderIsAlone` and `SlotFitsLabel`: while no live request has lost its lock, who is
  between taking and giving it back is named by it and announced, and a slot is held
  within that span (`SlotsAreUnderTheLock`, `WorkIsAnnounced`). `Begin` preserves it
  because it finds the lock free or that of a request that is over;
* `PushedWasAccepted` and `SuccessIsAnEnding`: what is pushed is what the gate let
  through, and it stays on the branch, which only grows (`SuccessesArePublished`,
  `OnlyJudgedWorkIsPublished`);
* `OwnEditsConfined`: until a request keeps or pushes its work, and for good when a
  verdict refuses it, its edits are in its own tree at most. Others get at edits only
  through a branch or kept work, which is why it is stated of all trees
  (`RefusalsAreFinal`);
* `BaseIsOnBranch` and `KeptIsAccountedFor`: the tree of a working request contains
  its conversation's kept work, or that work would not apply any more, so neither
  `Keep` nor `Spend` loses any of it (`KeptWorkSurvives`). This rests on
  `HolderIsAlone`: two requests at once overwrite each other's kept work, hence the
  `~overran`.

`IInv` was checked with TLC on the instance of `request_run` before it was proved.

`RecordsTellTheTruth` is a result no run checks: of the endings a conversation shows, a
request has at most one of its own (`RecordsAreTrue`), in its own conversation, and it
is the one the stage machine announced to the browsers; `abandoned` is said of a request
at work only if that has lost its lock to age. It rests on `RecordsFit`, kept beside
`IInv`: a request whose ending is being filed is past every step that decides endings.
A request may still have both, its own ending and `abandoned`: when its lock outlived it.

### Publishing and taking back (`Publication_proofs`)

Proved for every set of conversations, change requests, presses and developers, and
whatever the size of a page, from `OfIsTotal` (a request belongs to one conversation),
`NoneIsNothing` (the sentinel is no request) and `PageIsNumber`.

* `BaseInv` is the types and one fact the whole argument uses: whoever has read
  anything of the site — a branch's base, a merge, the tip in a publication's hand —
  read a commit that is still there, for commits are only appended (`TypeCorrect`).
* `SiteInv` adds `MergesAdd` (a merge adds edits of its own conversation and removes
  none) and `UndoneIsTakenBack`, which has to include the undo that has reverted and
  not yet recorded it. From these, `UndoneStaysUndone` and, per step,
  `OnlyTheNewestIsTakenBack`.
* `ShownInv` is about an undisturbed publish. `OneAtATime` says that two that are
  about to decide something on one conversation have excused it; `RequestKnowsBranch`
  and `PublishKnowsBranch` say that a tip in hand is the branch as it is, and
  `BranchWasShown` who is changing that if the branch was not shown. Without
  `ReadyWasShown` a deploy that answers a wait could be of something nobody saw.
  What ties the page to the conversation is `OnThePage`: with no record past it, what
  is last on the page is last of all. `UndisturbedIsShown` follows.

### Sign-in (`SignIn_proofs`)

`AccessIsEarned` is proved for any browsers, addresses, deployments, lifetimes and
authenticators' clocks, from `SignInConstants`: lifetimes and settings are numbers, a
code's step is not empty, requests are finitely many, and the server waits for a body
no longer than a window of the limiters. Cookies cannot be recalled, so the invariant is not about the state of the
server but about every cookie there is, in a browser or on its way to one
(`HeldIsEarned`): half a sign-in was set within a link's life of its mailing, a
session on a code whose step was near enough, no longer after a link than both lives
and the wait for a body together. That stays true (`EarnedStays`) since mail stays in
its box, the clock goes on and a code that was read has been read. Between cookie and
session there is a request in hand (`RequestsAreEarned`): it was counted on half a
sign-in that was good then, no longer ago than a body may take, under the secret that is
still in force, for a restart ends it (`RequestIsKept`). What is left of the property
is the comparison of dates in whole seconds and steps, done in `Whole` and
`AcceptedIsNear`.

`AttemptsAreLimited` is about another fact: that the limiter's own list, cut at every
question, stands for all attempts that a window could still contain. So `LimitInv` compares
the two not for the window that ends now but for every one that ends later
(`RequestsAreCounted`, `MailIsCounted`): what leaves the list at a cut is in none of these
(`RecentFits`). The limit itself is then an invariant of the list alone
(`HitsAreBounded`), and links of an earlier life of the process are not counted, which is
all that a restart changes. Codes that are compared in this window were counted in it or
in the one before (`AnswersAreTimely`, and `BodyWait <= Window`), so the bound on them
needs that earlier windows were not overdrawn either: `WindowsAreKept` says it of a
window ending at any moment up to now.

### The gate and the bench (`Workbench_proofs`)

From `PathClasses` and `BenchConstants`, for any set of paths in any classes, any
policy, any agent and any fault:

* `PassedIsPermitted`: what is committed of a tree the gate let through is permitted,
  in terms of sets of changed paths. The proof goes through the nine rules one by one;
  those on size need that the committed tree differs from its head by exactly the
  paths that were judged.
* `GateIsThePolicy`: the converse as well, so the nine rules in their order and
  `Permitted`, which knows neither rules nor order, are the same predicate. A gate that
  refused too much would satisfy every property of the runs; it would not satisfy this.
* `BlameIsDeserved`: the paths a refusal blames, which the client reads and the next
  agent is told to avoid (`AgentIsTold`), were changed and break the rule named
  (`Offends`); a refusal that blames no path is one of the two on size.
* `BenchInv`, which every step of the bench keeps: the tree is over the commit the
  branch is at until the push (`TreeIsOfBranch`), a verdict stands for as long as
  nothing may edit (`VerdictStands`), the prompt is the order's (`PromptIsOfOrder`),
  an ending says what its record must carry (`EndingIsTold`).
* `WorkLeavesJudged`: from `BenchInv`, a step changes a branch or the kept work only by
  what was judged.

`Workbench` has no specification of its own: `MCWorkbench` gives it a queue of
requests, `Conversations` the routes. `OnlyTheJudgedLeave` is the property under the
specification of `Conversations`, the more general of the two.

### Conversations (`Conversations_proofs`)

For any finite set of requests, any forms, any sequence of policy files, any page
size and number of tries, and all faults: the five invariants and the action property
of the run `conversations`, and `OnlyTheJudgedLeave`. The assumptions are
`ConversationsConstants` (what the constants are), `NumbersForAll` (there are numbers
and names for as many conversations as there are requests, which bounds nothing: a
request opens one at most) and `NoneIsNoOrder`. The inductive invariant `IInv` has

* `NamesInOrder`: the names taken are the first *k*, and who is about to claim one
  knows that those before it are taken. Without it a type would not hold either, since
  names would run out of `Branches`; with it, *k* is bounded by the number of requests
  that have claimed one (`Claimants`);
* `NamesAreOwned`: a name belongs to one pull request, or to the one request that will
  open it (`ApartForGood`);
* `RequestsFit`, `VersionsFit`: what a request knows by where it is. The settings in
  hand are no older than the form, unless its read failed, *also while they are on
  their way through the cache* (`PolicyIsFresh`);
* `StashFits` beside `StashLivesAsLongAsItsRequest`: the property speaks of the request
  at work only, the invariant of all that are still to get there (`StashIsCleared`);
* `RefusalsFit`, `OrderIsRequests`: what is told of a thread was true of it when it was
  read and stays so as the thread grows at its end (`Tells`, `TellsOn`), handed from
  the request to the order and by `PromptIsOfOrder` to the prompt (`AgentIsTold`);
* `CommentsFit`, `EndingsFit`: a comment is in its author's conversation, an ending is
  its author's last word, and one that is due reads back (`EveryTurnEnds`).

The module first says what each action does to `http`, field by field (the lemmas
named `...Does`), then which variables it leaves alone (`Frames`), then that a request
only moves forward (`Opens`, `Begins`, `Closes`, `Advances`); the conjuncts of `IInv`
are preserved by these facts rather than by the actions' definitions. `IInv` was checked
with TLC on the instance of `conversations` before it was proved.

### The slot broker (`Slotd_proofs`)

For any connections and clients, any bound on the capacity and whatever memory fits at
any moment: the three invariants and three action properties of the run `slotd`, from
`NoneIsNoConnection`, `ClientOfIsTotal` and `CapacityIsPositive`.

The queue and the loop's callbacks are sequences without duplicates from whose middle
entries leave. `Kept(s, S)` is defined by the places it keeps in order, not by
`SelectSeq`, so that it can be reasoned about without induction over data: the rank of
a place among the kept ones is a bijection (`RanksCount`), which gives the order and
the elements of what is left (`KeptInOrder`, `KeptFits`). A pump is then described once
(`PumpDoes`, `PumpFits`): it refuses a set of waiters that are overdue, grants a
prefix of the others, at most as many as there is room for, and may raise at a
cancelled one; every action that pumps uses this and not the definition of `Pump`.

`LeasesAreBounded` follows from `CapacityHolds`, step by step: a smaller capacity evicts
nobody, so there may be more leases than the capacity in force, but never more than the
largest capacity a SIGHUP may set.

`IInv` has, besides the types and `PatientPeersLeakNothing`,

* `WaitersFit`: who waits has no lease and is alone of its client. Without it a grant
  could replace another connection's lease of the same client, and `ServingHoldsLease`
  would be lost;
* `DecisionsFit`: what a decision task says of its future and what the loop still has
  to call for it, so that nobody is woken, resumed or granted twice;
* `LeasesFit`: a grant is its client's lease for as long as its handler may serve it,
  and each lease is a grant to a connection of that client (`ServingIsLeased`,
  `CapacityHolds`);
* `PatienceFits`: while no peer has left before its answer, nothing is cancelled, so no
  pump raises and no handler ends with a decision still out (`PatienceLeaksNothing`).

`IInv` was checked with TLC on the instance of `slotd` before it was proved.

### The page and the stream (`Progress_proofs`)

For any requests, histories and pages of comments of any size, any number of dropped
connections and restarts: all five invariants of the run `progress`, from
`NoneIsNoRequest`, `BoundsAreNumbers` and `KindOfIsTotal`.

What the browser has read says little while events are on the wire, so the argument is
about `Ahead`, the page as it will be once it has read them: `ReadAll(Now, wire)`. For a
page that has caught up, `Ahead` is the page. `IInv` has, besides the types,

* `HistoriesTell`: whoever turns to an announced request and reads its history knows the
  request as it is. This is what makes it indifferent when somebody begins to follow;
* `FollowsWell`: once everything is read, the page shows what the connection follows as
  it is, and nothing as running if it follows nothing (`FollowersKnowTheTrail`);
* `LinkFits`: the request the connection follows, or will when the announcements kept
  back are followed, is the one the bus announces, or has ended (`PageKnowsTheBus`);
* `EndingsAreTold`, with `RequestsFit` and `SnapshotFits`: an ending is shown only of a
  request that has ended, after its record, or is replayed from that record, and it is
  the one recorded (`EndingsAreInWriting`). It is said of the page as it is and as it will be, since a
  dropped connection takes the page back from the second to the first;
* `OfferFits` and `PublicationsMerged`: what is offered is what the server would allow,
  or the page is about to be rendered again (`OffersAreCurrent`).

Histories, replay and reading are folds. A fold is a recursive function, of which the
provers know only its equation, so the module first shows that a fold goes through a
sequence of states, one per event, that stays within any set the steps stay in, and is
the only one (`RunExists`, `RunIsUnique`, `ReadRuns`). From there: who reads two parts
has read the whole (`ReadJoins`), dropping an output changes nothing a reader is told
(`AppendedReads`, `KeptReads`), a replay tells recorded endings only (`ReplayFits`),
and following announcements in turn ends at the last one, shown as it is
(`FollowEachShows`). Each kind of step then has one lemma, whichever action takes it:
`PublishKeeps`, `AnnounceKeeps`, `SettleKeeps`, `HangUpKeeps`, and `QuietKeeps` for
those that tell nobody anything. `IInv` was checked with TLC on the instance of
`progress` before it was proved.

### Only model-checked

Liveness (`ExpiredLockGivesWay`, `EveryRequestLetsGo`, `InFlightClears`): TLAPS does
not reason about fairness and `ENABLED`.

## Not modelled

Wording, interface text, logging, redaction and formatting (no state); how a glob
matches a path (its result is the constant `ClassesOf`, or a set of paths in a
policy) and how strings are parsed and escaped, which the repository's unit tests
cover; the contents of edits; cost and duration arithmetic; alerts to the operator,
which nothing waits for; the rebuilding of the mirror's cache; the readiness endpoint
and the token minter's cache, which decide nothing in the product; the webhook of the
hosting provider, which only acknowledges; what a container does inside; installation
and monitoring scripts. Of the modelled parts: a process is one per installation, as
deployed, so `Conversations` has one; `Progress` has one reader, as readers share
nothing but the bus and the thread.
