------------------------------- MODULE SiteLock -------------------------------
(***************************************************************************)
(* src/lib/lock/lock.ts and the part of src/lib/jobs/run.ts that takes the *)
(* lock: the git reference refs/webagent/lock is created (the compare and  *)
(* swap), read, judged stale, deleted and created again by requests that   *)
(* may live in different processes.  Every call to the repository host is  *)
(* a step of its own, and each may fail.                                   *)
(*                                                                         *)
(* A lock commit belongs to one request, so its sha is the request itself. *)
(***************************************************************************)
EXTENDS Integers, FiniteSets

CONSTANTS
    Requests,   \* the requests that ask for the site, each once
    None,       \* no reference; also a lock commit that names nobody
    MaxAge,     \* maxRequestMinutes, the staleness threshold
    MaxClock,   \* bound of the model: time stops here
    Faults      \* whether calls to the repository host may fail

ASSUME NoneIsNoRequest == None \notin Requests
ASSUME TimesAreNatural == MaxAge \in Nat /\ MaxClock \in Nat
ASSUME FaultsIsBoolean == Faults \in BOOLEAN

VARIABLES
    clock,          \* minutes
    ref,            \* refs/webagent/lock: whose commit it points at, or None
    pc,             \* where each request is in acquire, its work or its release
    committedAt,    \* committer date of each request's lock commit
    askedAt,        \* the `now` a contested acquire judges staleness at
    seen,           \* the reference a contested acquire read
    named,          \* whom readHolder said the broken lock belonged to
    abandoned,      \* whom an `abandoned` record was written for
    robbed          \* history: requests whose reference somebody else deleted

vars == <<clock, ref, pc, committedAt, askedAt, seen, named, abandoned, robbed>>

PC == {"idle", "create", "contested", "vanished", "naming", "breaking",
       "recreating", "adopting", "working", "released", "held", "error", "dead"}

Holding == {"adopting", "working"}
Holders == {r \in Requests : pc[r] \in Holding}
Ended   == {"released", "held", "error", "dead"}

Goto(r, label) == pc' = [pc EXCEPT ![r] = label]

\* The outcomes of a create call whose answer is lost: it may have been applied.
MaybeCreated(r) == IF ref = None THEN {None, r} ELSE {ref}

Init ==
    /\ clock = 0
    /\ ref = None
    /\ pc = [r \in Requests |-> "idle"]
    /\ committedAt = [r \in Requests |-> 0]
    /\ askedAt = [r \in Requests |-> 0]
    /\ seen = [r \in Requests |-> None]
    /\ named = [r \in Requests |-> None]
    /\ abandoned = {}
    /\ robbed = {}

Tick ==
    /\ clock < MaxClock
    /\ clock' = clock + 1
    /\ UNCHANGED <<ref, pc, committedAt, askedAt, seen, named, abandoned, robbed>>

-------------------------------------------------------------------------------
(* acquire *)

\* A bug CreateLockCommit could have: the commit is dated by its deadline.
CreateLockCommit_Backdated(r) ==
    /\ pc[r] = "idle"
    /\ Goto(r, "create")
    /\ committedAt' = [committedAt EXCEPT ![r] = clock - MaxAge]
    /\ UNCHANGED <<clock, ref, askedAt, seen, named, abandoned, robbed>>

\* getParentSha and createLockCommit: the commit exists before anything is held.
CreateLockCommit(r) ==
    /\ pc[r] = "idle"
    /\ Goto(r, "create")
    /\ committedAt' = [committedAt EXCEPT ![r] = clock]
    /\ UNCHANGED <<clock, ref, askedAt, seen, named, abandoned, robbed>>

\* createRef is refused when the reference exists; the time is read again then.
CreateRef(r) ==
    /\ pc[r] = "create"
    /\ \/ /\ ref = None
          /\ ref' = r
          /\ Goto(r, "working")
          /\ UNCHANGED askedAt
       \/ /\ ref # None
          /\ Goto(r, "contested")
          /\ askedAt' = [askedAt EXCEPT ![r] = clock]
          /\ UNCHANGED ref
    /\ UNCHANGED <<clock, committedAt, seen, named, abandoned, robbed>>

\* A bug isStale could have: a lock exactly maxRequestMinutes old is stale.
IsStale_OrEqual(holder, now) == now - committedAt[holder] >= MaxAge

\* A bug isStale could have: no lock ever becomes stale.
IsStale_Never(holder, now) == FALSE

\* Older than the threshold, strictly.
IsStale(holder, now) == now - committedAt[holder] > MaxAge

\* resolveContestedAcquire: what getRef finds decides between the three endings.
ReadContested(r) ==
    /\ pc[r] = "contested"
    /\ \/ /\ ref = None
          /\ Goto(r, "vanished")
          /\ UNCHANGED seen
       \/ /\ ref # None
          /\ ~IsStale(ref, askedAt[r])
          /\ Goto(r, "held")
          /\ UNCHANGED seen
       \/ /\ ref # None
          /\ IsStale(ref, askedAt[r])
          /\ Goto(r, "naming")
          /\ seen' = [seen EXCEPT ![r] = ref]
    /\ UNCHANGED <<clock, ref, committedAt, askedAt, named, abandoned, robbed>>

\* A bug ClaimVanished could have: the reference is overwritten, not created.
ClaimVanished_Overwrite(r) ==
    /\ pc[r] = "vanished"
    /\ ref' = r
    /\ Goto(r, "working")
    /\ UNCHANGED <<clock, committedAt, askedAt, seen, named, abandoned, robbed>>

\* The holder released between the failed create and the read.  The second
\* create has no handler of its own: losing it again is an error, not `held`.
ClaimVanished(r) ==
    /\ pc[r] = "vanished"
    /\ \/ /\ ref = None
          /\ ref' = r
          /\ Goto(r, "working")
       \/ /\ ref # None
          /\ Goto(r, "error")
          /\ UNCHANGED ref
    /\ UNCHANGED <<clock, committedAt, askedAt, seen, named, abandoned, robbed>>

-------------------------------------------------------------------------------
(* breakStaleLock *)

\* A bug ReadHolder could have: it names whoever the reference points at now.
ReadHolder_Current(r) ==
    /\ pc[r] = "naming"
    /\ Goto(r, "breaking")
    /\ named' = [named EXCEPT ![r] = ref]
    /\ UNCHANGED <<clock, ref, committedAt, askedAt, seen, abandoned, robbed>>

\* Best effort: a message that cannot be read names nobody.
ReadHolder(r) ==
    /\ pc[r] = "naming"
    /\ Goto(r, "breaking")
    /\ named' \in {[named EXCEPT ![r] = who] : who \in {seen[r], None}}
    /\ UNCHANGED <<clock, ref, committedAt, askedAt, seen, abandoned, robbed>>

\* releaseRef deletes the reference whoever it names now; a failed delete is
\* swallowed, so the caller goes on either way.
DeleteRef(r) ==
    \/ /\ ref' = None
       /\ robbed' = robbed \cup ({ref} \ {r, None})
    \/ /\ Faults
       /\ UNCHANGED <<ref, robbed>>

BreakStale(r) ==
    /\ pc[r] = "breaking"
    /\ DeleteRef(r)
    /\ Goto(r, "recreating")
    /\ UNCHANGED <<clock, committedAt, askedAt, seen, named, abandoned>>

\* A bug RecreateRef could have: any refusal is taken for the expired lock.
RecreateRef_IgnoresRefusal(r) ==
    /\ pc[r] = "recreating"
    /\ ref' = IF ref = None THEN r ELSE ref
    /\ Goto(r, "adopting")
    /\ UNCHANGED <<clock, committedAt, askedAt, seen, named, abandoned, robbed>>

\* Losing the create here is `held`: somebody else broke the same lock first.
RecreateRef(r) ==
    /\ pc[r] = "recreating"
    /\ \/ /\ ref = None
          /\ ref' = r
          /\ Goto(r, "adopting")
       \/ /\ ref # None
          /\ Goto(r, "held")
          /\ UNCHANGED ref
    /\ UNCHANGED <<clock, committedAt, askedAt, seen, named, abandoned, robbed>>

-------------------------------------------------------------------------------
(* beginRequest and the handle *)

\* recordAbandoned: the broken request gets its ending; failing to write it
\* must not stop the request that is starting.
RecordAbandoned(r) ==
    /\ pc[r] = "adopting"
    /\ Goto(r, "working")
    /\ \/ abandoned' = abandoned \cup {named[r]}
       \/ Faults /\ UNCHANGED abandoned
    /\ UNCHANGED <<clock, ref, committedAt, askedAt, seen, named, robbed>>

\* handle.release() at the end of the request, however it ended.
Release(r) ==
    /\ pc[r] = "working"
    /\ DeleteRef(r)
    /\ Goto(r, "released")
    /\ UNCHANGED <<clock, committedAt, askedAt, seen, named, abandoned>>

-------------------------------------------------------------------------------
(* Failures *)

\* A call of acquire fails outright: the request never starts.  A create whose
\* answer is lost may have left the reference behind.
AcquireFails(r) ==
    /\ Faults
    /\ pc[r] \in {"idle", "create", "contested", "vanished", "recreating"}
    /\ Goto(r, "error")
    /\ ref' \in IF pc[r] \in {"create", "vanished", "recreating"}
                THEN MaybeCreated(r) ELSE {ref}
    /\ UNCHANGED <<clock, committedAt, askedAt, seen, named, abandoned, robbed>>

\* The process dies: whatever it had created stays.
Crash(r) ==
    /\ pc[r] \notin Ended \cup {"idle"}
    /\ Goto(r, "dead")
    /\ UNCHANGED <<clock, ref, committedAt, askedAt, seen, named, abandoned, robbed>>

Acquire(r) ==
    \/ CreateRef(r) \/ ReadContested(r) \/ ClaimVanished(r)
    \/ ReadHolder(r) \/ BreakStale(r) \/ RecreateRef(r) \/ RecordAbandoned(r)

Next ==
    \/ Tick
    \/ \E r \in Requests :
        CreateLockCommit(r) \/ Acquire(r) \/ Release(r) \/ AcquireFails(r) \/ Crash(r)

Spec == Init /\ [][Next]_vars

\* A request that has begun to ask keeps calling the host until it is answered;
\* nothing obliges a request to begin, to end its work, or to fail.
FairSpec == Spec /\ \A r \in Requests : WF_vars(Acquire(r))

-------------------------------------------------------------------------------
(* Properties *)

\* The types of the state; dates are the host's clock, never before it began.
TypeOK ==
    /\ clock \in Nat
    /\ ref \in Requests \cup {None}
    /\ pc \in [Requests -> PC]
    /\ committedAt \in [Requests -> Nat]
    /\ askedAt \in [Requests -> Nat]
    /\ seen \in [Requests -> Requests \cup {None}]
    /\ named \in [Requests -> Requests \cup {None}]
    /\ abandoned \subseteq Requests \cup {None}
    /\ robbed \subseteq Requests

\* Until somebody has deleted a reference that was not its own, at most one
\* request works on the site, and the reference names it.
OneHolderUntilRobbed ==
    robbed = {} => \A r \in Holders : ref = r

\* The lock is never taken from anybody before some request has held on for
\* longer than maxRequestMinutes: no interleaving of young requests, crashes
\* and lost answers makes one request delete another's reference.
NobodyRobbedWhileYoung ==
    robbed # {} => \E r \in Requests : pc[r] # "idle" /\ clock - committedAt[r] > MaxAge

\* An `abandoned` record is only ever written for a request whose lock had
\* outlived maxRequestMinutes, even when the reference actually deleted was a
\* younger one created in between.
AbandonedHadExpired ==
    \A r \in abandoned \ {None} : clock - committedAt[r] > MaxAge

\* A lock left behind by requests that are gone does not shut the site: once it
\* has expired, the next request that asks alone ends up working on the site, unless
\* a call of its own fails: then it reports the error, or finds the expired lock
\* still there where the deletion was swallowed.  (lock.ts breakStaleLock.)
ExpiredLockGivesWay ==
    \A r \in Requests :
        (/\ pc[r] = "contested"
         /\ ref # None
         /\ askedAt[r] - committedAt[ref] > MaxAge
         /\ \A q \in Requests \ {r} : pc[q] \in Ended)
        ~> \/ pc[r] \in {"working", "released", "dead", "error"}
           \/ pc[r] = "held" /\ seen[r] = ref

\* What lock.ts says of the reference: at most one request in progress, across
\* processes.
AtMostOneInProgress == Cardinality(Holders) <= 1

\* The abstract lock: who the reference names, and who works.
Mutex == INSTANCE SiteMutex WITH owner <- ref, working <- Holders

\* Until somebody's reference is deleted by another, the reference is a lock:
\* each step is a claim of the free site, the holder's own ending, or neither.
MutexUntilRobbed ==
    /\ Mutex!Init
    /\ [][robbed' = {} => Mutex!Next \/ UNCHANGED Mutex!vars]_vars
===============================================================================
