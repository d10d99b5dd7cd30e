---------------------------- MODULE SiteLock_proofs ----------------------------
(***************************************************************************)
(* Proofs about SiteLock, for every set of requests, threshold and clock   *)
(* bound: the types, the safety invariants of its runs, and that it is the *)
(* lock of SiteMutex until somebody's reference is deleted by another.     *)
(***************************************************************************)
EXTENDS SiteLock, TLAPS

\* Having taken the lock commit and outlived the threshold, for good.
Expired(r) ==
    /\ r \in Requests
    /\ pc[r] # "idle"
    /\ clock - committedAt[r] > MaxAge

\* The reference names a request that created it, whatever became of it since.
RefHasCreator ==
    ref # None => pc[ref] \in {"adopting", "working", "released", "error", "dead"}

\* Nothing is dated after the present.
DatesArePast == \A r \in Requests : committedAt[r] <= clock /\ askedAt[r] <= clock

\* Whoever is breaking a lock has read an expired one, and names no other.
BreakersSawExpired ==
    \A r \in Requests :
        /\ pc[r] \in {"naming", "breaking", "recreating", "adopting"} => Expired(seen[r])
        /\ pc[r] \in {"breaking", "recreating", "adopting"} => named[r] \in {seen[r], None}

RobbedNeedsExpired == robbed # {} => \E r \in Requests : Expired(r)

AbandonedExpired == \A r \in abandoned \ {None} : Expired(r)

IInv ==
    /\ TypeOK
    /\ RefHasCreator
    /\ DatesArePast
    /\ BreakersSawExpired
    /\ OneHolderUntilRobbed
    /\ RobbedNeedsExpired
    /\ AbandonedExpired

-------------------------------------------------------------------------------
\* Every variable of SiteLock keeps its type: the reference, the labels of a
\* request and the dates its decisions are taken on.
LEMMA TypeInit == Init => TypeOK
  BY NoneIsNoRequest DEF Init, TypeOK, PC

LEMMA TypeStep == TypeOK /\ [Next]_vars => TypeOK'
  <1> USE NoneIsNoRequest, TimesAreNatural
  <1> SUFFICES ASSUME TypeOK, [Next]_vars PROVE TypeOK'
    OBVIOUS
  <1>1. CASE Tick
    BY <1>1 DEF Tick, TypeOK
  <1>2. ASSUME NEW r \in Requests, CreateLockCommit(r) PROVE TypeOK'
    BY <1>2 DEF CreateLockCommit, Goto, PC, TypeOK
  <1>3. ASSUME NEW r \in Requests, CreateRef(r) PROVE TypeOK'
    BY <1>3 DEF CreateRef, Goto, PC, TypeOK
  <1>4. ASSUME NEW r \in Requests, ReadContested(r) PROVE TypeOK'
    BY <1>4 DEF ReadContested, Goto, PC, TypeOK
  <1>5. ASSUME NEW r \in Requests, ClaimVanished(r) PROVE TypeOK'
    BY <1>5 DEF ClaimVanished, Goto, PC, TypeOK
  <1>6. ASSUME NEW r \in Requests, ReadHolder(r) PROVE TypeOK'
    BY <1>6 DEF ReadHolder, Goto, PC, TypeOK
  <1>7. ASSUME NEW r \in Requests, BreakStale(r) PROVE TypeOK'
    BY <1>7 DEF BreakStale, DeleteRef, Goto, PC, TypeOK
  <1>8. ASSUME NEW r \in Requests, RecreateRef(r) PROVE TypeOK'
    BY <1>8 DEF RecreateRef, Goto, PC, TypeOK
  <1>9. ASSUME NEW r \in Requests, RecordAbandoned(r) PROVE TypeOK'
    BY <1>9 DEF RecordAbandoned, Goto, PC, TypeOK
  <1>10. ASSUME NEW r \in Requests, Release(r) PROVE TypeOK'
    BY <1>10 DEF Release, DeleteRef, Goto, PC, TypeOK
  <1>11. ASSUME NEW r \in Requests, AcquireFails(r) PROVE TypeOK'
    BY <1>11 DEF AcquireFails, MaybeCreated, Goto, PC, TypeOK
  <1>12. ASSUME NEW r \in Requests, Crash(r) PROVE TypeOK'
    BY <1>12 DEF Crash, Goto, PC, TypeOK
  <1>13. CASE UNCHANGED vars
    BY <1>13 DEF vars, TypeOK
  <1>14. QED
    BY <1>1, <1>2, <1>3, <1>4, <1>5, <1>6, <1>7, <1>8, <1>9, <1>10, <1>11, <1>12,
       <1>13 DEF Next, Acquire

\* Every variable of SiteLock keeps its type in every behaviour.
THEOREM TypeCorrect == Spec => []TypeOK
  BY TypeInit, TypeStep, PTL DEF Spec

-------------------------------------------------------------------------------
\* A request that has expired stays expired: its commit is never dated again.
LEMMA ExpiredIsStable ==
  ASSUME TypeOK, [Next]_vars, NEW q, Expired(q)
  PROVE  Expired(q)'
  <1> USE NoneIsNoRequest, TimesAreNatural DEF Expired, Goto
  <1>1. CASE Tick
    BY <1>1 DEF Tick, TypeOK
  <1>2. ASSUME NEW r \in Requests, CreateLockCommit(r) PROVE Expired(q)'
    BY <1>2 DEF CreateLockCommit, TypeOK
  <1>3. ASSUME NEW r \in Requests,
               Acquire(r) \/ Release(r) \/ AcquireFails(r) \/ Crash(r)
        PROVE  Expired(q)'
    BY <1>3 DEF Acquire, CreateRef, ReadContested, ClaimVanished, ReadHolder,
                BreakStale, RecreateRef, RecordAbandoned, Release, AcquireFails,
                Crash, TypeOK
  <1>4. CASE UNCHANGED vars
    BY <1>4 DEF vars
  <1>5. QED
    BY <1>1, <1>2, <1>3, <1>4 DEF Next

\* The reference is only ever pointed at a request by that request, on its way
\* to work or to losing the answer.
LEMMA RefHasCreatorStep == TypeOK /\ RefHasCreator /\ [Next]_vars => RefHasCreator'
  <1> USE NoneIsNoRequest DEF RefHasCreator, Goto
  <1> SUFFICES ASSUME TypeOK, RefHasCreator, [Next]_vars PROVE RefHasCreator'
    OBVIOUS
  <1>1. CASE Tick
    BY <1>1 DEF Tick, TypeOK
  <1>2. ASSUME NEW r \in Requests, CreateLockCommit(r) PROVE RefHasCreator'
    BY <1>2 DEF CreateLockCommit, TypeOK
  <1>3. ASSUME NEW r \in Requests, CreateRef(r) PROVE RefHasCreator'
    BY <1>3 DEF CreateRef, TypeOK
  <1>4. ASSUME NEW r \in Requests, ReadContested(r) PROVE RefHasCreator'
    BY <1>4 DEF ReadContested, TypeOK
  <1>5. ASSUME NEW r \in Requests, ClaimVanished(r) PROVE RefHasCreator'
    BY <1>5 DEF ClaimVanished, TypeOK
  <1>6. ASSUME NEW r \in Requests, ReadHolder(r) PROVE RefHasCreator'
    BY <1>6 DEF ReadHolder, TypeOK
  <1>7. ASSUME NEW r \in Requests, BreakStale(r) PROVE RefHasCreator'
    BY <1>7 DEF BreakStale, DeleteRef, TypeOK
  <1>8. ASSUME NEW r \in Requests, RecreateRef(r) PROVE RefHasCreator'
    BY <1>8 DEF RecreateRef, TypeOK
  <1>9. ASSUME NEW r \in Requests, RecordAbandoned(r) PROVE RefHasCreator'
    BY <1>9 DEF RecordAbandoned, TypeOK
  <1>10. ASSUME NEW r \in Requests, Release(r) PROVE RefHasCreator'
    BY <1>10 DEF Release, DeleteRef, TypeOK
  <1>11. ASSUME NEW r \in Requests, AcquireFails(r) PROVE RefHasCreator'
    BY <1>11 DEF AcquireFails, MaybeCreated, TypeOK
  <1>12. ASSUME NEW r \in Requests, Crash(r) PROVE RefHasCreator'
    BY <1>12 DEF Crash, Ended, TypeOK
  <1>13. CASE UNCHANGED vars
    BY <1>13 DEF vars
  <1>14. QED
    BY <1>1, <1>2, <1>3, <1>4, <1>5, <1>6, <1>7, <1>8, <1>9, <1>10, <1>11, <1>12,
       <1>13 DEF Next, Acquire

\* Dates are stamped with the present and the present only moves forward.
LEMMA DatesArePastStep == TypeOK /\ DatesArePast /\ [Next]_vars => DatesArePast'
  <1> USE DEF DatesArePast, TypeOK
  <1> SUFFICES ASSUME TypeOK, DatesArePast, [Next]_vars PROVE DatesArePast'
    OBVIOUS
  <1>1. CASE Tick
    BY <1>1 DEF Tick
  <1>2. ASSUME NEW r \in Requests, CreateLockCommit(r) \/ CreateRef(r)
        PROVE  DatesArePast'
    BY <1>2 DEF CreateLockCommit, CreateRef
  <1>3. ASSUME NEW r \in Requests,
               \/ ReadContested(r) \/ ClaimVanished(r) \/ ReadHolder(r) \/ BreakStale(r)
               \/ RecreateRef(r) \/ RecordAbandoned(r) \/ Release(r)
               \/ AcquireFails(r) \/ Crash(r)
        PROVE  DatesArePast'
    BY <1>3 DEF ReadContested, ClaimVanished, ReadHolder, BreakStale, RecreateRef,
                RecordAbandoned, Release, AcquireFails, Crash
  <1>4. CASE UNCHANGED vars
    BY <1>4 DEF vars
  <1>5. QED
    BY <1>1, <1>2, <1>3, <1>4 DEF Next, Acquire

-------------------------------------------------------------------------------
\* A breaker decides on an expired lock and keeps naming that one, whatever
\* becomes of the reference meanwhile.
LEMMA BreakersSawExpiredStep ==
  ASSUME TypeOK, RefHasCreator, DatesArePast, BreakersSawExpired, [Next]_vars
  PROVE  BreakersSawExpired'
  <1> USE NoneIsNoRequest, TimesAreNatural
  <1> SUFFICES ASSUME NEW b \in Requests
      PROVE  /\ pc'[b] \in {"naming", "breaking", "recreating", "adopting"}
                  => Expired(seen[b])'
             /\ pc'[b] \in {"breaking", "recreating", "adopting"}
                  => named'[b] \in {seen'[b], None}
    BY DEF BreakersSawExpired
  <1>1. ASSUME pc'[b] \in {"naming", "breaking", "recreating", "adopting"},
               pc[b] \in {"naming", "breaking", "recreating", "adopting"},
               seen'[b] = seen[b]
        PROVE  Expired(seen[b])'
    <2>1. Expired(seen[b])
      BY <1>1 DEF BreakersSawExpired
    <2>2. QED
      BY <2>1, <1>1, ExpiredIsStable DEF Expired
  <1>2. CASE Tick \/ UNCHANGED vars
    BY <1>1, <1>2 DEF Tick, vars, BreakersSawExpired
  <1>3. ASSUME NEW r \in Requests, ReadContested(r)
        PROVE  /\ pc'[b] \in {"naming", "breaking", "recreating", "adopting"}
                    => Expired(seen[b])'
               /\ pc'[b] \in {"breaking", "recreating", "adopting"}
                    => named'[b] \in {seen'[b], None}
    <2>1. CASE b = r
      BY <1>3, <2>1 DEF ReadContested, Goto, IsStale, TypeOK, RefHasCreator,
                        DatesArePast, Expired
    <2>2. CASE b # r
      BY <1>1, <1>3, <2>2 DEF ReadContested, Goto, TypeOK, BreakersSawExpired
    <2>3. QED
      BY <2>1, <2>2
  <1>4. ASSUME NEW r \in Requests,
               \/ CreateLockCommit(r) \/ CreateRef(r) \/ ClaimVanished(r)
               \/ ReadHolder(r) \/ BreakStale(r) \/ RecreateRef(r)
               \/ RecordAbandoned(r) \/ Release(r) \/ AcquireFails(r) \/ Crash(r)
        PROVE  /\ pc'[b] \in {"naming", "breaking", "recreating", "adopting"}
                    => Expired(seen[b])'
               /\ pc'[b] \in {"breaking", "recreating", "adopting"}
                    => named'[b] \in {seen'[b], None}
    BY <1>1, <1>4 DEF CreateLockCommit, CreateRef, ClaimVanished, ReadHolder,
         BreakStale, RecreateRef, RecordAbandoned, Release, AcquireFails, Crash,
         Goto, TypeOK, BreakersSawExpired
  <1>5. QED
    BY <1>2, <1>3, <1>4 DEF Next, Acquire

\* While nobody has been robbed, a create succeeds only when nobody works, and
\* a release deletes the releaser's own reference.
LEMMA OneHolderStep ==
  ASSUME TypeOK, OneHolderUntilRobbed, [Next]_vars
  PROVE  OneHolderUntilRobbed'
  <1> USE NoneIsNoRequest DEF OneHolderUntilRobbed, Holders, Holding, Goto
  <1>1. CASE Tick \/ UNCHANGED vars
    BY <1>1 DEF Tick, vars
  <1>2. ASSUME NEW r \in Requests, CreateLockCommit(r) \/ ReadContested(r) \/ ReadHolder(r)
        PROVE  OneHolderUntilRobbed'
    BY <1>2 DEF CreateLockCommit, ReadContested, ReadHolder, TypeOK
  <1>3. ASSUME NEW r \in Requests, CreateRef(r) \/ ClaimVanished(r) \/ RecreateRef(r)
        PROVE  OneHolderUntilRobbed'
    BY <1>3 DEF CreateRef, ClaimVanished, RecreateRef, TypeOK
  <1>4. ASSUME NEW r \in Requests, BreakStale(r) PROVE OneHolderUntilRobbed'
    BY <1>4 DEF BreakStale, DeleteRef, TypeOK
  <1>5. ASSUME NEW r \in Requests, Release(r) PROVE OneHolderUntilRobbed'
    BY <1>5 DEF Release, DeleteRef, TypeOK
  <1>6. ASSUME NEW r \in Requests, RecordAbandoned(r) PROVE OneHolderUntilRobbed'
    BY <1>6 DEF RecordAbandoned, TypeOK
  <1>7. ASSUME NEW r \in Requests, AcquireFails(r) \/ Crash(r)
        PROVE  OneHolderUntilRobbed'
    BY <1>7 DEF AcquireFails, MaybeCreated, Crash, Ended, TypeOK
  <1>8. QED
    BY <1>1, <1>2, <1>3, <1>4, <1>5, <1>6, <1>7 DEF Next, Acquire

\* Only a breaker that saw an expired lock robs anybody first; a release can
\* rob only after that.
LEMMA RobbedStep ==
  ASSUME TypeOK, BreakersSawExpired, OneHolderUntilRobbed, RobbedNeedsExpired,
         [Next]_vars
  PROVE  RobbedNeedsExpired'
  <1> USE NoneIsNoRequest
  <1>1. SUFFICES ASSUME robbed' # {} PROVE \E q \in Requests : Expired(q)
    BY <1>1, ExpiredIsStable DEF RobbedNeedsExpired, Expired
  <1>2. CASE robbed # {}
    BY <1>2 DEF RobbedNeedsExpired
  <1>3. CASE robbed = {}
    <2>1. ASSUME NEW r \in Requests, BreakStale(r)
          PROVE  \E q \in Requests : Expired(q)
      BY <2>1 DEF BreakStale, BreakersSawExpired, Expired
    <2>2. ASSUME NEW r \in Requests, Release(r) PROVE FALSE
      BY <2>2, <1>1, <1>3 DEF Release, DeleteRef, OneHolderUntilRobbed, Holders, Holding
    <2>3. CASE Tick \/ UNCHANGED vars
      BY <2>3, <1>1, <1>3 DEF Tick, vars
    <2>4. ASSUME NEW r \in Requests,
                 \/ CreateLockCommit(r) \/ CreateRef(r) \/ ReadContested(r)
                 \/ ClaimVanished(r) \/ ReadHolder(r) \/ RecreateRef(r)
                 \/ RecordAbandoned(r) \/ AcquireFails(r) \/ Crash(r)
          PROVE  FALSE
      BY <2>4, <1>1, <1>3 DEF CreateLockCommit, CreateRef, ReadContested,
           ClaimVanished, ReadHolder, RecreateRef, RecordAbandoned, AcquireFails, Crash
    <2>5. QED
      BY <2>1, <2>2, <2>3, <2>4 DEF Next, Acquire
  <1>4. QED
    BY <1>2, <1>3

\* Whoever adopts the site names the lock it broke, or nobody.
LEMMA AbandonedStep ==
  ASSUME TypeOK, BreakersSawExpired, AbandonedExpired, [Next]_vars
  PROVE  AbandonedExpired'
  <1> SUFFICES ASSUME NEW q \in abandoned' \ {None} PROVE Expired(q)
    BY ExpiredIsStable DEF AbandonedExpired, Expired
  <1>1. CASE q \in abandoned
    BY <1>1 DEF AbandonedExpired
  <1>2. CASE q \notin abandoned
    <2>1. ASSUME NEW r \in Requests, RecordAbandoned(r) PROVE Expired(q)
      BY <2>1, <1>2 DEF RecordAbandoned, BreakersSawExpired
    <2>2. ASSUME NEW r \in Requests,
                 \/ CreateLockCommit(r) \/ CreateRef(r) \/ ReadContested(r)
                 \/ ClaimVanished(r) \/ ReadHolder(r) \/ BreakStale(r)
                 \/ RecreateRef(r) \/ Release(r) \/ AcquireFails(r) \/ Crash(r)
          PROVE  FALSE
      BY <2>2, <1>2 DEF CreateLockCommit, CreateRef, ReadContested, ClaimVanished,
           ReadHolder, BreakStale, RecreateRef, Release, AcquireFails, Crash
    <2>3. CASE Tick \/ UNCHANGED vars
      BY <2>3, <1>2 DEF Tick, vars
    <2>4. QED
      BY <2>1, <2>2, <2>3 DEF Next, Acquire
  <1>3. QED
    BY <1>1, <1>2

-------------------------------------------------------------------------------
\* The inductive invariant behind every safety result of the site lock.
THEOREM Invariance == Spec => []IInv
  <1>1. Init => IInv
    BY TypeInit DEF Init, IInv, RefHasCreator, DatesArePast, BreakersSawExpired,
         OneHolderUntilRobbed, Holders, Holding, RobbedNeedsExpired, AbandonedExpired
  <1>2. IInv /\ [Next]_vars => IInv'
    BY TypeStep, RefHasCreatorStep, DatesArePastStep, BreakersSawExpiredStep,
       OneHolderStep, RobbedStep, AbandonedStep DEF IInv
  <1>3. QED
    BY <1>1, <1>2, PTL DEF Spec

\* Until somebody has deleted a reference that was not its own, the reference
\* names every request at work, so there is at most one.
THEOREM OneHolder == Spec => []OneHolderUntilRobbed
  <1>1. IInv => OneHolderUntilRobbed
    BY DEF IInv
  <1>2. QED
    BY <1>1, Invariance, PTL

\* Nobody's reference is deleted by another request before some request has
\* outlived maxRequestMinutes.
THEOREM YoungLocksAreSafe == Spec => []NobodyRobbedWhileYoung
  <1>1. IInv => NobodyRobbedWhileYoung
    BY DEF IInv, RobbedNeedsExpired, NobodyRobbedWhileYoung, Expired
  <1>2. QED
    BY <1>1, Invariance, PTL

\* Every request recorded as abandoned had outlived maxRequestMinutes.
THEOREM AbandonedWereExpired == Spec => []AbandonedHadExpired
  <1>1. IInv => AbandonedHadExpired
    BY DEF IInv, AbandonedExpired, AbandonedHadExpired, Expired
  <1>2. QED
    BY <1>1, Invariance, PTL

-------------------------------------------------------------------------------
\* A step after which nobody has been robbed is a step of SiteMutex: only the
\* request that works on the site gives it back.
LEMMA MutexStep ==
  ASSUME IInv, [Next]_vars, robbed' = {}
  PROVE  Mutex!Next \/ UNCHANGED Mutex!vars
  <1> USE NoneIsNoRequest DEF Mutex!vars, Holders, Holding, Goto
  <1>1. robbed = {}
    BY DEF Next, vars, Tick, CreateLockCommit, Acquire, CreateRef, ReadContested,
         ClaimVanished, ReadHolder, BreakStale, RecreateRef, RecordAbandoned, Release,
         DeleteRef, AcquireFails, Crash
  <1>2. CASE Tick \/ UNCHANGED vars
    BY <1>2 DEF Tick, vars
  <1>3. ASSUME NEW r \in Requests,
               \/ CreateLockCommit(r) \/ ReadContested(r) \/ ReadHolder(r)
               \/ RecordAbandoned(r)
        PROVE  UNCHANGED Mutex!vars
    BY <1>3 DEF CreateLockCommit, ReadContested, ReadHolder, RecordAbandoned, IInv, TypeOK
  <1>4. ASSUME NEW r \in Requests, BreakStale(r)
        PROVE  UNCHANGED Mutex!vars
    BY <1>4 DEF BreakStale, DeleteRef, IInv, TypeOK, RefHasCreator
  <1>5. ASSUME NEW r \in Requests, CreateRef(r) \/ ClaimVanished(r) \/ RecreateRef(r)
        PROVE  Mutex!Claim(r) \/ UNCHANGED Mutex!vars
    BY <1>5 DEF CreateRef, ClaimVanished, RecreateRef, Mutex!Claim, IInv, TypeOK
  <1>6. ASSUME NEW r \in Requests, Release(r)
        PROVE  Mutex!Finish(r)
    BY <1>1, <1>6 DEF Release, DeleteRef, Mutex!Finish, IInv, TypeOK,
         OneHolderUntilRobbed
  <1>7. ASSUME NEW r \in Requests, AcquireFails(r)
        PROVE  Mutex!Claim(r) \/ UNCHANGED Mutex!vars
    BY <1>7 DEF AcquireFails, MaybeCreated, Mutex!Claim, IInv, TypeOK
  <1>8. ASSUME NEW r \in Requests, Crash(r)
        PROVE  Mutex!Finish(r) \/ UNCHANGED Mutex!vars
    BY <1>8 DEF Crash, Ended, Mutex!Finish, IInv, TypeOK
  <1>9. QED
    BY <1>2, <1>3, <1>4, <1>5, <1>6, <1>7, <1>8 DEF Next, Acquire, Mutex!Next

LEMMA MutexInit == Init => Mutex!Init
  BY DEF Init, Mutex!Init, Holders, Holding

\* Until the first reference is deleted by a request it did not belong to, the
\* protocol of creating and deleting a reference is a lock.
THEOREM MutexUntilThen == Spec => MutexUntilRobbed
  <1>1. IInv /\ [Next]_vars => (robbed' = {} => Mutex!Next \/ UNCHANGED Mutex!vars)
    BY MutexStep
  <1>2. QED
    BY <1>1, MutexInit, Invariance, PTL DEF Spec, MutexUntilRobbed
===============================================================================
